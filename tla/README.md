# Verification of hmmm

TLA+ models of the compiler front ends in this repository, checked with TLC and,
where it matters most, proved with TLAPS. File references are relative to the
repository's `src/`.

## 1. The system

The repository holds five generations of one project. Each directory is the
successor of the one before it; `midori` is the current one.

| directory | what it is |
| --- | --- |
| `madoka` | a calculator with functions, on flex and bison, evaluated through LLVM |
| `sayaka` | a language with types, scopes and functions, on flex and bison |
| `siyu`, `siyu-1` | hand-written: an LL(1) regex parser, NFA, DFA, lexer, parser generator; a start at DFAs straight from a regex |
| `tk` | LALR(1) parser generator with propagated lookaheads |
| `midori` | LR(1) and LALR(1) parser generator, lexer over Unicode ranges, a language on top of it, type checker, LLVM code generation |

Nothing in it runs concurrently. What is hard is the sequential kind of hard:
fixpoints computed in place, recursions over cyclic graphs, worklists that grow
while they are read, look-ahead that must be undone, state that survives from one
call to the next, and passes over the same syntax tree that must agree.

### 1.1 The components of midori

All paths below are in `midori/src/midori/`.

| component | state | operations | must hold |
| --- | --- | --- | --- |
| nullable and FIRST sets (`parser.cpp:186`) | `nullable`, `firsts` | `add_production`, `generate_first_sets` | least solution of the grammar's equations, whatever the order of the productions; the loop ends |
| digraph (`parser.cpp:536`) | stack, numbering `N`, values `F` | `digraph`, `traverse` | every node gets the union over all it reaches, cycles included |
| precedence (`parser.cpp:49`, `161`, `354`) | class to level, level to class, symbol and production to class | `set_precedence_class`, `set_precedence`, `precedence_of` | the maps stay inverse, equal levels mean equal associativity |
| parser generator (`parser.cpp:85`) | productions, states, transitions, relations, lookaheads, actions, conflicts | `generate` | states are canonical, lookaheads are those of LALR(1), conflicts are recorded |
| parser run time (`parser.cpp:109`, `715`) | two stacks, the symbol buffer | `parse`, `reset`; rewrite handlers are called back | accepts the language, loses no token, calls do not disturb each other |
| lexer (`lexer.cpp`) | buffer, position, location | `scan`, `reset` | longest match, true locations, no character lost |
| finite automata (`finite_automata.cpp`) | NFA with range transitions, DFA | `add`, `to_dfa`, `generate_star` | same language before and after |
| regex syntax trees (`regex_ast.cpp`) | groups of ranges, NFA under construction | visitors | groups denote the set they list; automata the regex's language |
| interval tree (`interval_tree.impl.h`) | AVL tree with range bounds | `insert`, `pop`, `find`, `search` | balanced, and holds exactly what was inserted |
| regex engine (`regex_engine.cpp`) | a parser | `parse` | reads the grammar of regexes, with `{n}` rewritten, into the tree that was written |
| language (`lang.cpp`) | a parser, syntax tree | `generate`, `parse` | no conflicts are left; handlers take the right symbols |
| types (`types.cpp`) | registry, cached pointer and array types | `register_type`, `get`, `make_*` | one object per type |
| type checker (`type_checker.cpp`) | scopes, `_want`, current type | visitors | agrees with code generation on what a name stands for |
| code generation (`codegen.cpp`) | scopes, current value, blocks | visitors | every branch joins, names resolve |
| grammar files (`generator.cpp`) | a parser, and one under construction | `from_file` | the calls made are those the file asks for, in its order |
| UTF-8 (`utf8.h`) | none | encode, decode | inverse on code points |
| GLR (`glr.cpp`) | item sets | `generate` | not in the build, no run time |

`Parser` calls `Lexer` for tokens and owns it (`Parser::reset` resets it). The
regex engine, the language and the grammar files are clients of `Parser`: they add
rules, productions, precedence classes and handlers, call `generate` once and
`parse` as often as they like. A handler is called back in the middle of a
reduction and may, as a rewrite, return symbols that go back into the parser's
buffer. `Lexer` builds its automaton from the clients' regexes by way of syntax
trees, NFA and subset construction; the interval tree holds the transitions over
ranges. Type checker and code generator both walk the language's syntax tree.

### 1.2 The predecessors

| component | state | operations | must hold |
| --- | --- | --- | --- |
| regex parser (`siyu/src/regex.cpp`, the same in `siyu-1` and `tk/src/regex_old.cpp`) | the text, a stack of positions | `parse`, a function per nonterminal | every way out of every function leaves the stack as its caller expects |
| lexers (`siyu`, `tk`: `lexer.cpp`, `finite_automata.cpp`, `regex.cpp`) | rules, NFA, DFA, buffer | `add_rule`, `scan`, `reset` (tk) | longest match, whenever rules were added |
| parsers (`siyu`, `tk`: `parser.cpp`) | productions, tables, two stacks, the token buffer | `add_production`, `generate`, `parse` | stacks hold derivations of the text; sentences are read to their end |
| DFA straight from a regex (`siyu-1/src/regex.cpp`) | a syntax tree with unfolded repetitions | `nullable`, `first_pos` | agree with the regex |

The lexer of siyu calls the regex parser when it generates its automata, its parser
calls the lexer; that of tk is given syntax trees instead.

### 1.3 Hazards

PROJECT.json lists each, at the line where it bites, with the properties that
would catch it, or why there is none.

## 2. Modules

| module | models | kind |
| --- | --- | --- |
| `FirstSets` | `add_production`, `generate_first_sets` | state machine, one production per step |
| `FirstSets_proof` | | proofs |
| `Digraph` | `digraph`, `traverse` | state machine, an explicit stack for the recursion |
| `Digraph_proof` | | proofs, for any relation |
| `Precedence` | precedence classes and the decision at a conflict | actions and operators, part of `ParserGenerator` |
| `ParserGenerator` | `generate`, for LR(1) and LALR(1) | state machine over the worklist, then one action per phase |
| `LRParser` | `parse`, `parse_advance`, `parse_symbol`, the buffer, rewrites | state machine, one turn of the loop per step |
| `Parser` | a `Parser` over its life: configure, generate, parse, parse again; what a grammar derives | composes the three, properties |
| `Parser_proof` | | proofs about classes, tables, lookaheads and stacks, for any grammar |
| `Language_proof` | | proofs about what is read and accepted, for any grammar and text; builds on `Parser_proof` |
| `RegexEngine` | productions, tokens and handlers of `regex_engine.cpp` | a grammar for `Parser`, operators |
| `Lang` | the syntax tree of `lang.h`; productions, precedence script and handlers of `lang.cpp` | constructors, for the visitors too; a grammar for `Parser`, operators |
| `GrammarFile` | productions and handlers of `generator.cpp` | a grammar for `Parser`, operators |
| `Tokenizer` | what a lexer promises | abstract specification |
| `Lexer` | `scan`, `_scan`, `read`, `reset` | state machine, one character per step; implements `Tokenizer` |
| `Lexer_proof` | | proofs, the refinement of `Tokenizer` among them |
| `CharRange` | code points in machine arithmetic, ranges of them | operators |
| `RegexRanges` | groups (`add_range`, `flatten`, `merge`, `complement`), `RegexNFAState::add` | an action and operators |
| `SubsetConstruction` | `to_dfa`, `generate_star` | state machine, one range followed per step |
| `Automata_proof` | | proofs about groups, added ranges and `to_dfa`, for any ranges and any NFA |
| `RegexAutomata` | `RegexNFAGenerator` and its visitors; `add_range`, `add_rule`, `Lexer::generate`; what regexes mean | composes the three, properties |
| `RegexWords` | words, repetitions of sets of words | reference, also for `SiyuLexer` |
| `RangeMap` | what an interval tree promises | abstract specification |
| `IntervalTree` | `insert`, `pop`, `find`, `all` on an AVL tree | state machine, one range removed per step; implements `RangeMap` |
| `IntervalTree_proof` | | proofs, the refinement of `RangeMap` among them |
| `TypeChecker` | `register_type`, `pointer_ty`, `array_ty`, `make_struct`, `set_fields`; scopes; the visitors of the type checker | operators, recursive over the tree |
| `CodeGen` | the visitors of the code generator, over functions and blocks | operators, recursive over the tree |
| `FrontEnd` | `CodeGen::process` on a program as `main` makes it | composes the two passes, properties |
| `RegexReader` | the recursive descent of siyu, siyu-1 and `tk/regex_old` | operators over the stack of positions; the trees are parameters |
| `SiyuAutomata` | trees, NFA generator and `to_dfa` of siyu and tk | operators |
| `SiyuLexer` | `add_rule`, `scan`, `reset` of siyu and tk | state machine, one call per step |
| `Siyu1Regex` | trees of siyu-1, `nullable`, `first_pos` | operators |
| `ExtendedGrammar` | `generate` of siyu and tk; derivable texts | operators, a reference |
| `SiyuParser` | `add_production`, `generate`, `parse` of siyu and tk | state machine, one turn of the loop per step |
| `LeastElement` | | facts about natural numbers the proofs use in place of induction |
| `MC...` | the instances TLC checks; `MCReaders` and `MCClients` also say how regexes, programs and grammars are written | |

### 2.1 FIRST sets

The code's `changed` flag guards the insertion into `nullable`
(`changed = changed || nullable.insert(..)`): once something has changed, the rest
of a pass inserts no nullable symbol. `VisitProduction` keeps that. `FirstSound`
and `FirstComplete` say that the result is the least solution all the same: every
set closed under the productions contains what was computed, and at the end the
result is closed. Both quantify over sets instead of computing a fixpoint, so the
same formulas are checked and proved.

### 2.2 The digraph algorithm

`stack` is the vector the code passes along; `frames` are the activations of
`traverse`: the node, and the successors still to come. A step enters a node,
descends, merges a successor's result, or returns, closing a component. `f` is
given a distinct value for every node, so that two different sets of nodes have
different unions. `FinishedIsWanted` compares with reachability; `ActiveOnStack`
relates numbering, stack and frames.

### 2.3 Precedence

`precedence_levels` and `precedence_classes` as in the code. A client may set a
class again, with another level, and calls that are refused change nothing (the
actions are then disabled). `generate_actions` asserts that a symbol and a
production of equal level have equal associativity: `EqualLevelsEqualAssoc`.

### 2.4 The parser generator

`states` are the `ItemSet`s in order of registration: kernel, closure, `next`,
`accept`, the reductions found so far, actions. `queue` is the list passed to
`register_state`. The closure is computed item by item (`CloseItem`), then each
symbol after a dot is followed (`FollowSymbol`) and the kernel registered or found.
For LALR(1) follow the relations reads, includes and lookback, each an action, with
the code's walk over a production's symbols (`WalkOf`), starting at every item of
the closure, items of the kernel included (`parser.cpp:642`). The unions over the
relations use reachability directly (`DigraphOf`): that the traversal computes it
is what `Digraph` shows and proves. The FIRST sets are the least solution (`NullableOf`,
`FirstsOf`): that the code computes it is what `FirstSets` shows and proves.
`GenerateActions` builds the table with the same preference between conflicting
entries and the same records of conflicts as the code.

Not modelled: printing, and the LALR(1) propagation code that nothing calls
(`parser.cpp:424-531`).

### 2.5 The run time

One `Turn` is one turn of the loop in `parse`: a symbol is taken from the buffer,
or from the lexer if that is empty, and each of its tags is tried in order.
A reduction puts the symbol back and then the nonterminal, or what the rewrite
handler returns, flattened (`Pulled`). `symbol_buffer` is a field of the parser that
`reset` does not touch, so it is not touched between two calls of `Parse` here.
When a text is rejected with nothing on the match stack, `parse` reads the top of
an empty stack (`parser.cpp:133`); `status` is "undefined" then and no action is
possible any more. A token is the sequence of its tags; lexemes and the values of
handlers do not influence the parser and are left out, except that a rewrite is
given by what it returns.

`places` in a match is not in the code: it notes which tokens of the text it was made of, so
that `TokensKept` can ask for each of them once and in order. It is for the first parse only, since
what an earlier one left in the buffer is in front of the next text. `AcceptsTheLanguage`
compares with the spans of the text that each symbol derives (`Derives`), computed from the grammar alone;
that all of the language is accepted it says of tokens with one tag each (with several, the parser
takes the first that its state knows) and of grammars without rewrites. `BufferEmptied` is about what a parse leaves for
the next one: nothing, not even when it was rejected, if the grammar has no rewrites, or if what its handlers
return can be read in the place of what they rewrite, as in the only handler midori has. With any other
handler something may be left, which the next text then begins with: no property is about what becomes of it.

### 2.6 The lexer

`Lexer` has a DFA as data: any `next`, any `terminals` (a state may carry the tags
of several rules) and any set of tags to skip. `Texts` is what streams hold;
`broken` streams end in a failure (`CHAR_BAD`) instead of the end of the file. The
locals of `_scan` are variables, reset where the function returns. `Advance`, `Fail`
and `Exhaust` are the turns of its loop: a next state, no next state, no character.
`Deliver` is its end together with the turn of `scan` that skips a token.

`Tokenizer` knows no buffer. From a place in the text it gives the longest accepted
piece, or the end, or a bad token, and never says how. `Tokens` is the refinement:
its `at` is where the current scan began, or where the next will.

A bad token is not consumed (position and location return to `matched_buffer_pos`):
a caller that goes on gets the same token again. Both modules say so.

### 2.7 From regexes to the automaton

`RegexAutomata` follows what a client of the lexer does: it lists ranges for a group
(`BuildGroup`), adds rules whose regexes use the group (`AddRule`), and generates;
`Lexer::generate` has the generator visit one regex after the other (`VisitRule`) and
calls `to_dfa` (`ToDfa`). Regexes are records in the shape of the syntax tree classes.

Code points are `0 .. Width - 1`, and adding one to the last gives 0, as `UInt` does:
`merge`, `complement` and `add` all meet that edge. The first `OPTIMIZED_CHARS` of them
are kept in an array of lists and the others in an interval tree; here both are
transitions over ranges, the former of one character each. Lists of states are sets:
`to_dfa` puts them into sets before it uses them. The interval tree is the set of
ranges it holds; the next section is about its balancing.

The visitors are one recursive operator, `Visit`, over the generator's three fields
(`nfa`, `root`, `target_state`). A visit of a whole regex is one step: nothing can see
the NFA before it is over. `to_dfa` is taken step by step, since its list of sets grows
while it is worked off: `Start`, `Take` a set, `FollowKnown` or `FollowNew` a range,
`Abort` where its assertion fails, `Finish`.

`SubsetsExact` is the promise of a subset construction, said of a DFA under
construction: a state whose ranges have all been followed leads over every character
to the state that stands for exactly what the NFA reaches. `GroupExact` and `RangesApart`
are about what goes in. `NothingMissed` and `NothingExtra` compare the finished automaton
with the language of each rule's regex, computed from the regex alone (`Language`).

Where they do not agree, the properties say so by an exception that is as narrow as
what the code does:

- `GroupExact` leaves out groups with a range that ends at `UNICODE_MAX` and another that
  comes after it in their order; the sum behind the last code point is 0 and the second
  is not joined to the first. Such ranges can be written with escapes.
- `NothingExtra` is about regexes that are `Exact`. A star or plus makes a loop at the
  state it ends in, and that is the state everything else that ends there shares: with
  `(a*|b)` one also finds "ba", with `(ba*)?` also "a". And a repetition with equal bounds is
  found once more than that (`regex_ast.cpp:203-221`: the branch
  to "the first optional node" is made though there is none). Both only add words; `NothingMissed` has
  no exception.

### 2.8 The interval tree

A node is a record with its two subtrees. `insert`, `find` and `all` are one step each;
`pop` takes one range out per turn of its loop (`StartPop`, `PopOne`, `EndPop`), and between two
turns the tree must be in order. `Invariants` is the code's own check, which it calls only in
its tests, with the bounds said of the whole subtree. The assignments of `update` are
kept as they are: a node with one child gets height 2 although the child may be 2 high
itself, and the rotation that follows puts it right.

`RangeMap` is a set of entries; what overlaps a range is found in ascending order. Under
the refinement, ranges that `pop` has taken out count as present until it returns.
`pop` returns because every turn makes the tree smaller (`PopShrinks`) and because some
step is always possible (deadlock is checked). `RegexRanges` and `SubsetConstruction` use
sets of transitions where the code uses this tree; `Implements` is what permits that.

### 2.9 The language: types, type checker, code generation

`Lang` builds syntax trees; `TypeChecker` has the registry of types and what both visitors
share; `TypeChecker` and `CodeGen` are the two visitors, an operator per `visit` (`CheckIf`,
`GenIf`), from the visitor's fields before to those after. `FrontEnd` composes them as
`CodeGen::process` does, on a program made the body of `main` (`main.cpp:48`): the checker runs
over the tree and leaves types in it, then the generator runs over the same tree with the
same registry but its own scopes.

A type is its name as a sequence, `<<"Int", "*">>`; `failure` is what the program stopped at:
a failed assertion, an exception or a null pointer. `_want` may be anything at the start
(`Checkers`). Of LLVM remain functions, blocks and the builder's place, and of an
instruction whether it ends its block; operations on literals make none, as LLVM
folds them. The checker's errors change nothing in what follows, because `process` does
not ask for them.

`NamesAgree` is the agreement the two passes depend on: a declaration has no identity in
the code, so the model numbers them (`decl`) and notes which one each visitor found
(`resolved`). Its exceptions (`Disputed`) are the three places where the scopes of the
visitors really differ: parameters, declarations in the predicate of an if with an else, and
functions declared more than once. `BlocksClosed` says what LLVM's verifier would
of blocks, for programs that return as they must. `OneTypePerName` is the assertion of
`register_type`, with the two ways to make it fail that a program has.

### 2.10 The clients of the parser

`RegexEngine`, `Lang` and `GrammarFile` are the three grammars the program itself gives to
`Parser`, each production with its handler. A production notes by number which of its
symbols the handler takes with `nonterminal()` and which with `terminal()`, as the code
does, and `Handle` is what the handler makes of them. `MCClients` gives the
grammars to the model of generator and run time (section 2.4, 2.5), tables and all, parses
texts, and evaluates the handlers over the match that comes out (`ValueOf`): the handlers
have no influence on the parse, but for the rewrite of `{n}`, which is part of the
grammar. A handler that takes a token for a nonterminal goes on with a null pointer, and the
outcome is `Undefined`.

Tokens are sequences of tags, in the order of the rules: a digit is also a character of
a group and any character, a keyword is also an identifier. The parser tries them in that
order, so that `if` is an identifier wherever the state has no action on the keyword; a
line that begins with such a call is refused all the same, since there it has one.

`ReadsBack` goes the other way: `RegexText`, `Text` and `FileText` say how a tree is
written, and what comes back must be the tree. That shows what the grammars really say:
a `*`, `|` or `+` where no operator can stand is a literal (`a**`, `a||`, `*a`);
operators of all classes nest to the right, because the production of binary operations has
no terminal (`lang.cpp:434`); and neither a second parameter nor `else if` can be parsed
(`lang.cpp:403`, `572`), which are cases of their own, expected to be `Undefined`.

The handlers of grammar files call the parser under construction when their line is
reduced, and `from_file` never asks whether the file was accepted: what is left of a
broken file are the calls for everything reduced before the error. `Outcome` therefore takes the
calls from all matches on the stack.

### 2.11 The regex parser of siyu and siyu-1

`RegexReader` is the recursive descent over a text and a stack of positions, function by
function: a function maps the parser's state to the one after it. The trees are operator
parameters: siyu's are those of its NFA generator, siyu-1's unfold repetitions, with phony
nodes around what occurs twice. `ub` is set by what the code does not survive: more
positions popped than there are, the top of an empty stack, a node deleted twice, a loop
over an unsigned number that runs down to 0.

`ReadsTheGrammar` compares with a grammar of regexes written as sets of pieces of the
text (`Alternatives` and below), for every text of the bounded pieces, well formed or not. Its
exceptions are two places where the code breaks its own discipline: a quantifier with nothing
before it pops the position of another function (`siyu/src/regex.cpp:176`), and a byte in
hexadecimal leaves one too many (`391`: it pops two of three). The digit errors next to
that (`439`: the lower half of a byte is computed from the upper digit) cannot be
reached by a whole regex because of it; they are modelled (`LowerBits`).

`FirstExact` is about `nullable` and `first_pos`, the part of the direct construction
that is written. `last_pos` and `follow_pos` return empty vectors.

### 2.12 The lexers of siyu and tk

`SiyuLexer` has one action per call. Rules may be added at any time; the next scan makes
the automata again, on top of the NFA that is there: `reset` of the generator does not
reset the NFA, so that the rules' old copies stay, and with them their tags, which changes
nothing in what is found. A state has a single epsilon transition, which a second
repetition takes over (`overwritten`). Which tag an ambiguous state is given depends on
the addresses of NFA states, and is nondeterministic here.

`NeverShort` and `NeverLong` are the two halves of longest match. What the automata lose is
listed in `Lost`: what follows an epsilon transition that was replaced; a wildcard in a state
that has another transition (tk); bytes above 127, which are read with their sign; and
negations, which are not generated (tk).

### 2.13 The parsers of siyu and tk

`ExtendedGrammar` is the generator: LR(0) states, the grammar of their transitions, its FIRST
and FOLLOW sets, and reductions merged by the state they end in. A state is the set of
items it was made for. The assertions are outcomes: `OneEach` (one production per state,
which fails for many LALR(1) grammars) and `Disjoint`. siyu's recursion over FIRST sets
does not end for left recursion, and its extended start symbol is missing if the start
symbol is in a right side: `Generated` says "undefined" and "thrown".

`SiyuParser` is `parse`, a turn of its loop per step. It cannot accept: it goes on until
there is nothing to do. At the end of the text a token is made up for what the state
can do (`END`, or `EPSILON` for tk); a token that tells what to reduce is put back; an
unknown one is dropped; before that, tk tries something that vanishes. tk's `reset`
leaves the token buffer as it is, in which the last text's made-up `END` may still be. It is
dropped as unknown, unless the parser can begin with something that vanishes: then the text after it
is read wrongly, the exception (`BeginsEmpty`) of `SentencesRead`. `StackSpellsText` has no exception
for tk's second text: what is on the stacks is derived from it then, too. siyu cannot reduce to a symbol that vanishes at all, and reads one text only,
since its lexer stays at the end. Where a token may be shifted it is, silently.

## 3. Runs

| run | bounds | shows |
| --- | --- | --- |
| `FirstSets` | two nonterminals, one token, up to three productions of at most two symbols, in every order | least solution, reached |
| `Digraph` | every relation on four nodes (self-loops on one) | unions over reachability, components closed properly |
| `Parser` | nine grammars, from the tests and clients; LR(1) and LALR(1); texts up to four tokens; two parses in a row; every order of the precedence calls | tables, language, tokens, termination |
| `Lexer` | five automata over three characters, every text up to four characters, ending well or not, resets in between | refinement of `Tokenizer` |
| `Regex` | eight code points, two of them in the array; groups of up to three of seven ranges, negated or not, in every order; one or two rules of 16 and 4 kinds; words up to four characters | groups, NFA and DFA denote what they should |
| `IntervalTree` | eight of the ten ranges over four points, two values for one of them; any calls in any order | balance, bounds, refinement of `RangeMap` |
| `FrontEnd` | programs of up to three of 27 lines, among them nested blocks, ifs, loops, functions, classes, pointers, arrays | agreement of the passes, blocks, registry |
| `Clients` | the three grammars as they are; regexes, programs and files that have every production in them, and pairs of those that could be confused; broken ones | texts are read back, no conflicts |
| `Readers` | texts of up to four of 17 pieces | exactly the regexes are read, as what they are |
| `SiyuLexer` | up to two rules of eight patterns or seven trees, added in any order with scans; four texts; automata made twice | longest match |
| `SiyuParser` | ten grammars for both generators, every text up to four tokens, two parses in a row | stacks hold derivations, sentences are read, parse returns |
| `Overlap` | as `Regex` | the finding of section 4 |

A run's cfg names no type invariant of its own: `TypeOK` is a conjunct of one of the run's
invariants where it is not proved (`FirstSets`, `Lexer`, `Parser`'s precedence maps).

Why the bounds are enough. Three productions suffice for a nullable symbol that is
found late, in a pass that had already changed something, and for mutual recursion.
Four nodes give two entangled cycles with an edge out of them. The grammars are
those with which the repository's own tests tell parser types apart (LALR(1) but
not SLR(1); LR(1) but not LALR(1); ambiguous; nullable symbols in a row; a token with
two tags; the rewrite of `regex_engine.cpp:333`), and each fault listed in
PROJECT.json is found by one of them. Two parses in a row are what it takes for
anything left over to show. Texts of four characters let the automaton `Backtrack`
read two characters past a match and go back over a newline.

The seven ranges touch, overlap, contain each other, leave a gap of one, begin at 0 and
end at the last code point, and lie on both sides of the array's end; three are what it
takes to split one range twice. The regexes have every kind of node, nested as the
grammar of regexes nests them; four characters take most repetitions past their bound
and all of them around their loop.

Eight ranges make trees of height four, with every rotation, single and double, after
insertions and after removals, and overlaps on both sides of a node.

Three lines declare, declare again or shadow, and use. The lines hold every visitor, every
failure the model knows, and ifs and loops with and without returns, nested in
functions.

The cases of `Clients` are trees of every constructor, and every pair of operators that
could bind otherwise; texts that are refused or broken off stand for each way out. Files are
every order of two calls of each kind, each also with an error behind them. `Readers` needs four
pieces for an alternative inside parentheses next to another operator; pieces of more than
one character make longer texts of them. In `SiyuLexer` two rules are what a clash takes, and
making the automata twice what is needed for old copies. The grammars of `SiyuParser` vanish in
front, in the middle and at the end, recurse to the left and to the right, and
include one for every assertion that can fail.

Fairness. The code is sequential: once `generate`, `parse` or `scan` has been called
it runs until it returns. `FairSpec` therefore has weak fairness on the steps of a
call that is under way, and none on the calls themselves: when to add a production,
to parse or to scan is up to the client. `ScanReturns` has the exception it needs: a
rule to be skipped that matches the empty text makes `scan` loop for ever (the
automaton `SkippedStar`). `ParseReturns` holds for these grammars, not for every
rewrite handler: one that returns what its production matches is called for ever. `ParseEnds`
is about the turns of `parse` in siyu and tk alone.

CHECK_DEADLOCK is off where the system may really stop: generation is
over at some point, a program stops at a failed assertion, a parser may have used up its calls (or a text its pieces)
or be in a state that is undefined. In `RegexAutomata` only `ToDfa` is fair;
`ConversionEnds` says that it returns or fails its assertion.

## 4. Findings

`Overlap`: `to_dfa` asserts that the ranges it follows out of one set of NFA states do
not overlap (`finite_automata.cpp:159`), but only the ranges of a single NFA state are
split against each other (`RegexNFAState::add`). An optional group followed by one of its
characters, all of them above 127, is enough: `[α-γ]?β`. With assertions off,
the tree would hold overlapping ranges, and `next` use the first it finds.

Modelling the code showed more. Where a property is near, the model does what the
code does and the property has an exception that says so; none of these is checked as a
violation.

- `generate_includes_lookback_relations` starts its walk at every item of a closure, those of the
  kernel among them. DeRemer and Pennello's relation is about productions from their first
  symbol on. Lookaheads are never missing (`LookaheadsComplete`) but may be too many: the
  grammar `Nested` of `MCParser` gets a conflict it does not have.
- Rejecting a text before anything was shifted reads the top of an empty stack for
  a debug message (`parser.cpp:133`; the same in tk).
- `a{1,1}` also finds `aa` (`regex_ast.cpp:203-221`).
- `var x: Int; var x: Int;` passes the type checker and fails an assertion in code
  generation (`codegen.cpp:391`).
- `<=` and `>=` are exchanged (`codegen.cpp:197`), array types are looked up by another name than
  they are registered by (`codegen.cpp:103`), the expression in an index is not type-checked
  (`type_checker.cpp:45`), nor whether a function exists (`type_checker.cpp:158`).
- What sections 2.10 to 2.13 list for the clients and the predecessors.

## 5. Proofs

Every theorem holds for all values of the constants that satisfy the assumption
named in the module; TLC evaluates the assumptions in the runs.

**FIRST sets** (`FirstSets_proof`, assuming `GrammarAssumption`): `TypeCorrect`,
`Soundness` and `Completeness`, for every set of symbols, productions and bound.
Soundness is inductive with the types: a visit adds to a target only what any closed
set has for it. Completeness is not: that nothing is missing follows from the last pass
having changed nothing. The invariant therefore says, at every point of a pass, that
the productions already passed are satisfied as long as `changed` is false
(`QuietClosed`). That is where the guarded insertion could have hurt, and the proof
shows why it does not: a pass in which it was skipped has `changed` set and is followed
by another.

**Digraph** (`Digraph_proof`, assuming `DigraphAssumption`): `DigraphInvariant`,
`ActiveCallsOnStack` and `DigraphIsClosure`, for every relation and all given sets.
`FinishedIsWanted` alone is not inductive: when a component is popped, its set has been
gathered in many merges, along calls that have returned since. The invariant has
what those merges left. A node on the stack has the sets of the finished successors its
loop has gone by, and a weight no higher than the place of the unfinished ones (`SeenKept`); what
has returned to a call has passed its weight and its set on to it (`Returned`); a weight
is the place of a node that is reached, and what has returned to a call reaches it
(`Connected`). When a root is popped, every node above it therefore reaches it and is
reached by it, so they all want the same set, which contains the root's. Conversely the
popped nodes together with the finished ones are closed under the relation, and the
root's set has what each of them wants. `ReachedFrom` is the intersection of the closed sets for the sake
of this argument: to reach is then an induction without an induction theorem.

**Precedence** (`Parser_proof`, assuming `PrecedenceAssumption` and
`CallsAssumption`): `ClassesHoldLevels` and `AssocsAgree`, over a `Parser`'s whole life,
for every sequence of calls. The two maps stay inverse because a class that is set
again gives up its old level before it takes the new one, and because a call that would
take another class's level is refused. The second theorem is the assertion of
`parser.cpp:372`; it follows from the first.

**Tables and stacks** (`Parser_proof`, assuming `GrammarAssumption` and `TextAssumption`
besides): `StatesAreCanonical`, `HandleIsOnStack` and `AcceptsOneMatch`, for every grammar
of either type, every text, every rewrite and any number of parses; and, for every grammar that is made
LALR(1), `LookaheadsAreComplete`. The argument has three inductive invariants.

`GInv` is about the tables while `generate` makes them. The item sets are grounded: what
closing added to a kernel has its dot in front and is predicted by an item of the set,
so an item with anything before its dot is of the kernel, and came there from the state the
transition leaves. The first state is the only one with a kernel of dot 0, and nothing leads
to it. No transition is forgotten (`WorkLeft`): a state is in the list, or its symbols have
been followed, are in the scan, or are what the item set under construction is wanted for.
This is where a worklist that grows while it is read could lose something: a kernel is
registered or found, entered in the state that asked for it, and only then is the next symbol taken.
After the item sets, what LALR(1) computes is only ever typed (`LalrMade`: tokens, and
places of items that are done), since no lookahead is needed to know that a reduction stands on the
stack; that the iterated walk along a production stays within the transitions
(`AfterMoves`), and that the result of the digraph is bounded by what it is given
(`DigraphFacts`), have to be shown for it. An entry of the action table is then a transition of its
state or a reduction by an item of it that is done (`ActionsMade`), whichever way
conflicts were decided.

`RInv` is about a parse: the two stacks are a path through the automaton, a match lying on
a transition over one of its tags (`Path`), and without rewrites the buffer holds at most what
was reduced last and the token seen (`BufferShort`). `HandleOnStack` is not inductive: from an
item in the top state one must know what the states below hold. `WalkBack` goes down the
path: an item with its dot behind a symbol lies on a transition over that symbol, and the state before
it has the item with its dot in front of it. At the end of the walk the item is predicted
there, so this state has a transition on its nonterminal. For the item of `ROOT` the walk ends
in the first state, so that an accepted text is one match on top of it.

`CInv` is about the lookaheads. `LookaheadsComplete` says what LALR(1) is without the relations of
`parser.cpp:583-713`: the LR(1) items run through the states as they do through a table of their
own, from the item of `ROOT` on, by advancing and by predicting with what can come next (`Placed`), and
wherever one ends, its production is among the reductions on its lookahead.
The invariant is that each relation, once made, is kept
until it is used, and has what the automaton demands of it (`ReadsMade`, `RelationsMade`, `FollowsMade`): what
is read behind a transition, where its productions end and which transitions they end
with, and what follows those. From that, every item that is placed was begun by a
transition that its lookahead follows (`BegunIn`), by induction over the steps, taken as
closure (`LedToFacts`). Advancing keeps it (`AfterMoves`). A prediction is of two kinds. A token that the rest of
the production begins with is read after the transition, over as many vanishing symbols as lie
between (`ReadAlong`); that a nonterminal begins with it means that it can be read in the state in front of the
nonterminal (`FirstsRead`), which needs FIRST sets to be the least (`FirstsLeast`) and item
sets to be closed (`ItemSetsClosed`): here `generate_first_sets` and the item sets must agree with the
relations. If the rest vanishes, the walk from the item's beginning includes the
transition, so what follows the one follows the other. An item that is done is then found by looking
back. The method is used as a closure here (`LedTo`); that the traversal of `digraph` computes that
closure is `DigraphIsClosure`.

The assumptions say what the code cannot do without. `GrammarAssumption`: a symbol is a token or has
productions, and not both (`nonterminals.at` throws on any other), there are finitely many of them, and nothing else
is called `ROOT` or `END`. `TextAssumption`: a token has at least one tag, each of a rule or the bad token's, whose tag is no symbol of the grammar; what a
rewrite handler returns is made of the children of the match it is given, and of tokens.

**What is read and accepted** (`Language_proof`, the same assumptions): `LanguageAccepted`, for
every grammar of either type without rewrites, every text and any number of parses (that a sentence is accepted: for tokens with one tag each), and
`TokensAreKept`. Between them they say all that a caller of `parse` wants to know, and no
lookahead, no state of the automaton and no order of reductions occurs in either.

`SInv` is about the text. A sentence is stated without trees or derivations: a set of spans
(from a token, to a token, a symbol) is *closed* if it has the tokens of the text and what a
production makes of adjacent spans, and a text is a sentence if every closed set spans
all of it with the start symbol (`Sentence`). The invariant says that for each closed set
there are places at which the matches on the stack and the buffer follow one another up to where
the lexer is (`Reading`): so no token is lost, doubled or read out of order when the one that told what to
reduce is put back. A shift moves one span; a reduction joins those of its right-hand side
(`SpansJoin`), which `HandleFacts` found on the stack. Two facts about the tables had to be added to `GInv`
for it. What is reduced is never the production of `ROOT`, which is done on END alone, where the
state accepts: so every reduction is by one of the client's productions. And precedence
removes no transition on a nonterminal (`ActionsMade`), so that what a reduction pushes in front of the
token is shifted at once, and a text is never given up with a symbol left in the buffer (`BufferUsed`): `reset`
does not clear it, but without rewrites a parse leaves nothing behind for the next, accepted or not (`NothingLeftBehind`).

The other half, that a sentence is accepted where the tables leave nothing to choose, is about all of
generation at once. `Complete` joins the invariants above with three facts about
the tables. FIRST sets miss nothing (`FirstsEnough`); every item that is done is entered as a
reduction on each of its lookaheads, where for LALR(1) `LookaheadsAreComplete` is what says so (`ReductionsEnough`);
and with no conflict recorded and no precedence set, every entry that was asked for is the one
that is there (`Decided`): `generate_actions` drops an entry only when it records that it did, or when
precedence told it to. A run of the parser is then a path over configurations, a stack of states
and a place in the text, and a set of them is *reaching* (`Reaching`) if it has those that accept and all from which the
tables lead to one it has. The lemma under everything is about a
closed set of spans (`Fitting`): a symbol that derives the tokens from `i` to `j` begins with the token at `i` or
vanishes, and wherever an item has it behind its dot and can be followed by the token at `j`, a
configuration before it is in every reaching set that has the one after it. Those spans are closed under the
productions, so a sentence has the whole of it, and the first
configuration is reaching. `LInv` carries that through a parse: of a sentence, the rest of the parse is reaching at every
turn (`WillAccept`), since a turn takes the only way on; a turn that rejected would have none. That
a configuration's own set can be taken away from a reaching one without it ceasing to be one
(`ReachingLess`) is what stands for following the path to its end.

`Derives` computes the spans of a text as a recursive function on sets of spans, which TLC
evaluates; `DerivesSentence` shows that it is what every closed set has: the
function exists because the intersection of the closed sets solves its equation (`WidestExists`), and a
smallest counterexample, there being finitely many spans, shows that it has that value (`WidestFacts`).

`TokensKept` is inductive with the types of the places and an empty buffer at the first parse (`KeptInv`). A
reduction takes its children off the stack and puts a match with their places, in order, in front of the token it put
back (`PutBackKeeps`); a rewrite that returns all of them in order and only tokens of its own making beside them
has the same places (`PulledKeeps`: the n-th child returned is the n-th child). The
matches are regrouped from stack to buffer and back, never exchanged (`PlacesConcat`,
`ReduceKeeps`, `ShiftKeeps`).

**Lexer** (`Lexer_proof`, assuming `LexerAssumption`: a DFA, tags and texts of any
kind): `LexerTyped`, `NothingLost`, `LocationsTrue` and `Refinement`. The inductive
invariant says what the locals of `_scan` hold in the middle of a scan (`Scanned`): the
automaton has followed the text from `start` to `buffer_pos` and is alive; what is noted
as matched is the longest piece accepted before that; `matched_str` and `found_buffer`
are the text on either side of `matched_buffer_pos`. Without it the buffer could not be
shown to be the text again after back-tracking. That a scan may stop once there is no
next state needs that a dead run stays dead, which is an induction over the text; the
library's induction theorems are out of the provers' reach, so it is proved from a
least counterexample (`LeastElement`).

**Groups and ranges** (`Automata_proof`, assuming `WidthAssumption` and `GroupAssumption`):
`GroupIsExact`, for any number of code points, any ranges and groups of any size. A sorting order
exists (`OrderExists`: one more range is put in front of the first one it is before), so what `std::sort`
yields ascends, and only its last range may end at `UNICODE_MAX`: that is where the exception of
`GroupExact` is needed, since before it adding one does not wrap. After `i` ranges, `merge` has what
the first `i` hold, with gaps (`Merged`), and `complement` has the gaps before and between the first
`i` and knows where they end (`Complemented`); at the end of it `lower` is 0 exactly if the last range ended
at `UNICODE_MAX`, so the wrap is what the code takes it for.

`AddedIsExact`: whatever ranges a state has, adding one more gives its characters one more state and
changes nothing else, and the ranges stay apart, which is what `RangesApart` says of the states the
visitors make (they change a state's ranges by `Added` alone; that they do is not a theorem, `Visit` being
recursive). In the loop over what overlaps (`Cutting`), the new range leads to its state up to where the
rest begins, and nothing overlaps the rest but what is still to be split. The end of an
overlapping range may wrap `last` to 0; then nothing of the new range is left, because `last` began at `OPTIMIZED_CHARS` or
behind it, and `last != 0` cannot be mistaken. `OnlyTheLastReachesBeyond` is the assertion in that loop.

**Subset construction** (`Automata_proof`, assuming `WidthAssumption` and
`SubsetAssumption`): `Subsets`, for every NFA. What is true in the middle of a set is that
the ranges followed so far and those pending make up all the ranges of the set
(`Covered`), that no two followed overlap (`NextApart`: this is what the assertion at line 159
is for), and that each leads to the state standing for its successors (`Followed`). Once
nothing is pending, a character lies in one range at most, and what lies behind that
range is all the character leads to. `Distinct` adds the assertion at line 107. The
function under `Star` is shown to exist from a least counterexample.

**Interval tree** (`IntervalTree_proof`, assuming `WidthAssumption` and `MapAssumption`):
`AlwaysBalanced`, `NodeInvariants`, `TreeIsMap` and `TurnsShrink`, for every set of ranges and every sequence
of calls. Trees are nested records, so the induction has to come from sets: `Trees[h]` are those of
at most `h` levels, and `AVL` are the trees that lie in a set whose nodes are all in order and stand over trees of
the set. What holds of a node if it holds of its subtrees holds of all of them, by a counterexample of least height
(`TreeInduction`). An operation is a recursive function over trees of bounded height; that it is the recursion the code
has, for every height, is proved first (`InsertRecursion`, `PopRecursion` and so on). `update` and the rotations are
where the work is: a node of which one subtree is new is off balance by two at most (`Full`, `Changed`),
one rotation or two put it right without changing what it contains (`Balanced`), and what
comes out is at most one level higher or lower than before (`Inserting`, `Removing`). The height that `update` leaves
need not be right before the rotation (section 2.8), which is why `Full` is a notion of its own. The invariant (`IInv`) has the tree
in `AVL` and, while `pop` is in its loop, that what it has taken out comes before
whatever overlaps the range and is still there (`Removal`): without it the answer could be shown to be
complete but not to ascend. A search may leave a subtree out by its bounds (`Bounds`, `Searching`).
`TreeIsMap` maps each operation to a step of `RangeMap`, and a turn of the loop to a stutter.

**Only model-checked**, and why:

- liveness and deadlock: `ENABLED` and fairness are out of the prover's reach;
- `BufferEmptied` with rewrites: whether a symbol that a handler returned is read again depends on what it returns;
- `RangesApart`, `NothingMissed` and `NothingExtra`: `Visit` and the languages of regexes are recursive operators over syntax
  trees (`AddedIsExact` and `Subsets` are what could be said of the parts without recursion);
- `NamesAgree`, `BlocksClosed` and `OneTypePerName`: both visitors recurse over syntax trees;
- `ReadsBack` and `ConflictFree`: facts about three particular grammars, with
  operators that write trees as texts; that the parser reads any grammar's texts is `LanguageAccepted`;
- `ReadsTheGrammar`, `FirstExact`, `NeverShort`, `NeverLong`: recursive descent and recursive trees;
- `StackSpellsText` and `SentencesRead`: the predecessors' tables come from recursive operators.

## 6. Not modelled

- **Code generation beyond its control**: LLVM is external. Of an instruction the model knows
  whether it ends a block; what LLVM asserts of operand types, `dump` and `run` are left out.
- **The propagation of LALR(1) lookaheads** in midori (`parser.cpp:424-531`): nothing calls it.
- **UTF-8**: two functions without state. To all that is modelled, code points are atoms.
- **GLR** (`glr.cpp`): not in the build, does not compile against the current `parser.h`, and
  has no run time.
- **`tk/src/regex_old.cpp`**: not in the build; the parser is that of siyu, modelled.
- **tk's own grammars** (`regex.cpp`, `generator.cpp` as callers of its parser): midori's
  regex engine and grammar files are what became of them.
- **`last_pos`, `follow_pos`** of siyu-1: stubs.
- **sayaka and madoka**: scanners and parsers are generated by flex and bison, and what is behind
  them is a call of LLVM per node; the scopes of sayaka are those of midori's code generator in an
  earlier form.
- Printing, options and files of the programs.

## 7. What could follow

`RangesApart` could become a theorem of the lexer if the visitors were a machine with a stack of its own.
`LanguageAccepted` could be extended to grammars with precedence, once it is said which of its derivations
a grammar with precedence keeps; and to orderly rewrites, where a text of the
rewritten grammar is what `TokensAreKept` follows.
