----------------------------- MODULE SiyuParser -----------------------------
(***************************************************************************)
(* The parsers of siyu and tk.  siyu generates its tables at the start of  *)
(* every parse, tk when it is told to.  A parse has no way to accept: it   *)
(* goes on until there is nothing to do, which should be when all has been *)
(* reduced to the start symbol and there is no way on from there.          *)
(*                                                                         *)
(* Tokens are their tags; what the lexer has left is `in'.                 *)
(***************************************************************************)
EXTENDS ExtendedGrammar

CONSTANTS
  Grammars,     \* [start, productions] as they are given to add_production
  MaxTokens,    \* bound: tokens of a text
  MaxParses     \* bound: calls of parse()

VARIABLES
  tk, G, tables,
  parse_stack, parse_stack_matches, last_reduction,
  token_buffer,            \* a stack, its top last
  in, eof,
  status,                  \* of parse()
  text, parses             \* auxiliary: the text, and how many there have been

grammar == <<tk, G, tables>>
run == <<parse_stack, parse_stack_matches, last_reduction, token_buffer, in, eof>>
vars == <<grammar, run, status, text, parses>>

NONE == ""
LEAF == [target |-> NONE, symbols |-> <<>>]
Leaf(tag) == [symbol |-> tag, orig |-> LEAF, terms |-> <<>>]           \* MatchedTerminal
Tree(p, terms) == [symbol |-> p.target, orig |-> p, terms |-> terms]   \* MatchedNonterminal

Top == Last(parse_stack)
NextRow == tables.next[Top]
Reduced == IF Top \in DOMAIN tables.reductions THEN tables.reductions[Top].symbols ELSE {}

Texts(g) == UNION {[1 .. n -> Unfold({p.symbols : p \in g.productions}) \ (Targets(g) \cup {EPSILON})] :
                   n \in 0 .. MaxTokens}

Init ==
  /\ tk \in BOOLEAN
  /\ \E g \in Grammars :
       G = FoldLeft(LAMBDA h, p : AddProduction(tk, h, p.target, p.symbols),
                    [start |-> g.start, productions |-> {}], g.productions)
  /\ tables = Nothing
  /\ parse_stack = <<>> /\ parse_stack_matches = <<>> /\ last_reduction = NONE
  /\ token_buffer = <<>> /\ in = <<>> /\ eof = FALSE
  /\ status = "idle" /\ text = <<>> /\ parses = 0

Generate ==
  /\ tk /\ tables = Nothing
  /\ tables' = Generated(tk, G)
  /\ UNCHANGED <<tk, G, run, status, text, parses>>

\* Mutant: tk's stacks stay as well.
EmptiedNever(stack) == stack

\* tk: reset(), which leaves the token buffer as it is.  siyu: the stacks stay, and the
\* lexer has seen the end of its text.
Emptied(stack) == IF tk THEN <<>> ELSE stack

Parse(str) ==
  /\ status \in {"idle", "match", "done"} /\ parses < MaxParses
  /\ IF tk THEN tables.outcome = "done" /\ UNCHANGED tables ELSE tables' = Generated(tk, G)
  /\ parses' = parses + 1 /\ text' = str
  /\ status' = (IF tables'.outcome = "done" THEN "parsing" ELSE tables'.outcome)
  /\ parse_stack' = Append(Emptied(parse_stack), StartState(G))
  /\ parse_stack_matches' = Emptied(parse_stack_matches)
  /\ in' = (IF ~ tk /\ eof THEN <<>> ELSE str)
  /\ eof' = (~ tk /\ eof)
  /\ last_reduction' = NONE
  /\ UNCHANGED <<tk, G, token_buffer>>

-----------------------------------------------------------------------------
(* One turn of parse()                                                      *)

\* What is left when parse() ends: one match, and the state it began in.
Left(how) ==
  IF tk /\ parse_stack_matches = <<>> THEN "undefined"    \* debug_match(top)
  ELSE IF Len(parse_stack) = 1 /\ Len(parse_stack_matches) = 1 THEN how
  ELSE "aborted"                                          \* assert

Break ==
  /\ status' = Left(IF tk THEN "match" ELSE "done")
  /\ UNCHANGED <<grammar, parse_stack, parse_stack_matches, text, parses>>

TakeGoto ==
  /\ status = "parsing" /\ last_reduction # NONE
  /\ last_reduction \in DOMAIN NextRow
  /\ parse_stack' = Append(parse_stack, NextRow[last_reduction])
  /\ last_reduction' = NONE
  /\ UNCHANGED <<grammar, parse_stack_matches, token_buffer, in, eof, status, text, parses>>

\* "No next state": tk is done; siyu goes on to the next token.
NoNextState ==
  /\ status = "parsing" /\ last_reduction # NONE
  /\ last_reduction \notin DOMAIN NextRow
  /\ last_reduction' = NONE
  /\ UNCHANGED <<token_buffer, in, eof>>
  /\ IF tk THEN Break ELSE UNCHANGED <<grammar, parse_stack, parse_stack_matches, status, text, parses>>

\* next_token(): the token, the buffer and the text without it.  Without a token left, one
\* is made up for what the state can do without.
NoToken == token_buffer = <<>> /\ in = <<>>
MadeUp ==
  IF END \in Reduced THEN {END}
  ELSE IF tk /\ EPSILON \in DOMAIN NextRow THEN {EPSILON}
  ELSE {}
Tokens ==
  IF NoToken THEN MadeUp
  ELSE IF token_buffer # <<>> THEN {Last(token_buffer)}
  ELSE {Head(in)}
\* Mutant: the token stays in the buffer.
BufferKept == token_buffer

BufferLeft == IF token_buffer = <<>> THEN <<>> ELSE Front(token_buffer)
Ready == status = "parsing" /\ last_reduction = NONE
Taking ==
  /\ in' = (IF token_buffer = <<>> /\ in # <<>> THEN Tail(in) ELSE in)
  /\ eof' = (eof \/ NoToken)

NoTokens ==
  /\ Ready /\ Tokens = {}
  /\ Taking
  /\ UNCHANGED <<last_reduction, token_buffer>>
  /\ Break

Shift ==
  /\ Ready
  /\ \E t \in Tokens :
       /\ t \in DOMAIN NextRow
       /\ parse_stack' = Append(parse_stack, NextRow[t])
       /\ parse_stack_matches' = Append(parse_stack_matches, Leaf(t))
  /\ Taking /\ token_buffer' = BufferLeft
  /\ UNCHANGED <<grammar, last_reduction, status, text, parses>>

\* Mutant: the token that tells what to reduce is not put back.
ReduceTaking(t, p) ==
  LET n == Len(p.symbols)
      kept == Len(parse_stack_matches) - n
  IN  /\ parse_stack' = SubSeq(parse_stack, 1, Len(parse_stack) - n)
      /\ parse_stack_matches' =
           Append(SubSeq(parse_stack_matches, 1, kept),
                  Tree(p, SubSeq(parse_stack_matches, kept + 1, kept + n)))
      /\ last_reduction' = p.target
      /\ token_buffer' = BufferLeft

ReduceBy(t, p) ==
  LET n == Len(p.symbols)
      kept == Len(parse_stack_matches) - n
  IN  /\ parse_stack' = SubSeq(parse_stack, 1, Len(parse_stack) - n)
      /\ parse_stack_matches' =
           Append(SubSeq(parse_stack_matches, 1, kept),
                  Tree(p, SubSeq(parse_stack_matches, kept + 1, kept + n)))
      /\ last_reduction' = p.target
      /\ token_buffer' = (IF tk /\ t = EPSILON THEN BufferLeft ELSE Append(BufferLeft, t))

Reduce ==
  /\ Ready
  /\ \E t \in Tokens :
       /\ t \notin DOMAIN NextRow /\ t \in Reduced
       /\ ReduceBy(t, tables.reductions[Top].orig)
  /\ Taking
  /\ UNCHANGED <<grammar, status, text, parses>>

\* tk: before a token that the state does not know, something that vanishes is tried.
TryEpsilon ==
  /\ Ready /\ tk
  /\ EPSILON \in DOMAIN NextRow \cup Reduced
  /\ \E t \in Tokens \ (DOMAIN NextRow \cup Reduced) : token_buffer' = BufferLeft \o <<t, EPSILON>>
  /\ Taking
  /\ UNCHANGED <<grammar, parse_stack, parse_stack_matches, last_reduction, status, text, parses>>

\* "No reduction": the token is dropped.
Drop ==
  /\ Ready /\ Tokens # {}
  /\ Tokens \cap (DOMAIN NextRow \cup Reduced) = {}
  /\ ~ (tk /\ EPSILON \in DOMAIN NextRow \cup Reduced)
  /\ Taking /\ token_buffer' = BufferLeft
  /\ UNCHANGED <<grammar, parse_stack, parse_stack_matches, last_reduction, status, text, parses>>

Turn == TakeGoto \/ NoNextState \/ NoTokens \/ Shift \/ Reduce \/ TryEpsilon \/ Drop

Next ==
  \/ Generate
  \/ \E str \in Texts(G) : Parse(str)
  \/ Turn

Spec == Init /\ [][Next]_vars

\* parse() runs until it returns.
FairSpec == Spec /\ WF_vars(Turn)

-----------------------------------------------------------------------------
(* What a parse is to keep and to find.                                     *)

TypeOK ==
  /\ DOMAIN tables.next \subseteq SUBSET UNION {{<<p, n>> : n \in 0 .. Len(p.symbols)} : p \in G.productions}
  /\ tables.outcome = "done" => Range(parse_stack) \subseteq DOMAIN tables.next
  /\ last_reduction \in Targets(G) \cup {NONE}
  /\ status \in {"idle", "parsing", "match", "done", "aborted", "undefined", "thrown"}
  /\ parses \in 0 .. MaxParses

\* A derivation in the grammar.
RECURSIVE Derived(_)
Derived(m) ==
  IF m.orig = LEAF THEN IsToken(G, m.symbol)
  ELSE /\ m.orig \in ProductionsOf(G, m.symbol)
       /\ [i \in DOMAIN m.terms |-> m.terms[i].symbol] = m.orig.symbols
       /\ \A i \in DOMAIN m.terms : Derived(m.terms[i])

\* The tokens of the text under some matches.
RECURSIVE Yield(_)
Yield(ms) ==
  IF ms = <<>> THEN <<>>
  ELSE (IF Head(ms).orig # LEAF THEN Yield(Head(ms).terms)
        ELSE IF Head(ms).symbol \in {EPSILON, END} THEN <<>> ELSE <<Head(ms).symbol>>) \o Yield(Tail(ms))

RECURSIVE IsSubsequence(_, _)
IsSubsequence(s, t) ==
  \/ s = <<>>
  \/ t # <<>> /\ IsSubsequence(IF Head(s) = Head(t) THEN Tail(s) ELSE s, Tail(t))

\* siyu goes on when all has been reduced to the start symbol.
Over == ~ tk /\ parse_stack_matches # <<>> /\ Last(parse_stack_matches).symbol = G.start

\* The states on the stack are those the matches beside them lead through, each match is a
\* derivation of its symbol, and matches, buffer and text together hold the tokens of the
\* text in their order, none of them twice, though some may have been dropped.  So it is
\* in tk's second parse too, in spite of what is left in its buffer; siyu's goes on from
\* the stacks of the first, with no text.
StackSpellsText ==
  /\ TypeOK
  /\ status = "parsing" /\ (tk \/ parses = 1) =>
       /\ Len(parse_stack_matches) + 1 = Len(parse_stack) + (IF last_reduction # NONE \/ Over THEN 1 ELSE 0)
       /\ \A i \in 1 .. Len(parse_stack) - 1 :
            <<parse_stack_matches[i].symbol, parse_stack[i + 1]>>
              \in {<<s, tables.next[parse_stack[i]][s]>> : s \in DOMAIN tables.next[parse_stack[i]]}
       /\ \A i \in DOMAIN parse_stack_matches : Derived(parse_stack_matches[i])
       /\ LET waiting == SelectSeq(Reverse(token_buffer), LAMBDA t : t \notin {EPSILON, END})
          IN  IsSubsequence(Yield(parse_stack_matches) \o waiting \o in, text)

\* Where a token can be shifted as well as tell what to reduce, it is shifted.
ShiftsPreferred ==
  \E state \in DOMAIN tables.reductions : tables.reductions[state].symbols \cap DOMAIN tables.next[state] # {}
\* The parser can take something that vanishes to begin with.
BeginsEmpty == EPSILON \in DOMAIN tables.next[StartState(G)]
Vanishing == \E p \in G.productions : EPSILON \in Range(p.symbols)
Sentence ==
  Derivable({[p EXCEPT !.symbols = SelectSeq(@, LAMBDA s : s # EPSILON)] : p \in G.productions},
            G.start, [i \in DOMAIN text |-> <<text[i]>>])

\* A text of the grammar is read to its end into one match, when the tables leave no
\* choice.  siyu has no way to reduce to a symbol that vanishes, and reads one text only.
\* tk's second text begins with the END that is left of the first: it is dropped, but not
\* if it can tell the parser to begin with something that vanishes.
SentencesRead ==
  status \in {"match", "done", "aborted", "undefined"} /\ tables.outcome = "done"
    /\ ~ ShiftsPreferred /\ (tk \/ ~ Vanishing) /\ (parses = 1 \/ (tk /\ ~ BeginsEmpty))
    /\ Sentence
  => /\ status \in {"match", "done"}
     /\ Len(parse_stack_matches) = 1 /\ Last(parse_stack_matches).symbol = G.start
     /\ Yield(parse_stack_matches) = text

\* parse() returns: tokens are dropped or put back, EPSILON before them, but not for ever.
ParseEnds == status = "parsing" ~> status # "parsing"
=============================================================================
