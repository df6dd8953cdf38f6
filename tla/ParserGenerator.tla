-------------------------- MODULE ParserGenerator --------------------------
(***************************************************************************)
(* Parser::generate: from the productions to the tables parse() runs on.   *)
(*                                                                         *)
(*   configure   calls of set_precedence_class and set_precedence          *)
(*   itemsets    the worklist of generate_itemsets; an item set being made *)
(*               is closed item by item (generate_lr0_closure or           *)
(*               generate_lr1_closure), then looked up or added            *)
(*               (register_state)                                          *)
(*   reads, includes, follow, lookaheads   for LALR(1): the relations of   *)
(*               DeRemer and Pennello's method, one function each          *)
(*   actions     one action per state and symbol, conflicts resolved       *)
(*                                                                         *)
(* The grammar is one of Grammars; how its productions are added and its   *)
(* first sets computed is the subject of FirstSets, and what digraph       *)
(* returns that of Digraph: here both are their results.                   *)
(***************************************************************************)
EXTENDS Precedence, FiniteSets

CONSTANTS
  ROOT, END,   \* Parser::ROOT and Lexer::TOKEN_END
  NONE,        \* the terminal of an LR(0) item, unused
  Grammars     \* [terminals, nonterminals, productions, start, types, calls, script]

\* `calls' are made in any order, or not at all; those of `script' all of them, in its order.
ASSUME CallsAssumption ==
  \A g \in Grammars :
    /\ g.calls.classes \subseteq ClassNames \X Levels \X Assocs
    /\ \A i \in DOMAIN g.script :
         Len(g.script[i]) = 3 => g.script[i] \in ClassNames \X Levels \X Assocs

\* A symbol is a token or has productions, for nonterminals.at() throws on any
\* other, and no symbol is both; `ROOT' has the one production generate() adds,
\* and END is the lexer's own.
ASSUME GrammarAssumption ==
  \A g \in Grammars :
    /\ g.types \subseteq {"LALR1", "LR1"}
    /\ IsFiniteSet(g.terminals) /\ IsFiniteSet(g.nonterminals)
    /\ ROOT \notin g.nonterminals /\ g.start \in g.nonterminals
    /\ END \notin g.terminals
    /\ (g.terminals \cup {END}) \cap (g.nonterminals \cup {ROOT}) = {}
    /\ g.productions \in Seq(Range(g.productions))
    /\ \A k \in DOMAIN g.productions :
         /\ g.productions[k].target \in g.nonterminals
         /\ g.productions[k].symbols \in Seq(g.terminals \cup g.nonterminals)

VARIABLES
  grammar,     \* what the client adds before generate()
  type,        \* Parser::Type, the argument of generate()
  phase,       \* where generate() is; "ready" once it has returned
  terminals, productions, nullable, firsts,
  states,      \* lr0_states, later moved to lr1_states
  candidate,   \* the item set under construction, with who asked for it
  queue,       \* states whose successors are still to be made
  scan,        \* the state being expanded, and the symbols still to follow
  reads,       \* transition -> what can be read after it
  includes,    \* transition -> transitions whose follow set it includes
  lookback,    \* transition -> [state, production] of its reductions
  follows,     \* transition -> follow set
  conflicts    \* Parser::_conflicts

genVars == <<grammar, type, phase, terminals, productions, nullable, firsts, states,
             candidate, queue, scan, reads, includes, lookback, follows, conflicts>>

tableVars == <<grammar, type, terminals, productions, nullable, firsts>>
lalrVars == <<reads, includes, lookback, follows>>

Nobody == [kernel |-> {}, closure |-> {}, pending |-> {}, from |-> 0, symbol |-> NONE]
NoScan == [state |-> 0, symbols |-> {}]

GenInit ==
  /\ grammar \in Grammars
  /\ type \in grammar.types
  /\ phase = "configure"
  /\ terminals = grammar.terminals
  /\ productions = grammar.productions
  /\ nullable = {} /\ firsts = <<>> /\ states = <<>>
  /\ candidate = Nobody /\ queue = <<>> /\ scan = NoScan
  /\ reads = <<>> /\ includes = <<>> /\ lookback = <<>> /\ follows = <<>>
  /\ conflicts = {}
  /\ PrecInit

\* Calls of the script that are still to be made.
Called(c) ==
  IF Len(c) = 3 THEN c[1] \in DOMAIN precedence_classes ELSE c[1] \in DOMAIN precedence
Uncalled == {i \in DOMAIN grammar.script : ~ Called(grammar.script[i])}

MakeCall(c) ==
  \/ Len(c) = 3 /\ SetPrecedenceClass(c[1], c[2], c[3])
  \/ Len(c) = 2 /\ SetPrecedence(c[1], c[2])

Configure ==
  /\ phase = "configure"
  /\ \/ \E i \in Uncalled : (\A j \in Uncalled : i <= j) /\ MakeCall(grammar.script[i])
     \/ \E c \in grammar.calls.classes : SetPrecedenceClass(c[1], c[2], c[3])
     \/ \E c \in grammar.calls.symbols : SetPrecedence(c[1], c[2])
     \/ \E c \in grammar.calls.productions : SetProductionPrecedence(c[1], c[2])
  /\ UNCHANGED genVars

-----------------------------------------------------------------------------
(* Symbols and items                                                        *)

Nonterminals == grammar.nonterminals \cup {ROOT}
ProductionsOf(A) == {k \in DOMAIN productions : productions[k].target = A}
SymbolsOf(k) == productions[k].symbols

IsDone(i) == i.dot = Len(SymbolsOf(i.prod))
NextSymbol(i) == SymbolsOf(i.prod)[i.dot + 1]
Advanced(i) == [i EXCEPT !.dot = @ + 1]

\* Positions of w up to and including the first symbol that is not nullable.
Visible(w) == {j \in DOMAIN w : \A i \in 1 .. j - 1 : w[i] \in nullable}
Vanishes(w) == \A j \in DOMAIN w : w[j] \in nullable

\* What generate_first_sets leaves: the least sets closed under the productions.
Vanishing(prods, N) ==
  {prods[k].target : k \in {k \in DOMAIN prods :
     \A j \in DOMAIN prods[k].symbols : prods[k].symbols[j] \in N}}

Beginning(prods, nulls, D) ==
  {prods[k].target : k \in {k \in DOMAIN prods : \E j \in DOMAIN prods[k].symbols :
     /\ prods[k].symbols[j] \in D
     /\ \A i \in 1 .. j - 1 : prods[k].symbols[i] \in nulls}}

\* From S by as many turns as there are nonterminals.
LeastFrom(S, More(_)) ==
  LET upto[n \in 0 .. Cardinality(Nonterminals)] ==
        IF n = 0 THEN S ELSE LET T == upto[n - 1] IN T \cup More(T)
  IN  upto[Cardinality(Nonterminals)]

NullableOf(prods) == LeastFrom({}, LAMBDA N : Vanishing(prods, N))

FirstsOf(terms, prods, nulls) ==
  LET begin == [t \in terms |-> LeastFrom({t}, LAMBDA D : Beginning(prods, nulls, D))]
  IN  [s \in terms \cup Nonterminals |-> {t \in terms : s \in begin[t]}]

-----------------------------------------------------------------------------
(* generate_itemsets                                                        *)

\* A fault: only the first symbol after the nonterminal is looked at.
LookaheadsAfterOne(i) ==
  LET w == SubSeq(SymbolsOf(i.prod), i.dot + 2, Len(SymbolsOf(i.prod)))
  IN  IF w = <<>> THEN {i.la} ELSE firsts[w[1]]

\* What follows the nonterminal after the dot of an LR(1) item.
LookaheadsAfter(i) ==
  LET w == SubSeq(SymbolsOf(i.prod), i.dot + 2, Len(SymbolsOf(i.prod)))
  IN  (UNION {firsts[w[j]] : j \in Visible(w)}) \cup (IF Vanishes(w) THEN {i.la} ELSE {})

\* Items that an item of the closure adds to it.
Predicted(i) ==
  IF IsDone(i) \/ NextSymbol(i) \in terminals THEN {}
  ELSE {[prod |-> k, dot |-> 0, la |-> t] :
          k \in ProductionsOf(NextSymbol(i)),
          t \in IF type = "LR1" THEN LookaheadsAfter(i) ELSE {NONE}}

Asked(kernel, from, symbol) ==
  [kernel |-> kernel, closure |-> {}, pending |-> kernel, from |-> from, symbol |-> symbol]

Generate ==
  /\ phase = "configure" /\ Uncalled = {}
  /\ LET terms == grammar.terminals \cup {END}
         prods == Append(grammar.productions,
                         [target |-> ROOT, symbols |-> <<grammar.start>>])
         nulls == NullableOf(prods)
     IN  /\ terminals' = terms
         /\ productions' = prods
         /\ nullable' = nulls
         /\ firsts' = FirstsOf(terms, prods, nulls)
         /\ candidate' = Asked({[prod |-> Len(prods), dot |-> 0,
                                 la |-> IF type = "LR1" THEN END ELSE NONE]}, 0, NONE)
  /\ phase' = "itemsets"
  /\ UNCHANGED <<grammar, type, states, queue, scan, conflicts, lalrVars, precVars>>

\* A fault: an item is put on the list again although the closure has it.
CloseItemAgain ==
  /\ candidate.pending # {}
  /\ LET i == CHOOSE i \in candidate.pending : TRUE
     IN  candidate' = [candidate EXCEPT
           !.closure = @ \cup {i},
           !.pending = (@ \ {i}) \cup Predicted(i)]
  /\ UNCHANGED <<tableVars, phase, states, queue, scan, conflicts, lalrVars, precVars>>

\* One item from the list of generate_lr0_closure or generate_lr1_closure.  The
\* list may hold an item twice and in any order: its members that are not in
\* the closure yet are what matters.
CloseItem ==
  /\ candidate.pending # {}
  /\ LET i == CHOOSE i \in candidate.pending : TRUE
         closure == candidate.closure \cup {i}
     IN  candidate' = [candidate EXCEPT
           !.closure = closure,
           !.pending = (@ \cup Predicted(i)) \ closure]
  /\ UNCHANGED <<tableVars, phase, states, queue, scan, conflicts, lalrVars, precVars>>

Accepting(kernel) == \E i \in kernel : productions[i.prod].target = ROOT /\ IsDone(i)

\* generate_itemsets fills in the reductions of an LR(1) state as it goes by.
ReductionsOf(closure) ==
  LET done == {i \in closure : IsDone(i)}
  IN  IF type = "LALR1" THEN <<>>
      ELSE [t \in {i.la : i \in done} |-> {i.prod : i \in {j \in done : j.la = t}}]

\* A fault: a state that has the items and others besides will do.
StatesHolding(kernel) == {q \in DOMAIN states : kernel \subseteq states[q].kernel}

StatesWith(kernel) == {q \in DOMAIN states : states[q].kernel = kernel}

\* The rest of register_state, and the assignment to is->next of its caller.
Register ==
  /\ candidate.kernel # {} /\ candidate.pending = {}
  /\ LET same == StatesWith(candidate.kernel)
         q == IF same = {} THEN Len(states) + 1 ELSE CHOOSE q \in same : TRUE
         all == IF same = {}
                  THEN Append(states, [kernel |-> candidate.kernel,
                                       closure |-> candidate.closure,
                                       accept |-> Accepting(candidate.kernel),
                                       next |-> <<>>,
                                       reductions |-> ReductionsOf(candidate.closure),
                                       actions |-> <<>>])
                  ELSE states
     IN  /\ states' = IF candidate.from = 0 THEN all
                      ELSE [all EXCEPT ![candidate.from].next =
                              Put(@, candidate.symbol, q)]
         /\ queue' = IF same = {} THEN Append(queue, q) ELSE queue
  /\ candidate' = Nobody
  /\ UNCHANGED <<tableVars, phase, scan, conflicts, lalrVars, precVars>>

SymbolsAfterDots(closure) == {NextSymbol(i) : i \in {j \in closure : ~IsDone(j)}}

PopState ==
  /\ phase = "itemsets" /\ candidate = Nobody /\ scan.symbols = {}
  /\ queue # <<>>
  /\ scan' = [state |-> Head(queue),
              symbols |-> SymbolsAfterDots(states[Head(queue)].closure)]
  /\ queue' = Tail(queue)
  /\ UNCHANGED <<tableVars, phase, states, candidate, conflicts, lalrVars, precVars>>

\* The next item of the closure with a symbol not followed yet.  The code makes
\* the same item set again for each further item with that symbol, which finds
\* the state it registered.
FollowSymbol ==
  /\ phase = "itemsets" /\ candidate = Nobody /\ scan.symbols # {}
  /\ LET open == {i \in states[scan.state].closure :
                    ~IsDone(i) /\ NextSymbol(i) \in scan.symbols}
         first == CHOOSE i \in open : \A j \in open :
                    i.prod < j.prod \/ (i.prod = j.prod /\ i.dot <= j.dot)
         s == NextSymbol(first)
     IN  /\ candidate' = Asked({Advanced(i) : i \in {j \in open : NextSymbol(j) = s}},
                               scan.state, s)
         /\ scan' = [scan EXCEPT !.symbols = @ \ {s}]
  /\ UNCHANGED <<tableVars, phase, states, queue, conflicts, lalrVars, precVars>>

ItemsetsDone ==
  /\ phase = "itemsets" /\ candidate = Nobody /\ scan.symbols = {} /\ queue = <<>>
  /\ phase' = IF type = "LALR1" THEN "reads" ELSE "actions"
  /\ scan' = NoScan
  /\ UNCHANGED <<tableVars, states, candidate, queue, conflicts, lalrVars, precVars>>

Itemsets == CloseItem \/ Register \/ PopState \/ FollowSymbol \/ ItemsetsDone

-----------------------------------------------------------------------------
(* LALR(1): the relations over the transitions on nonterminals, written     *)
(* <<state, nonterminal>>.                                                  *)

Transitions ==
  UNION {{<<q, s>> : s \in SymbolsAfterDots(states[q].closure) \ terminals} :
           q \in DOMAIN states}

Goto(q, s) == states[q].next[s]

\* The state after the first n symbols of w, from q.
After(q, w, n) ==
  LET at[k \in 0 .. n] == IF k = 0 THEN q ELSE Goto(at[k - 1], w[k])
  IN  at[n]

\* All of the nodes that r leads to from those of S.
LedTo(nodes, r, S) ==
  LET reached[T \in SUBSET nodes] ==
        LET U == T \cup UNION {r[y] : y \in T} IN IF U = T THEN T ELSE reached[U]
  IN  reached[S]

\* What digraph computes (module Digraph): the union of g over all the nodes
\* that r leads to from x.
DigraphOf(nodes, r, g) == [x \in nodes |-> UNION {g[y] : y \in LedTo(nodes, r, {x})}]

\* generate_reads_relations and generate_read_sets.
GenerateReads ==
  /\ phase = "reads"
  /\ LET after(t) == SymbolsAfterDots(states[Goto(t[1], t[2])].closure)
         directly == [t \in Transitions |->
           (after(t) \cap terminals)
             \cup (IF t = <<1, grammar.start>> THEN {END} ELSE {})]
         relation == [t \in Transitions |->
           {<<Goto(t[1], t[2]), s>> : s \in after(t) \cap nullable}]
     IN  reads' = DigraphOf(Transitions, relation, directly)
  /\ phase' = "includes"
  /\ UNCHANGED <<tableVars, states, candidate, queue, scan, includes, lookback, follows,
                 conflicts, precVars>>

\* The items of a transition's state that are walked from: those of its
\* nonterminal, wherever their dot is.
WalkedFrom(t) ==
  {i \in states[t[1]].closure : productions[i.prod].target = t[2]}

\* A fault: only the last symbol is considered.
WalkOfLast(q, i) ==
  LET w == SymbolsOf(i.prod)
      left == SubSeq(w, i.dot + 1, Len(w))
  IN  {<<After(q, left, k - i.dot - 1), w[k]>> :
         k \in {k \in i.dot + 1 .. Len(w) : k = Len(w)}}

\* The transitions taken on the way from item i of state q, for each one
\* whether all that comes after it can vanish.
WalkOf(q, i) ==
  LET w == SymbolsOf(i.prod)
      rest(k) == SubSeq(w, k + 1, Len(w))
      left == SubSeq(w, i.dot + 1, Len(w))
  IN  {<<After(q, left, k - i.dot - 1), w[k]>> :
         k \in {k \in i.dot + 1 .. Len(w) : Vanishes(rest(k))}}

GenerateIncludesLookback ==
  /\ phase = "includes"
  /\ includes' =
       LET pairs == UNION {UNION {WalkOf(t[1], i) \X {t} : i \in WalkedFrom(t)} : t \in Transitions}
       IN  [u \in Transitions |-> {p[2] : p \in {p \in pairs : p[1] = u}}]
  /\ lookback' = [t \in Transitions |->
       {[state |-> After(t[1], SymbolsOf(i.prod), Len(SymbolsOf(i.prod))), prod |-> i.prod] :
          i \in {i \in WalkedFrom(t) : i.dot = 0}}]
  /\ phase' = "follow"
  /\ UNCHANGED <<tableVars, states, candidate, queue, scan, reads, follows, conflicts, precVars>>

GenerateFollowSets ==
  /\ phase = "follow"
  /\ follows' = DigraphOf(Transitions, includes, reads)
  /\ phase' = "lookaheads"
  /\ UNCHANGED <<tableVars, states, candidate, queue, scan, reads, includes, lookback,
                 conflicts, precVars>>

\* Every lookback of a transition is a reduction on each symbol of its follow set.
GenerateLookaheads ==
  /\ phase = "lookaheads"
  /\ LET all == UNION {{<<l.state, s, l.prod>> : s \in follows[t], l \in lookback[t]} :
                        t \in Transitions}
         found(q) == {x \in all : x[1] = q}
     IN  states' = [q \in DOMAIN states |->
           [states[q] EXCEPT !.reductions =
             [s \in {x[2] : x \in found(q)} |-> {x[3] : x \in {y \in found(q) : y[2] = s}}]]]
  /\ phase' = "actions"
  /\ UNCHANGED <<tableVars, candidate, queue, scan, lalrVars, conflicts, precVars>>

-----------------------------------------------------------------------------
(* generate_actions                                                         *)

Reduce(k) == [shift |-> 0, reduce |-> k]
Shift(q) == [shift |-> q, reduce |-> 0]

\* The longest production, and of the longest the one added first.
Preferred(ks) ==
  CHOOSE k \in ks : \A o \in ks \ {k} :
    \/ Len(SymbolsOf(k)) > Len(SymbolsOf(o))
    \/ Len(SymbolsOf(k)) = Len(SymbolsOf(o)) /\ k < o

\* How the choice between shifting s and reducing in state st comes out.
Verdict(st, s) ==
  LET k == Preferred(st.reductions[s])
  IN  Resolve(SymbolPrecedence(s), ProductionPrecedence(k, SymbolsOf(k), terminals))

Contested(st) == DOMAIN st.next \cap DOMAIN st.reductions

ActionsOf(st) ==
  LET decided == {s \in Contested(st) : Verdict(st, s) = "error"}
      shifted == {s \in DOMAIN st.next :
                    s \in Contested(st) => Verdict(st, s) \in {"shift", "conflict"}}
  IN  [s \in (DOMAIN st.next \cup DOMAIN st.reductions) \ decided |->
         IF s \in shifted THEN Shift(st.next[s]) ELSE Reduce(Preferred(st.reductions[s]))]

ConflictsOf(q) ==
  LET st == states[q]
  IN  {[type |-> "ReduceReduce", state |-> q, symbol |-> s, productions |-> st.reductions[s]] :
         s \in {s \in DOMAIN st.reductions : Cardinality(st.reductions[s]) > 1}}
      \cup
      {[type |-> "ShiftReduce", state |-> q, symbol |-> s,
        productions |-> {i.prod : i \in states[st.next[s]].kernel}
                          \cup {Preferred(st.reductions[s])}] :
         s \in {s \in Contested(st) : Verdict(st, s) = "conflict"}}

GenerateActions ==
  /\ phase = "actions"
  /\ states' = [q \in DOMAIN states |-> [states[q] EXCEPT !.actions = ActionsOf(states[q])]]
  /\ conflicts' = UNION {ConflictsOf(q) : q \in DOMAIN states}
  /\ phase' = "ready"
  /\ UNCHANGED <<tableVars, candidate, queue, scan, lalrVars, precVars>>

Lalr == GenerateReads \/ GenerateIncludesLookback \/ GenerateFollowSets \/ GenerateLookaheads

GenNext == Configure \/ Generate \/ Itemsets \/ Lalr \/ GenerateActions

=============================================================================
