-------------------------- MODULE ExtendedGrammar --------------------------
(***************************************************************************)
(* The parser generators of siyu and tk: LR(0) item sets, a grammar whose  *)
(* symbols are transitions between them, and its FIRST and FOLLOW sets.    *)
(*                                                                         *)
(* A production [target, symbols] is its own item with a dot: <<p, dot>>.  *)
(* A state is the set of items it was made for (ItemSet::head).            *)
(***************************************************************************)
EXTENDS Integers, Sequences, SequencesExt, FiniteSets

END == "$"
EPSILON == "0"      \* NIL to siyu, where it is a token
NO_STATE == {}      \* -1

Unfold(seqs) == UNION {Range(s) : s \in seqs}

Targets(G) == {p.target : p \in G.productions}
ProductionsOf(G, s) == {p \in G.productions : p.target = s}
IsToken(G, s) == s \notin Targets(G)

\* add_production.  siyu leaves an empty right side as it is: see Generable.
AddProduction(tk, G, target, symbols) ==
  [G EXCEPT !.productions = @ \cup
     {[target |-> target, symbols |-> IF tk /\ symbols = <<>> THEN <<EPSILON>> ELSE symbols]}]

-----------------------------------------------------------------------------
(* generate_itemset, expand_symbol_into_itemset                             *)

IsDone(item) == item[2] = Len(item[1].symbols)
NextSymbol(item) == item[1].symbols[item[2] + 1]
NextSymbols(items) == {NextSymbol(i) : i \in {i \in items : ~ IsDone(i)}}

RECURSIVE Expanded(_, _)
Expanded(G, encountered) ==
  LET fronts == {p.symbols[1] : p \in {p \in G.productions : p.target \in encountered}} \cap Targets(G)
  IN  IF fronts \subseteq encountered THEN encountered ELSE Expanded(G, encountered \cup fronts)

Additionals(G, head) ==
  {<<p, 0>> : p \in {p \in G.productions : p.target \in Expanded(G, NextSymbols(head) \cap Targets(G))}}

Goto(G, head, s) ==
  {<<i[1], i[2] + 1>> : i \in {i \in head \cup Additionals(G, head) : ~ IsDone(i) /\ NextSymbol(i) = s}}

Row(G, head) == [s \in NextSymbols(head \cup Additionals(G, head)) |-> Goto(G, head, s)]

StartState(G) == {<<p, 0>> : p \in ProductionsOf(G, G.start)}

RECURSIVE Made(_, _, _)
Made(G, made, heads) ==
  IF heads = {} THEN made
  ELSE LET now == made \cup heads
       IN  Made(G, now, UNION {Range(Row(G, h)) : h \in heads} \ now)

\* A function from states to what follows them (ItemSet::next).
ItemSets(G) == [head \in Made(G, {}, {StartState(G)}) |-> Row(G, head)]

\* assert(combined.size() == ret->head.size() + ret->additionals.size())
Disjoint(G, next) == \A head \in DOMAIN next : head \cap Additionals(G, head) = {}

-----------------------------------------------------------------------------
(* generate_extended_grammar: a symbol becomes <<symbol, from, to>>.        *)

ExtendedTarget(G, next, target, state) ==
  <<target, state, IF target = G.start THEN NO_STATE ELSE next[state][target]>>

\* The states a production leads through.
Walk(next, p, state) ==
  FoldLeft(LAMBDA states, s : Append(states, next[Last(states)][s]), <<state>>, p.symbols)

Extended(G, next, p, state) ==
  LET walk == Walk(next, p, state)
  IN  [target |-> ExtendedTarget(G, next, p.target, state),
       symbols |-> [i \in DOMAIN p.symbols |-> <<p.symbols[i], walk[i], walk[i + 1]>>],
       orig |-> p, final |-> Last(walk)]

ExtendedProductions(G, next) ==
  UNION {{Extended(G, next, i[1], head) : i \in {i \in head \cup Additionals(G, head) : i[2] = 0}} :
         head \in DOMAIN next}

ExtendedSymbols(E) == {e.target : e \in E} \cup Unfold({e.symbols : e \in E})

-----------------------------------------------------------------------------
(* FIRST and FOLLOW sets, as functions from extended symbols.               *)

\* symbol_is_nullable (siyu): by a production of its own, not by other symbols.
SiyuNullable(G, s) ==
  s = EPSILON \/ \E p \in ProductionsOf(G, s) : EPSILON \in Range(p.symbols)

NullableOnes(G) == {s \in Unfold({p.symbols : p \in G.productions}) : SiyuNullable(G, s)}

\* Where the symbols are that a production's first tokens are taken from: up to one that
\* does not vanish.
Looked(symbols, vanishing) ==
  {i \in DOMAIN symbols : \A j \in 1 .. i - 1 : symbols[j] \in vanishing}

\* generate_extended_first_sets (tk).  EPSILON is a first token of what may vanish.
TkAdded(firsts, e) ==
  LET vanishing == {x \in DOMAIN firsts : EPSILON \in firsts[x]}
      all == UNION {firsts[e.symbols[i]] : i \in Looked(e.symbols, vanishing)}
  IN  IF Range(e.symbols) \subseteq vanishing THEN all ELSE all \ {EPSILON}

\* generate_extended_first_set (siyu).  Whether EPSILON is kept depends on the order of the
\* productions; nobody asks for it, as no such token is ever read.
SiyuAdded(G, firsts, e) ==
  LET vanishing == {x \in DOMAIN firsts : SiyuNullable(G, x[1])}
  IN  UNION {firsts[e.symbols[i]] : i \in Looked(e.symbols, vanishing)} \ {EPSILON}

RECURSIVE FirstsFrom(_, _, _, _)
FirstsFrom(tk, G, E, firsts) ==
  LET Added(e) == IF tk THEN TkAdded(firsts, e) ELSE SiyuAdded(G, firsts, e)
      more == [x \in DOMAIN firsts |-> firsts[x] \cup UNION {Added(e) : e \in {e \in E : e.target = x}}]
  IN  IF more = firsts THEN firsts ELSE FirstsFrom(tk, G, E, more)

FirstSets(tk, G, E) ==
  FirstsFrom(tk, G, E, [x \in ExtendedSymbols(E) |-> IF IsToken(G, x[1]) THEN {x[1]} ELSE {}])

\* siyu's functions call themselves for each symbol looked at: not back to where they began.
RECURSIVE LookedFrom(_, _)
LookedFrom(G, seen) ==
  LET more == seen \cup UNION {{p.symbols[i] : i \in Looked(p.symbols, NullableOnes(G))} :
                                p \in {p \in G.productions : p.target \in seen}}
  IN  IF more = seen THEN seen ELSE LookedFrom(G, more)

LeftRecursive(G) ==
  \E p \in G.productions : \E i \in Looked(p.symbols, NullableOnes(G)) :
    p.target \in LookedFrom(G, {p.symbols[i]})

\* generate_extended_follow_sets.  Behind a symbol come the first tokens of the next one,
\* EPSILON if that may vanish, and not those of the symbol after it.
FollowsAdded(firsts, follows, E, x) ==
  (IF x[3] = NO_STATE THEN {END} ELSE {})
    \cup UNION {follows[e.target] : e \in {e \in E : e.symbols # <<>> /\ Last(e.symbols) = x}}
    \cup UNION {UNION {firsts[e.symbols[i + 1]] : i \in {i \in 1 .. Len(e.symbols) - 1 : e.symbols[i] = x}} : e \in E}

RECURSIVE FollowsFrom(_, _, _)
FollowsFrom(firsts, E, follows) ==
  LET more == [x \in DOMAIN follows |-> follows[x] \cup FollowsAdded(firsts, follows, E, x)]
  IN  IF more = follows THEN follows ELSE FollowsFrom(firsts, E, more)

FollowSets(firsts, E) == FollowsFrom(firsts, E, [x \in {e.target : e \in E} |-> {}])

-----------------------------------------------------------------------------
(* generate_reductions, and all of it                                       *)

\* assert(it->second == p1->orig): one production is reduced in a state.
OneEach(E) == \A d, e \in E : d.final = e.final => d.orig = e.orig

\* What is reduced in a state, before which symbols.
Reductions(E, follows) ==
  [state \in {e.final : e \in E} |->
     [orig |-> (CHOOSE e \in E : e.final = state).orig,
      symbols |-> UNION {follows[e.target] : e \in {e \in E : e.final = state}}]]

Nothing == [outcome |-> "none", next |-> <<>>, reductions |-> <<>>]
Stopped(how) == [Nothing EXCEPT !.outcome = how]

\* The start symbol has no extended symbol of its own to siyu if it is in a right side.
StartInside(G) == \E p \in G.productions : G.start \in Range(p.symbols)

Generated(tk, G) ==
  LET next == ItemSets(G)
      E == ExtendedProductions(G, next)
      firsts == FirstSets(tk, G, E)
  IN  IF \E p \in G.productions : p.symbols = <<>> THEN Stopped("undefined")
      ELSE IF ~ Disjoint(G, next) THEN Stopped("aborted")
      ELSE IF ~ tk /\ LeftRecursive(G) THEN Stopped("undefined")
      ELSE IF ~ tk /\ StartInside(G) THEN Stopped("thrown")
      ELSE IF ~ OneEach(E) THEN Stopped("aborted")
      ELSE [outcome |-> "done", next |-> next, reductions |-> Reductions(E, FollowSets(firsts, E))]

-----------------------------------------------------------------------------
(* What a grammar derives, from the shortest derivations up.  Productions   *)
(* are records with a target and symbols; a token is given by its tags and  *)
(* stands for any of them.                                                  *)

\* Spans <<i, j, symbol>> of a text derived by a symbol.
RECURSIVE Splits(_, _, _, _)
Splits(spans, w, i, j) ==
  IF w = <<>> THEN i = j
  ELSE \E m \in i .. j : <<i, m, Head(w)>> \in spans /\ Splits(spans, Tail(w), m, j)

RECURSIVE SpansFrom(_, _, _)
SpansFrom(productions, spans, n) ==
  LET more == spans \cup
        UNION {{<<i, j, p.target>> : j \in {j \in i .. n : Splits(spans, p.symbols, i, j)}} :
               <<i, p>> \in (1 .. n) \X productions}
  IN  IF more = spans THEN spans ELSE SpansFrom(productions, more, n)

Derivable(productions, start, tokens) ==
  LET leaves == UNION {{<<i, i + 1, tokens[i][n]>> : n \in DOMAIN tokens[i]} : i \in DOMAIN tokens}
      n == Len(tokens) + 1
  IN  <<1, n, start>> \in SpansFrom(productions, leaves, n)
=============================================================================
