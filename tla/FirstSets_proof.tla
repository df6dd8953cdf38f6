-------------------------- MODULE FirstSets_proof --------------------------
(***************************************************************************)
(* generate_first_sets computes the least solution for every grammar.      *)
(*                                                                         *)
(* FirstComplete is not inductive: that nothing is missing at the end      *)
(* follows from the last pass having changed nothing, so the invariant     *)
(* says, for every point of a pass, that the productions the pass has gone *)
(* by are satisfied as long as `changed' is false (QuietClosed).           *)
(***************************************************************************)
EXTENDS FirstSets, TLAPS

\* Production k can add nothing to `nullable' or to the firsts of its target.
Satisfied(k) ==
  /\ AllNullable(productions[k].symbols) => productions[k].target \in nullable
  /\ \A j \in Visited(productions[k].symbols) :
       firsts[productions[k].symbols[j]] \subseteq firsts[productions[k].target]

QuietClosed ==
  pc # "build" /\ ~changed => \A k \in 1 .. pos - 1 : Satisfied(k)

Started ==
  /\ pc = "build" => nullable = {} /\ \A s \in Symbols : firsts[s] = {}
  /\ pc = "build" => pos = 1 /\ changed = FALSE
  /\ pc # "build" => \A s \in Terminals : firsts[s] = {s}
  /\ pc = "done" => ~changed /\ pos = Len(productions) + 1

IInv == TypeOK /\ Started /\ FirstSound /\ QuietClosed

-----------------------------------------------------------------------------
\* The grammar without productions has the types.
LEMMA TypeInit == Init => TypeOK
<1> SUFFICES ASSUME Init PROVE TypeOK
  OBVIOUS
<1>1. productions \in Seq(Production) /\ Len(productions) = 0
  BY DEF Init
<1>2. firsts \in [Symbols -> SUBSET Terminals]
  BY DEF Init
<1>3. changed \in BOOLEAN /\ pc \in {"build", "pass", "done"} /\ nullable \subseteq Targets
  BY DEF Init
<1>4. pos \in 1 .. Len(productions) + 1
  BY <1>1 DEF Init
<1> QED BY <1>1, <1>2, <1>3, <1>4 DEF TypeOK

\* Every step keeps the types of the variables.
LEMMA TypeStep == TypeOK /\ [Next]_vars => TypeOK'
<1> SUFFICES ASSUME TypeOK, [Next]_vars PROVE TypeOK'
  OBVIOUS
<1> USE DEF TypeOK
<1>1. ASSUME NEW t \in Nonterminals, NEW w \in SymbolStrings, AddProduction(t, w)
      PROVE  TypeOK'
  <2>1. [target |-> t, symbols |-> w] \in Production
    BY GrammarAssumption DEF Production, Symbols, Targets
  <2>2. productions' \in Seq(Production) /\ Len(productions') = Len(productions) + 1
    BY <1>1, <2>1 DEF AddProduction
  <2> QED BY <1>1, <2>2 DEF AddProduction
<1>2. ASSUME NEW s \in Nonterminals, Generate(s)
      PROVE  TypeOK'
  <2>1. [target |-> ROOT, symbols |-> <<s>>] \in Production
    BY DEF Production, Symbols, Targets
  <2>2. productions' \in Seq(Production) /\ Len(productions') = Len(productions) + 1
    BY <1>2, <2>1 DEF Generate
  <2>3. firsts' \in [Symbols -> SUBSET Terminals]
    BY <1>2 DEF Generate
  <2> QED BY <1>2, <2>2, <2>3 DEF Generate
<1>3. CASE VisitProduction
  <2> DEFINE p == productions[pos]
  <2>1. p \in Production /\ pos + 1 \in 1 .. Len(productions) + 1
    BY <1>3 DEF VisitProduction
  <2>2. p.target \in Targets /\ p.symbols \in Seq(Symbols)
    BY <2>1 DEF Production
  <2>3. \A j \in Visited(p.symbols) : firsts[p.symbols[j]] \subseteq Terminals
    BY <2>2 DEF Visited
  <2>4. firsts' \in [Symbols -> SUBSET Terminals]
    <3> DEFINE more == UNION {firsts[p.symbols[j]] : j \in Visited(p.symbols)}
    <3>1. more \subseteq Terminals
      BY <2>3
    <3>2. firsts' = [firsts EXCEPT ![p.target] = firsts[p.target] \cup more]
      BY <1>3 DEF VisitProduction
    <3>3. p.target \in Symbols
      BY <2>2 DEF Targets, Symbols
    <3> HIDE DEF more, p
    <3> QED BY <3>1, <3>2, <3>3
  <2>5. nullable' \subseteq Targets
    BY <1>3, <2>2 DEF VisitProduction
  <2>6. changed' \in BOOLEAN
    BY <1>3 DEF VisitProduction
  <2> QED BY <1>3, <2>1, <2>4, <2>5, <2>6 DEF VisitProduction
<1>4. CASE NextPass
  <2>1. changed' \in BOOLEAN
    BY <1>4 DEF NextPass
  <2> QED BY <1>4, <2>1 DEF NextPass
<1>5. CASE Finish
  BY <1>5 DEF Finish
<1>6. CASE UNCHANGED vars
  BY <1>6 DEF vars
<1> QED
  BY <1>1, <1>2, <1>3, <1>4, <1>5, <1>6 DEF Next, Build, Compute

\* Type correctness of the grammar and of the sets computed from it.
THEOREM TypeCorrect == Spec => []TypeOK
<1>1. TypeOK /\ [Next]_vars => TypeOK'
  BY TypeStep
<1> QED BY TypeInit, <1>1, PTL DEF Spec

-----------------------------------------------------------------------------
\* A visit adds to nullable and firsts only what every solution holds as well.
LEMMA SoundStep == IInv /\ [Next]_vars => FirstSound'
<1> SUFFICES ASSUME IInv, [Next]_vars,
                    NEW N \in SUBSET Targets, NullClosed(N)'
             PROVE  /\ nullable' \subseteq N
                    /\ \A t \in Terminals : \A D \in SUBSET Targets :
                         BeginClosed(t, D, N)'
                           => {s \in Targets : t \in firsts'[s]} \subseteq D
  BY DEF FirstSound
<1>0. TypeOK /\ TypeOK'
  BY TypeStep DEF IInv
<1>1. CASE pc = "build" /\ ~UNCHANGED vars
  <2>1. nullable' = {}
    BY <1>1 DEF IInv, Started, Next, Build, Compute, AddProduction, Generate,
                VisitProduction, NextPass, Finish
  <2>2. \A s \in Targets : firsts'[s] = {}
    BY <1>1, GrammarAssumption
       DEF IInv, Started, Next, Build, Compute, AddProduction, Generate,
           VisitProduction, NextPass, Finish, Symbols, Targets
  <2> QED BY <2>1, <2>2
<1>2. CASE VisitProduction
  <2> DEFINE p == productions[pos]
  <2>1. NullClosed(N) /\ productions' = productions
    BY <1>2 DEF NullClosed, VisitProduction
  <2>2. FirstSound
    BY DEF IInv
  <2>2a. nullable \subseteq N
    BY <2>1, <2>2 DEF FirstSound
  <2>3. pos \in DOMAIN productions /\ p \in Production
    BY <1>0, <1>2 DEF TypeOK, VisitProduction
  <2>4. p.target \in Targets /\ p.symbols \in Seq(Symbols)
    BY <2>3 DEF Production
  <2>5. nullable' \subseteq N
    <3>1. AllNullable(p.symbols) => \A i \in DOMAIN p.symbols : p.symbols[i] \in N
      BY <2>2a DEF AllNullable
    <3>2. AllNullable(p.symbols) => p.target \in N
      BY <2>1, <2>3, <3>1 DEF NullClosed
    <3> QED BY <1>2, <2>2a, <3>2 DEF VisitProduction
  <2>6. ASSUME NEW t \in Terminals, NEW D \in SUBSET Targets, BeginClosed(t, D, N)',
               NEW s \in Targets, t \in firsts'[s]
        PROVE  s \in D
    <3>1. BeginClosed(t, D, N)
      BY <2>1, <2>6 DEF BeginClosed
    <3>2. {x \in Targets : t \in firsts[x]} \subseteq D
      BY <2>1, <2>2, <3>1 DEF FirstSound
    <3>3. CASE t \in firsts[s]
      BY <3>2, <3>3
    <3>4. CASE t \notin firsts[s]
      <4>1. firsts \in [Symbols -> SUBSET Terminals] /\ p.target \in Symbols
        BY <1>0, <2>4 DEF TypeOK, Symbols, Targets
      <4>2. s = p.target
        BY <1>2, <2>6, <3>4, <4>1 DEF VisitProduction
      <4>3. PICK j \in Visited(p.symbols) : t \in firsts[p.symbols[j]]
        BY <1>2, <2>6, <3>4, <4>1, <4>2 DEF VisitProduction
      <4>4. /\ j \in DOMAIN p.symbols
            /\ \A i \in 1 .. j - 1 : p.symbols[i] \in N
            /\ p.symbols[j] \in Symbols
        BY <2>2a, <2>4, <4>3 DEF Visited
      <4>5. p.symbols[j] \in D \cup {t}
        BY <3>2, <4>3, <4>4, <1>2 DEF IInv, Started, VisitProduction, Symbols, Targets
      <4> QED BY <2>3, <3>1, <4>2, <4>4, <4>5 DEF BeginClosed
    <3> QED BY <3>3, <3>4
  <2> QED BY <2>5, <2>6
<1>3. CASE pc # "build" /\ ~VisitProduction
  <2>1. UNCHANGED <<productions, firsts, nullable>>
    BY <1>3 DEF Next, Build, Compute, AddProduction, Generate, NextPass, Finish, vars
  <2> QED BY <2>1 DEF IInv, FirstSound, NullClosed, BeginClosed
<1>4. CASE UNCHANGED vars
  BY <1>4 DEF IInv, FirstSound, NullClosed, BeginClosed, vars
<1> QED BY <1>1, <1>2, <1>3, <1>4

-----------------------------------------------------------------------------
\* A pass is under way only after generation has begun.
LEMMA StartedStep == IInv /\ [Next]_vars => Started'
<1> SUFFICES ASSUME IInv, [Next]_vars PROVE Started'
  OBVIOUS
<1>0. TypeOK /\ TypeOK' /\ Started
  BY TypeStep DEF IInv
<1>1. ASSUME NEW t \in Nonterminals, NEW w \in SymbolStrings, AddProduction(t, w)
      PROVE  Started'
  BY <1>0, <1>1 DEF Started, AddProduction
<1>2. ASSUME NEW s \in Nonterminals, Generate(s)
      PROVE  Started'
  BY <1>0, <1>2 DEF Started, Generate, Symbols
<1>3. CASE VisitProduction
  <2> DEFINE p == productions[pos]
  <2>1. p.target \in Targets
    <3>1. p \in Production
      BY <1>0, <1>3 DEF TypeOK, VisitProduction
    <3> QED BY <3>1 DEF Production
  <2>2. \A s \in Terminals : firsts'[s] = firsts[s]
    BY <1>0, <1>3, <2>1, GrammarAssumption DEF TypeOK, VisitProduction, Symbols
  <2> QED BY <1>0, <1>3, <2>2 DEF Started, VisitProduction
<1>4. CASE NextPass
  BY <1>0, <1>4 DEF Started, NextPass
<1>5. CASE Finish
  BY <1>0, <1>5 DEF Started, Finish, TypeOK
<1>6. CASE UNCHANGED vars
  BY <1>0, <1>6 DEF Started, vars
<1> QED
  BY <1>1, <1>2, <1>3, <1>4, <1>5, <1>6 DEF Next, Build, Compute

\* A production the loop visits without setting `changed' is satisfied, and
\* so are the ones before it, since the visit has left both sets alone.
LEMMA QuietStep == IInv /\ [Next]_vars => QuietClosed'
<1> SUFFICES ASSUME IInv, [Next]_vars, pc' # "build", ~changed'
             PROVE  \A k \in 1 .. pos' - 1 : Satisfied(k)'
  BY DEF QuietClosed
<1>0. TypeOK /\ TypeOK' /\ Started /\ QuietClosed
  BY TypeStep DEF IInv
<1>1. ASSUME NEW t \in Nonterminals, NEW w \in SymbolStrings, AddProduction(t, w)
      PROVE  FALSE
  BY <1>1 DEF AddProduction
<1>2. ASSUME NEW s \in Nonterminals, Generate(s)
      PROVE  pos' - 1 = 0
  BY <1>0, <1>2 DEF Started, Generate
<1>3. CASE VisitProduction
  <2> DEFINE p == productions[pos]
  <2>1. /\ ~changed
        /\ AllNullable(p.symbols) => p.target \in nullable
        /\ firsts[p.target] =
             firsts[p.target] \cup UNION {firsts[p.symbols[j]] : j \in Visited(p.symbols)}
    BY <1>3 DEF VisitProduction, Inserted
  <2>2. p.target \in Symbols
    <3>1. p \in Production
      BY <1>0, <1>3 DEF TypeOK, VisitProduction
    <3>2. p.target \in Targets
      BY <3>1 DEF Production
    <3> QED BY <3>2 DEF Symbols, Targets
  <2>3. nullable' = nullable
    <3>1. nullable' = IF AllNullable(p.symbols) /\ ~changed THEN nullable \cup {p.target}
                      ELSE nullable
      BY <1>3 DEF VisitProduction
    <3>2. AllNullable(p.symbols) => p.target \in nullable
      BY <2>1
    <3> HIDE DEF p
    <3> QED BY <3>1, <3>2
  <2>4. firsts' = firsts
    <3> DEFINE more == UNION {firsts[p.symbols[j]] : j \in Visited(p.symbols)}
    <3>1. firsts' = [firsts EXCEPT ![p.target] = firsts[p.target] \cup more]
      BY <1>3 DEF VisitProduction
    <3>2. firsts[p.target] = firsts[p.target] \cup more
      BY <2>1
    <3>3. firsts \in [Symbols -> SUBSET Terminals]
      BY <1>0 DEF TypeOK
    <3> HIDE DEF more, p
    <3> QED BY <2>2, <3>1, <3>2, <3>3
  <2>5. productions' = productions /\ pos' = pos + 1 /\ pos \in Nat \ {0} /\ pc # "build"
    <3>1. productions' = productions /\ pos' = pos + 1 /\ pc = "pass"
      BY <1>3 DEF VisitProduction
    <3>2. productions \in Seq(Production) /\ pos \in 1 .. Len(productions) + 1
      BY <1>0 DEF TypeOK
    <3> QED BY <3>1, <3>2
  <2>6. \A k \in 1 .. pos - 1 : Satisfied(k)
    BY <1>0, <2>1, <2>5 DEF QuietClosed
  <2>7. \A j \in Visited(p.symbols) : firsts[p.symbols[j]] \subseteq firsts[p.target]
    BY <2>1
  <2>8. Satisfied(pos)
    BY <2>1, <2>7 DEF Satisfied
  <2>9. \A k \in 1 .. pos' - 1 : Satisfied(k)
    BY <2>5, <2>6, <2>8
  <2> QED BY <2>3, <2>4, <2>5, <2>9 DEF Satisfied, AllNullable, Visited
<1>4. CASE NextPass
  BY <1>4 DEF NextPass
<1>5. CASE Finish
  BY <1>0, <1>5 DEF Finish, QuietClosed, Satisfied, AllNullable, Visited
<1>6. CASE UNCHANGED vars
  BY <1>0, <1>6 DEF vars, QuietClosed, Satisfied, AllNullable, Visited
<1> QED
  BY <1>1, <1>2, <1>3, <1>4, <1>5, <1>6 DEF Next, Build, Compute

\* The inductive invariant holds before the first production is added ...
LEMMA InvInit == Init => IInv
<1> SUFFICES ASSUME Init PROVE IInv
  OBVIOUS
<1>1. TypeOK
  BY TypeInit
<1>2. Started /\ QuietClosed
  BY DEF Init, Started, QuietClosed
<1>3. nullable = {} /\ \A s \in Targets : firsts[s] = {}
  BY DEF Init, Symbols, Targets
<1>4. FirstSound
  BY <1>3 DEF FirstSound
<1> QED BY <1>1, <1>2, <1>4 DEF IInv

\* ... every step keeps it ...
LEMMA InvStep == IInv /\ [Next]_vars => IInv'
  BY TypeStep, SoundStep, StartedStep, QuietStep DEF IInv

\* ... and so it always holds.
LEMMA Invariance == Spec => []IInv
<1>1. IInv /\ [Next]_vars => IInv'
  BY InvStep
<1> QED BY InvInit, <1>1, PTL DEF Spec

\* FirstSound, for every grammar: what generate_first_sets has computed at any
\* point is contained in every solution.
THEOREM Soundness == Spec => []FirstSound
<1>1. IInv => FirstSound
  BY DEF IInv
<1> QED BY Invariance, <1>1, PTL

\* FirstComplete, for every grammar: what it returns is a solution.
THEOREM Completeness == Spec => []FirstComplete
<1>1. IInv => FirstComplete
  <2> SUFFICES ASSUME IInv, pc = "done"
               PROVE  /\ NullClosed(nullable)
                      /\ \A t \in Terminals :
                           BeginClosed(t, {s \in Targets : t \in firsts[s]}, nullable)
    BY DEF FirstComplete
  <2>1. \A k \in DOMAIN productions : Satisfied(k) /\ productions[k] \in Production
    BY DEF IInv, TypeOK, Started, QuietClosed
  <2>2. NullClosed(nullable)
    BY <2>1 DEF NullClosed, Satisfied, AllNullable
  <2>3. ASSUME NEW t \in Terminals, NEW k \in DOMAIN productions,
               NEW j \in DOMAIN productions[k].symbols,
               \A i \in 1 .. j - 1 : productions[k].symbols[i] \in nullable,
               productions[k].symbols[j] \in {s \in Targets : t \in firsts[s]} \cup {t}
        PROVE  productions[k].target \in {s \in Targets : t \in firsts[s]}
    <3>1. t \in firsts[productions[k].symbols[j]]
      BY <2>3 DEF IInv, Started
    <3>2. j \in Visited(productions[k].symbols)
      BY <2>3 DEF Visited
    <3>3. productions[k].target \in Targets
      BY <2>1 DEF Production
    <3> QED BY <2>1, <3>1, <3>2, <3>3 DEF Satisfied
  <2> QED BY <2>2, <2>3 DEF BeginClosed
<1> QED BY Invariance, <1>1, PTL
=============================================================================
