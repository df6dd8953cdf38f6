----------------------------- MODULE FirstSets -----------------------------
(***************************************************************************)
(* The grammar a midori Parser is given, call by call (add_production),    *)
(* and generate_first_sets, which generate() runs over it: repeated passes *)
(* over the productions, in order, until a pass changes nothing.           *)
(*                                                                         *)
(* The loop keeps one flag, `changed', and guards the insertions into      *)
(* `nullable' with it (changed = changed || nullable.insert(..)): once a   *)
(* pass has changed something, the rest of that pass inserts no nullable   *)
(* symbol.  The properties below say that the result is nevertheless the   *)
(* least solution, and that the loop ends.                                 *)
(***************************************************************************)
EXTENDS Naturals, Sequences

CONSTANTS
  Terminals,      \* tags of Parser::terminals, TOKEN_END included
  Nonterminals,   \* symbols the client uses as targets
  ROOT,           \* Parser::ROOT, the target generate() adds
  SymbolStrings,  \* right-hand sides the client may pass to add_production
  MaxProductions  \* bound on the calls of add_production

Symbols == Terminals \cup Nonterminals \cup {ROOT}
Targets == Nonterminals \cup {ROOT}
Production == [target : Targets, symbols : Seq(Symbols)]

ASSUME GrammarAssumption ==
  /\ Terminals \cap Targets = {}
  /\ SymbolStrings \subseteq Seq(Terminals \cup Nonterminals)
  /\ MaxProductions \in Nat

VARIABLES
  productions,  \* Parser::productions, in order of index
  firsts,       \* Parser::firsts
  nullable,     \* Parser::nullable
  changed,      \* the local of generate_first_sets
  pos,          \* the production the for loop is at
  pc            \* "build" before generate(), "pass" in the loop, "done" after

vars == <<productions, firsts, nullable, changed, pos, pc>>

TypeOK ==
  /\ productions \in Seq(Production)
  /\ firsts \in [Symbols -> SUBSET Terminals]
  /\ nullable \subseteq Targets
  /\ changed \in BOOLEAN
  /\ pos \in 1 .. Len(productions) + 1
  /\ pc \in {"build", "pass", "done"}

Init ==
  /\ productions = <<>>
  /\ firsts = [s \in Symbols |-> {}]
  /\ nullable = {}
  /\ changed = FALSE
  /\ pos = 1
  /\ pc = "build"

AddProduction(target, symbols) ==
  /\ pc = "build"
  /\ Len(productions) < MaxProductions
  /\ productions' = Append(productions, [target |-> target, symbols |-> symbols])
  /\ UNCHANGED <<firsts, nullable, changed, pos, pc>>

\* generate(): the ROOT production is appended, then the terminals' own sets
\* are filled in and the first pass starts with changed = false.
Generate(start) ==
  /\ pc = "build"
  /\ productions' = Append(productions, [target |-> ROOT, symbols |-> <<start>>])
  /\ firsts' = [s \in Symbols |-> IF s \in Terminals THEN {s} ELSE {}]
  /\ pc' = "pass"
  /\ UNCHANGED <<nullable, changed, pos>>

-----------------------------------------------------------------------------
(* The body of the for loop, for one production.                            *)

\* A fault: the inner loop goes on after a symbol that is not nullable.
VisitedAll(symbols) == DOMAIN symbols

\* Positions the inner loop looks at: it stops after the first symbol that is
\* not in `nullable'.
Visited(symbols) ==
  {j \in DOMAIN symbols : \A i \in 1 .. j - 1 : symbols[i] \in nullable}

AllNullable(symbols) == \A i \in DOMAIN symbols : symbols[i] \in nullable

\* Faults: the insertion's result is ignored, or true for a target already in.
InsertedNever(p) == FALSE
InsertedAlways(p) == AllNullable(p.symbols)

\* nullable.insert(p->target).second, where the code comes to the insertion;
\* is_epsilon() is the case without symbols.
Inserted(p) == AllNullable(p.symbols) /\ p.target \notin nullable

VisitProduction ==
  /\ pc = "pass"
  /\ pos <= Len(productions)
  /\ LET p == productions[pos]
         f == firsts[p.target]
                \cup UNION {firsts[p.symbols[j]] : j \in Visited(p.symbols)}
     IN  /\ firsts' = [firsts EXCEPT ![p.target] = f]
         /\ nullable' = IF AllNullable(p.symbols) /\ ~changed
                          THEN nullable \cup {p.target} ELSE nullable
         /\ changed' = (changed \/ Inserted(p) \/ f # firsts[p.target])
  /\ pos' = pos + 1
  /\ UNCHANGED <<productions, pc>>

NextPass ==
  /\ pc = "pass"
  /\ pos > Len(productions)
  /\ changed
  /\ changed' = FALSE
  /\ pos' = 1
  /\ UNCHANGED <<productions, firsts, nullable, pc>>

Finish ==
  /\ pc = "pass"
  /\ pos > Len(productions)
  /\ ~changed
  /\ pc' = "done"
  /\ UNCHANGED <<productions, firsts, nullable, changed, pos>>

Build ==
  \/ \E t \in Nonterminals, w \in SymbolStrings : AddProduction(t, w)
  \/ \E s \in Nonterminals : Generate(s)

Compute == VisitProduction \/ NextPass \/ Finish

Next == Build \/ Compute

Spec == Init /\ [][Next]_vars

\* The client decides when to call generate(); once called, the loop runs.
FairSpec == Spec /\ WF_vars(Compute)

-----------------------------------------------------------------------------
(* Properties                                                               *)

\* N holds the target of every production all of whose symbols it holds.
NullClosed(N) ==
  \A k \in DOMAIN productions :
    (\A i \in DOMAIN productions[k].symbols : productions[k].symbols[i] \in N)
      => productions[k].target \in N

\* D, read as the targets that can begin with t, is closed when the symbols
\* of N may be skipped.
BeginClosed(t, D, N) ==
  \A k \in DOMAIN productions :
    \A j \in DOMAIN productions[k].symbols :
      /\ \A i \in 1 .. j - 1 : productions[k].symbols[i] \in N
      /\ productions[k].symbols[j] \in D \cup {t}
      => productions[k].target \in D

\* generate_first_sets puts nothing in `nullable' or in `firsts' that the
\* productions do not force: whatever sets are closed under the productions
\* contain what it has computed, in the middle of a pass as well as at the end.
FirstSound ==
  \A N \in SUBSET Targets : NullClosed(N) =>
    /\ nullable \subseteq N
    /\ \A t \in Terminals : \A D \in SUBSET Targets :
         BeginClosed(t, D, N) => {s \in Targets : t \in firsts[s]} \subseteq D

\* When generate_first_sets returns, nothing is missing: no production could
\* still add to `nullable' or to `firsts', although the insertion into
\* `nullable' is skipped in the rest of a pass that has changed something.
FirstComplete ==
  pc = "done" =>
    /\ NullClosed(nullable)
    /\ \A t \in Terminals :
         BeginClosed(t, {s \in Targets : t \in firsts[s]}, nullable)

\* generate_first_sets returns, whatever the grammar.
FirstTerminates == (pc = "pass") ~> (pc = "done")
=============================================================================
