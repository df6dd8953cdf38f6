--------------------------- MODULE RegexAutomata ---------------------------
(***************************************************************************)
(* From regexes to the lexer's automaton.  A client builds groups and      *)
(* regexes and adds rules (Lexer::add_rule); Lexer::generate has a         *)
(* generator visit one regex after the other and turns the NFA into a DFA. *)
(***************************************************************************)
EXTENDS RegexRanges, SequencesExt, SubsetConstruction, RegexWords

-----------------------------------------------------------------------------
(* RegexNFAGenerator: `root' is where a node begins, `target_state' where   *)
(* it is to end.                                                            *)

\* RegexNFA
State(data) == [data |-> data, transitions |-> {}, epsilon |-> {}]

Generator == [nfa |-> <<State(NONE)>>, root |-> 1, target_state |-> 1]

NewRule(g, tag) ==
  [g EXCEPT !.nfa = Append(@, State(tag)), !.target_state = Len(g.nfa) + 1]

AddTo(g, range) ==
  [g EXCEPT !.nfa[g.root].transitions = Added(@, range, g.target_state)]

Count(n) == [i \in 1 .. n |-> i]

RECURSIVE Visit(_, _)

\* Visits a node that is to end at a state ...
VisitTo(g, x, state) == Visit([g EXCEPT !.target_state = state], x)

\* ... at a new one, to go on from there.
VisitOn(g, x) ==
  LET next == Len(g.nfa) + 1
  IN  [VisitTo([g EXCEPT !.nfa = Append(@, State(NONE))], x, next) EXCEPT !.root = next]

VisitChain(g, xs) ==
  LET begun == FoldLeft(VisitOn, g, Front(xs))
  IN  [VisitTo(begun, Last(xs), g.target_state) EXCEPT !.root = g.root]

\* Mutant: i <= min.
RequiredOneMore(g, x) ==
  IF x.min = 0
  THEN [g EXCEPT !.nfa[g.root].epsilon = @ \cup {g.target_state}]
  ELSE VisitTo(FoldLeft(LAMBDA h, i : VisitOn(h, x.node), g, Count(x.min)),
               x.node, g.target_state)

\* The repetitions that must be there; min = 0 has none.
Required(g, x) ==
  IF x.min = 0
  THEN [g EXCEPT !.nfa[g.root].epsilon = @ \cup {g.target_state}]
  ELSE VisitTo(FoldLeft(LAMBDA h, i : VisitOn(h, x.node), g, Count(x.min - 1)),
               x.node, g.target_state)

\* Mutant: i <= max.
OptionalOneMore(g, x, end) ==
  LET first == IF x.min # 0 THEN VisitOn(g, x.node) ELSE g
      more == IF x.max > x.min THEN x.max - x.min ELSE 0
      Branch(h, i) == VisitOn(VisitTo(h, x.node, end), x.node)
  IN  VisitTo(FoldLeft(Branch, first, Count(more)), x.node, end)

\* The repetitions that may follow, the last of which has no way on.
Optional(g, x, end) ==
  LET first == IF x.min # 0 THEN VisitOn(g, x.node) ELSE g
      more == IF x.max > x.min + 1 THEN x.max - x.min - 1 ELSE 0
      Branch(h, i) == VisitOn(VisitTo(h, x.node, end), x.node)
  IN  VisitTo(FoldLeft(Branch, first, Count(more)), x.node, end)

Unbounded(g, x, end) == VisitTo([g EXCEPT !.root = end], x.node, end)

VisitMultiplication(g, x) ==
  LET end == g.target_state
      required == Required(g, x)
      all == IF x.max = 0 THEN Unbounded(required, x, end) ELSE Optional(required, x, end)
  IN  [all EXCEPT !.root = g.root, !.target_state = end]

Visit(g, x) ==
  CASE x.kind = "literal" -> AddTo(g, <<x.ch, x.ch>>)
    [] x.kind = "group" -> FoldLeft(AddTo, g, Flatten(x.group))
    [] x.kind = "chain" -> VisitChain(g, x.sequence)
    [] x.kind = "or" -> Visit(Visit(g, x.left), x.right)
    [] x.kind = "multiplication" -> VisitMultiplication(g, x)

-----------------------------------------------------------------------------
(* The lexer                                                                *)

CONSTANTS
  Regexes(_, _),   \* the regexes a client builds with a group, for a tag
  MaxRules         \* bound: rules of one lexer

ASSUME RulesAssumption == MaxRules \in Nat /\ 1 .. MaxRules \subseteq Tags

VARIABLES
  rules,               \* the regexes added, their tags being their indices
  visited,             \* how many of them the generator has visited
  root, target_state   \* the generator's, between two visits

vars == <<group, rules, visited, root, target_state, convertVars>>

generator == [nfa |-> nfa, root |-> root, target_state |-> target_state]

Init ==
  /\ GroupInit
  /\ rules = <<>> /\ visited = 0
  /\ nfa = Generator.nfa /\ root = Generator.root /\ target_state = Generator.target_state
  /\ status = "adding" /\ NothingGenerated

BuildGroup ==
  /\ status = "adding" /\ rules = <<>>
  /\ AddRange
  /\ UNCHANGED <<rules, visited, root, target_state, convertVars>>

AddRule ==
  /\ status = "adding" /\ Len(rules) < MaxRules
  /\ \E x \in Regexes(group, Len(rules) + 1) : rules' = Append(rules, x)
  /\ UNCHANGED <<group, visited, root, target_state, convertVars>>

Generate ==
  /\ status = "adding"
  /\ status' = "building"
  /\ UNCHANGED <<group, rules, visited, root, target_state, nfa, groups, dfa, marked, pending>>

VisitRule ==
  /\ status = "building" /\ visited < Len(rules)
  /\ visited' = visited + 1
  /\ LET after == Visit(NewRule(generator, visited + 1), rules[visited + 1])
     IN  nfa' = after.nfa /\ root' = after.root /\ target_state' = after.target_state
  /\ UNCHANGED <<group, rules, status, groups, dfa, marked, pending>>

ToDfa ==
  /\ visited = Len(rules)
  /\ Convert
  /\ UNCHANGED <<group, rules, visited, root, target_state>>

Next == BuildGroup \/ AddRule \/ Generate \/ VisitRule \/ ToDfa

Spec == Init /\ [][Next]_vars

\* to_dfa(), once called, runs until it returns; when to add rules and to generate is
\* up to the client.
FairSpec == Spec /\ WF_vars(ToDfa)

-----------------------------------------------------------------------------
(* What regexes mean, and what the automaton made of them is to accept.      *)

\* The words of a regex, up to MaxLength.
RECURSIVE Language(_)
Language(x) ==
  CASE x.kind = "literal" -> {<<x.ch>>} \cap Words
    [] x.kind = "group" -> {<<c>> : c \in Denoted(x.group) \cap Letters}
    [] x.kind = "chain" -> FoldLeft(LAMBDA A, y : Both(A, Language(y)), {<<>>}, x.sequence)
    [] x.kind = "or" -> Language(x.left) \cup Language(x.right)
    [] x.kind = "multiplication" ->
         Repeated(Language(x.node), x.min, x.max)

-----------------------------------------------------------------------------
\* RegexDFAState::next; 0 is no state.
DfaNext(k, c) ==
  LET ways == {e \in dfa[k].next : Holds(e.range, c)}
  IN  IF k = 0 \/ ways = {} THEN 0 ELSE (CHOOSE e \in ways : TRUE).to

DfaAfter(w) == FoldLeft(LAMBDA k, c : IF k = 0 THEN 0 ELSE DfaNext(k, c), 1, w)

\* The words that are found with a rule's tag.
WordsFound(i) ==
  {w \in Words : LET k == DfaAfter(w) IN k # 0 /\ i \in Range(dfa[k].terminals)}

-----------------------------------------------------------------------------
TypeOK ==
  /\ ConvertTypeOK
  /\ visited \in 0 .. Len(rules)
  /\ Len(group.span) <= MaxRanges
  /\ root \in NFAStates /\ target_state \in NFAStates

\* In every state of the NFA, the ranges in the tree do not overlap, whatever was added
\* in whatever order (RegexNFAState::add splits): find() yields one of them at most.
RangesApart ==
  /\ TypeOK
  /\ \A q \in NFAStates : Apart(nfa[q].transitions)

\* Every word of a rule's regex is found with the rule's tag.
NothingMissed ==
  status = "done" => \A i \in DOMAIN rules : Language(rules[i]) \subseteq WordsFound(i)

\* Nothing else is, if no repetition of the rule is one the code gets wrong.
NothingExtra ==
  status = "done" =>
    \A i \in DOMAIN rules : Exact(rules[i]) => WordsFound(i) \subseteq Language(rules[i])

\* to_dfa() returns, unless an assertion fails.
ConversionEnds ==
  status = "building" /\ visited = Len(rules) ~> status \in {"done", "aborted"}

-----------------------------------------------------------------------------
\* assert(curr_dfa_state->transitions.find(kv.first)->empty()) holds
\* (finite_automata.cpp:159).
NoAssertionFails == status # "aborted"
=============================================================================
