---------------------------- MODULE SiyuAutomata ----------------------------
(***************************************************************************)
(* The regexes of siyu and tk and their automata: syntax trees, siyu's     *)
(* RegexParser, RegexNFAGenerator and NFA::to_dfa.  A node that is not     *)
(* there (nullptr) may become part of a tree: see parse_lr_mul.  States    *)
(* of the NFA are numbered from 1, the root.  A state has one epsilon      *)
(* transition at most: a second one takes its place, which is noted in     *)
(* `overwritten' (auxiliary) unless the first was to a rule's old copy.    *)
(***************************************************************************)
EXTENDS Integers, Sequences, SequencesExt, Functions

CONSTANTS
  NONE,               \* the tag of a state that is not terminal
  CodeOf, UINT_WIDTH  \* of RegexReader

Literal(ch) == [kind |-> "literal", ch |-> ch]
Sequence(nodes) == [kind |-> "chain", sequence |-> nodes]
Either(l, r) == [kind |-> "or", left |-> l, right |-> r]
Repetition(node, min, max) == [kind |-> "multiplication", node |-> node, min |-> min, max |-> max]
Span(lower, upper) == [kind |-> "range", lower |-> lower, upper |-> upper]
Wildcard == [kind |-> "wildcard"]               \* tk only
Not(node) == [kind |-> "not", node |-> node]    \* tk only

LOCAL Owned(node) == TRUE   \* every node has one owner
Reader == INSTANCE RegexReader WITH Deletable <- Owned
ParseSiyu(s) == Reader!Parse(s)

-----------------------------------------------------------------------------
(* The automata                                                             *)

WILDCARD == -1  \* tk: the key of transitions over any character
NOWHERE == 0    \* nullptr

State(data) == [next_states |-> {}, epsilon |-> NOWHERE, data |-> data]

Generator ==
  [nfa |-> <<State(NONE)>>, root |-> 1, target_state |-> NOWHERE, overwritten |-> FALSE, since |-> 1]

\* RegexNFAGenerator::reset: the NFA stays.  States `since' are those of the rules' new copies.
Reset(g) ==
  [g EXCEPT !.root = 1, !.target_state = NOWHERE, !.overwritten = FALSE, !.since = Len(g.nfa) + 1]

NewRule(g, tag) == [g EXCEPT !.nfa = Append(@, State(tag)), !.target_state = Len(g.nfa) + 1]

AddTo(g, ch) == [g EXCEPT !.nfa[g.root].next_states = @ \cup {<<ch, g.target_state>>}]

\* A range is visited as the alternatives it consists of: upper, and from upper - 1 down.
RangeCodes(x) == {x.upper} \cup x.lower .. x.upper

Count(n) == [i \in 1 .. n |-> i]

RECURSIVE Visit(_, _)
VisitTo(g, x, state) == Visit([g EXCEPT !.target_state = state], x)

\* Ends at a new state, to go on from there.
VisitOn(g, x) ==
  LET new == Len(g.nfa) + 1
  IN  [VisitTo([g EXCEPT !.nfa = Append(@, State(NONE))], x, new) EXCEPT !.root = new]

\* Mutant: root is not restored.
VisitChainAway(g, xs) == VisitTo(FoldLeft(VisitOn, g, Front(xs)), Last(xs), g.target_state)

VisitChain(g, xs) ==
  [VisitTo(FoldLeft(VisitOn, g, Front(xs)), Last(xs), g.target_state) EXCEPT !.root = g.root]

\* Mutant: repetitions that may be left out are not left out.
SkipNever(g, end) == g

\* root->epsilon = end_state
Skip(g, end) ==
  [g EXCEPT !.nfa[g.root].epsilon = end,
            !.overwritten = @ \/ (g.nfa[g.root].epsilon >= g.since /\ g.nfa[g.root].epsilon # end)]

Required(g, x) ==
  IF x.min = 0 THEN Skip(g, g.target_state)
  ELSE VisitTo(FoldLeft(LAMBDA h, i : VisitOn(h, x.node), g, Count(x.min - 1)), x.node, g.target_state)

Optional(g, x, end) ==
  LET first == IF x.min # 0 THEN VisitOn(g, x.node) ELSE g
      more == IF x.max > x.min + 1 THEN x.max - x.min - 1 ELSE 0
      Branch(h, i) == VisitOn(VisitTo(h, x.node, end), x.node)
  IN  VisitTo(FoldLeft(Branch, first, Count(more)), x.node, end)

VisitMultiplication(g, x) ==
  LET end == g.target_state
      required == Required(g, x)
      all == IF x.max = 0 THEN VisitTo([required EXCEPT !.root = end], x.node, end)
             ELSE Optional(required, x, end)
  IN  [all EXCEPT !.root = g.root, !.target_state = end]

\* A negation is not generated at all.
Visit(g, x) ==
  CASE x.kind = "literal" -> AddTo(g, x.ch)
    [] x.kind = "wildcard" -> AddTo(g, WILDCARD)
    [] x.kind = "range" -> FoldLeft(AddTo, g, SetToSeq(RangeCodes(x)))
    [] x.kind = "chain" -> VisitChain(g, x.sequence)
    [] x.kind = "or" -> Visit(Visit(g, x.left), x.right)
    [] x.kind = "multiplication" -> VisitMultiplication(g, x)
    [] x.kind = "not" -> g

-----------------------------------------------------------------------------
(* to_dfa.  A state of the DFA is the set of states it stands for.          *)

\* generate_epsilon_star_into, which stops at a state that is there already.
RECURSIVE StarInto(_, _, _)
StarInto(nfa, q, states) ==
  LET next == nfa[q].epsilon
  IN  IF next = NOWHERE \/ next \in states THEN states ELSE StarInto(nfa, next, states \cup {next})

Edges(nfa, curr) == UNION {nfa[q].next_states : q \in curr}

Successor(nfa, curr, key) ==
  FoldLeft(LAMBDA states, q : StarInto(nfa, q, states \cup {q}), {},
           SetToSeq({e[2] : e \in {e \in Edges(nfa, curr) : e[1] = key}}))

Row(nfa, curr) == [key \in {e[1] : e \in Edges(nfa, curr)} |-> Successor(nfa, curr, key)]

\* The worklist: all that is reached and has not been followed yet.
RECURSIVE Reached(_, _, _)
Reached(nfa, marked, unmarked) ==
  IF unmarked = {} THEN marked
  ELSE LET curr == CHOOSE s \in unmarked : TRUE
           known == marked \cup {curr}
       IN  Reached(nfa, known, (unmarked \cup Range(Row(nfa, curr))) \ known)

\* The tags a state may be given: the first terminal's, by address.
Tags(nfa, states) == {nfa[q].data : q \in states} \ {NONE}

ToDfa(nfa) ==
  LET root == StarInto(nfa, 1, {1})
      states == Reached(nfa, {}, {root})
  IN  [root |-> root,
       next_states |-> [s \in states |-> Row(nfa, s)],
       tags |-> [s \in states |-> Tags(nfa, s)]]
=============================================================================
