------------------------ MODULE SubsetConstruction ------------------------
(***************************************************************************)
(* RegexNFA::to_dfa: a state of the DFA for every set of NFA states that   *)
(* can be reached.  Transitions are over ranges, those of the NFA's        *)
(* states; that two of them overlap without being the same is not provided *)
(* for: an assertion fails.                                                *)
(*                                                                         *)
(* `groups' are the generated states in order, groups[k] being the set     *)
(* that became dfa[k]; those up to `marked' have been taken from the list  *)
(* of unmarked ones; `pending' are the ranges of the last one taken that   *)
(* are still to be followed.                                               *)
(***************************************************************************)
EXTENDS CharRange, Sequences, FiniteSets

CONSTANTS
  Tags,     \* the data of terminal states
  NONE      \* that of others

ASSUME SubsetAssumption == NONE \notin Tags

VARIABLES
  nfa,      \* sequence of [data, transitions, epsilon]; the first is the root
  status,   \* "adding", "building" (the NFA), "converting", "done", "aborted"
  groups, dfa, marked, pending

convertVars == <<nfa, status, groups, dfa, marked, pending>>

NFAStates == 1 .. Len(nfa)

NothingGenerated == groups = <<>> /\ dfa = <<>> /\ marked = 0 /\ pending = {}

\* Any NFA may be converted.
NFAOK ==
  /\ Len(nfa) > 0
  /\ nfa \in Seq([data : Tags \cup {NONE},
                  transitions : SUBSET [range : CharRanges, states : SUBSET NFAStates],
                  epsilon : SUBSET NFAStates])

ConvertInit == NFAOK /\ status = "building" /\ NothingGenerated

-----------------------------------------------------------------------------
\* generate_star, for every state of a set
Star(states) ==
  LET reached[n \in 0 .. Len(nfa)] ==
        IF n = 0 THEN states
        ELSE UNION {{q} \cup nfa[q].epsilon : q \in reached[n - 1]}
  IN  reached[Len(nfa)]

Edges(group) == UNION {nfa[q].transitions : q \in group}
Keys(group) == {e.range : e \in Edges(group)}

\* Mutant: the states behind the range, without those reached from them over nothing.
SuccessorWithoutStar(group, r) == UNION {e.states : e \in {e \in Edges(group) : e.range = r}}

\* The set reached over a range.
Successor(group, r) == Star(UNION {e.states : e \in {e \in Edges(group) : e.range = r}})

\* The tags of a set's terminal states, in the order of these states.
TerminalsOf(group) ==
  LET terminal == {q \in group : nfa[q].data # NONE}
      places == 1 .. Cardinality(terminal)
      sorted == CHOOSE s \in [places -> terminal] : \A i, j \in places : i < j => s[i] < s[j]
  IN  [i \in places |-> nfa[sorted[i]].data]

NewState(group) == [terminals |-> TerminalsOf(group), next |-> {}]

-----------------------------------------------------------------------------
\* to_dfa begins with the states reached from the root over nothing.
Start ==
  /\ status = "building"
  /\ status' = "converting"
  /\ groups' = <<Star({1})>>
  /\ dfa' = <<NewState(Star({1}))>>
  /\ UNCHANGED <<nfa, marked, pending>>

\* Mutant: the loop ends one state early.
TakeAllButLast ==
  /\ status = "converting"
  /\ pending = {} /\ marked + 1 < Len(groups)
  /\ marked' = marked + 1
  /\ pending' = Keys(groups[marked + 1])
  /\ UNCHANGED <<nfa, status, groups, dfa>>

\* The front of the list of unmarked states.
Take ==
  /\ status = "converting"
  /\ pending = {} /\ marked < Len(groups)
  /\ marked' = marked + 1
  /\ pending' = Keys(groups[marked + 1])
  /\ UNCHANGED <<nfa, status, groups, dfa>>

\* The ranges come in the order of the maps they are keys of.
Least(r) == r \in pending /\ \A s \in pending \ {r} : Before(r, s)

\* assert(curr_dfa_state->transitions.find(kv.first)->empty())
Taken(r) == \E e \in dfa[marked].next : Overlaps(e.range, r)

Abort ==
  /\ status = "converting"
  /\ \E r \in pending : Least(r) /\ Taken(r)
  /\ status' = "aborted"
  /\ UNCHANGED <<nfa, groups, dfa, marked, pending>>

To(r, k) ==
  [dfa EXCEPT ![marked] = [terminals |-> @.terminals, next |-> @.next \cup {[range |-> r, to |-> k]}]]

FollowKnown ==
  /\ status = "converting"
  /\ \E r \in pending, k \in 1 .. Len(groups) :
       /\ Least(r) /\ ~ Taken(r)
       /\ groups[k] = Successor(groups[marked], r)
       /\ dfa' = To(r, k)
       /\ pending' = pending \ {r}
  /\ UNCHANGED <<nfa, status, groups, marked>>

FollowNew ==
  /\ status = "converting"
  /\ \E r \in pending :
       LET group == Successor(groups[marked], r)
       IN  /\ Least(r) /\ ~ Taken(r)
           /\ \A k \in 1 .. Len(groups) : groups[k] # group
           /\ groups' = Append(groups, group)
           /\ dfa' = Append(To(r, Len(groups) + 1), NewState(group))
           /\ pending' = pending \ {r}
  /\ UNCHANGED <<nfa, status, marked>>

Finish ==
  /\ status = "converting"
  /\ pending = {} /\ marked = Len(groups)
  /\ status' = "done"
  /\ UNCHANGED <<nfa, groups, dfa, marked, pending>>

Convert == Start \/ Take \/ Abort \/ FollowKnown \/ FollowNew \/ Finish

ConvertSpec == ConvertInit /\ [][Convert]_convertVars

-----------------------------------------------------------------------------
\* The types of the construction's variables.
ConvertTypeOK ==
  /\ NFAOK
  /\ status \in {"adding", "building", "converting", "done", "aborted"}
  /\ groups \in Seq(SUBSET NFAStates)
  /\ dfa \in Seq([terminals : Seq(Tags), next : SUBSET [range : CharRanges, to : 1 .. Len(groups)]])
  /\ Len(dfa) = Len(groups)
  /\ marked \in 0 .. Len(groups)
  /\ pending \subseteq CharRanges

\* Every character leads from a state whose turn is over to the state that stands
\* for exactly the NFA states the character leads to, and leads nowhere if there are
\* none: the automaton a subset construction is to give, for any text, as long as no
\* assertion has failed.
Over == {k \in 1 .. marked : k < marked \/ (pending = {} /\ status # "aborted")}

Reached(group, c) ==
  Star(UNION {e.states : e \in {e \in Edges(group) : Holds(e.range, c)}})

SubsetsExact ==
  \A k \in Over, c \in Char :
    LET ways == {e \in dfa[k].next : Holds(e.range, c)}
    IN  /\ ways = {} <=> \A e \in Edges(groups[k]) : ~ Holds(e.range, c)
        /\ \A e \in ways : groups[e.to] = Reached(groups[k], c)
        /\ \A d, e \in ways : d = e
=============================================================================
