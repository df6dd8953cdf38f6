----------------------------- MODULE RegexWords -----------------------------
(***************************************************************************)
(* Sets of words, and the regexes whose words the generators of automata   *)
(* get right.                                                              *)
(***************************************************************************)
EXTENDS Integers, Sequences, SequencesExt

CONSTANTS
  Letters,     \* codes of the words looked at
  MaxLength    \* bound: length of these words

Words == UNION {[1 .. n -> Letters] : n \in 0 .. MaxLength}

Both(A, B) == {w \in {a \o b : a \in A, b \in B} : Len(w) <= MaxLength}

\* n words of A, one after the other.
Power(A, n) ==
  LET power[k \in 0 .. n] == IF k = 0 THEN {<<>>} ELSE Both(power[k - 1], A)
  IN  power[n]

\* From min to max words of A; no bound if max is 0.
Repeated(A, min, max) ==
  Both(Power(A, min),
       Power(A \cup {<<>>}, IF max = 0 THEN MaxLength ELSE IF max > min THEN max - min ELSE 0))

-----------------------------------------------------------------------------
(* Where code and regex part: a repetition loops at the state it ends in,   *)
(* which it may share with what else ends there; and {n,n} is repeated      *)
(* n + 1 times.                                                             *)

RECURSIVE EndsInLoop(_)
EndsInLoop(x) ==
  \/ x.kind = "multiplication" /\ (x.max = 0 \/ EndsInLoop(x.node))
  \/ x.kind = "chain" /\ EndsInLoop(Last(x.sequence))
  \/ x.kind = "or" /\ (EndsInLoop(x.left) \/ EndsInLoop(x.right))

RECURSIVE Exact(_)
Exact(x) ==
  CASE x.kind = "chain" -> \A i \in DOMAIN x.sequence : Exact(x.sequence[i])
    [] x.kind = "or" ->
         /\ Exact(x.left) /\ Exact(x.right)
         /\ ~ EndsInLoop(x.left) /\ ~ EndsInLoop(x.right)
    [] x.kind = "multiplication" ->
         /\ Exact(x.node) /\ ~ EndsInLoop(x.node)
         /\ x.max = 0 \/ x.min < x.max
    [] OTHER -> TRUE
=============================================================================
