----------------------------- MODULE Siyu1Regex -----------------------------
(***************************************************************************)
(* siyu-1: syntax trees made for a DFA straight from the regex, of which   *)
(* nullable and first_pos are written.  Repetitions are unfolded; what     *)
(* occurs in a tree more than once is wrapped into a phony node, which     *)
(* does not own it.  But the phony node of an optional repetition may      *)
(* itself be there more than once, and then is `shared'.                   *)
(***************************************************************************)
EXTENDS Integers, Sequences, SequencesExt

CONSTANTS CodeOf, UINT_WIDTH

Epsilon == [kind |-> "epsilon"]
Literal(ch) == [kind |-> "literal", ch |-> ch]
Concat(curr, next) == [kind |-> "concat", curr |-> curr, next |-> next]
Either(l, r) == [kind |-> "or", left |-> l, right |-> r]
Star(node) == [kind |-> "star", node |-> node]
Phony(node, shared) == [kind |-> "phony", node |-> node, shared |-> shared]
Endless == [kind |-> "endless"]   \* a loop that does not end

\* make_regex_ast_add
Sequence(nodes) ==
  FoldRight(LAMBDA node, rest : Concat(node, rest), Front(nodes), Last(nodes))

\* n nodes before another
Before(node, n, rest) == FoldLeft(LAMBDA r, i : Concat(node, r), rest, [i \in 1 .. n |-> i])

\* make_regex_ast_mul
Repetition(node, min, max) ==
  LET required == Before(Phony(node, FALSE), min, node)
      more == IF max > min THEN max - min ELSE 0
      optional == Phony(Either(Phony(node, FALSE), Epsilon), more > 0)
  IN  IF min = 0 THEN Star(node)
      ELSE Concat(required, IF max = 0 THEN Epsilon ELSE Before(optional, more, optional))

\* make_regex_ast_range: the loop runs from upper - 1, which wraps, down to lower, and an
\* unsigned number is never below 0.
Span(lower, upper) ==
  LET first == (upper + 2 ^ UINT_WIDTH - 1) % 2 ^ UINT_WIDTH
  IN  IF lower = 0 THEN Endless
      ELSE FoldLeft(LAMBDA r, i : Either(Literal(first + 1 - i), r), Literal(upper),
                    [i \in 1 .. (IF first >= lower THEN first + 1 - lower ELSE 0) |-> i])

\* The destructors: a phony node's own node is not deleted.
RECURSIVE Deletable(_)
Deletable(x) ==
  CASE x.kind = "concat" -> Deletable(x.curr) /\ Deletable(x.next)
    [] x.kind = "or" -> Deletable(x.left) /\ Deletable(x.right)
    [] x.kind = "star" -> Deletable(x.node)
    [] x.kind = "phony" -> ~ x.shared
    [] OTHER -> TRUE

-----------------------------------------------------------------------------
RECURSIVE Nullable(_)
Nullable(x) ==
  CASE x.kind \in {"epsilon", "star"} -> TRUE
    [] x.kind = "literal" -> FALSE
    [] x.kind = "concat" -> Nullable(x.curr) /\ Nullable(x.next)
    [] x.kind = "or" -> Nullable(x.left) \/ Nullable(x.right)
    [] x.kind = "phony" -> Nullable(x.node)

\* Mutant: the first positions of the left operand only.
RECURSIVE FirstPos(_)

FirstPosOfLeft(x) ==
  CASE x.kind = "epsilon" -> {}
    [] x.kind = "literal" -> {x.ch}
    [] x.kind = "concat" -> FirstPos(x.curr)
    [] x.kind = "or" -> FirstPos(x.left) \cup FirstPos(x.right)
    [] x.kind \in {"star", "phony"} -> FirstPos(x.node)

FirstPos(x) ==
  CASE x.kind = "epsilon" -> {}
    [] x.kind = "literal" -> {x.ch}
    [] x.kind = "concat" -> FirstPos(x.curr) \cup (IF Nullable(x.curr) THEN FirstPos(x.next) ELSE {})
    [] x.kind = "or" -> FirstPos(x.left) \cup FirstPos(x.right)
    [] x.kind \in {"star", "phony"} -> FirstPos(x.node)

-----------------------------------------------------------------------------
Reader == INSTANCE RegexReader

ParseSiyu1(s) == Reader!Parse(s)
=============================================================================
