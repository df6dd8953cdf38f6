---------------------------- MODULE IntervalTree ----------------------------
(***************************************************************************)
(* IntervalTree: an AVL tree of ranges in which every node knows its       *)
(* height and the least and greatest point of its ranges.  It implements   *)
(* RangeMap.                                                               *)
(*                                                                         *)
(* A search only reads and is one step; a removal takes out one range per  *)
(* turn of its loop.                                                       *)
(***************************************************************************)
EXTENDS CharRange, Sequences, FiniteSets

CONSTANTS
  Keys, ValuesOf   \* as in RangeMap

ASSUME MapAssumption == Keys \subseteq CharRanges /\ DOMAIN ValuesOf = Keys

VARIABLES
  root,      \* a node or NULL
  popping,   \* the range being removed, or None
  results    \* what the current or the last call has found

vars == <<root, popping, results>>

Values == UNION {ValuesOf[k] : k \in Keys}
Entries == UNION {[key : {k}, value : ValuesOf[k]] : k \in Keys}
None == <<>>

-----------------------------------------------------------------------------
(* IntervalTree::Node                                                       *)

\* The null pointer, which _height takes for a tree of height 0.
NULL == [height |-> 0]

\* Trees of no more than h levels: what node after node is visited in.
Trees[h \in Nat] ==
  IF h = 0 THEN {NULL}
  ELSE LET below == Trees[h - 1]
       IN  {NULL} \cup [key : Keys, value : Values, height : Nat, lower : Char, upper : Char,
                       left : below, right : below]

Greater(x, y) == IF x > y THEN x ELSE y

Height(n) == n.height
BalanceFactor(n) == Height(n.right) - Height(n.left)

Node(e, left, right) ==
  [key |-> e.key, value |-> e.value, height |-> 0, lower |-> 0, upper |-> 0,
   left |-> left, right |-> right]

\* Mutant: the left child's upper bound is forgotten.
UpdatedByRight(n) ==
  [n EXCEPT !.height = IF n.left = NULL /\ n.right = NULL THEN 1
                       ELSE IF n.left = NULL \/ n.right = NULL THEN 2
                       ELSE Greater(n.left.height, n.right.height) + 1,
            !.lower = IF n.left = NULL THEN n.key[1] ELSE n.left.lower,
            !.upper = IF n.right = NULL THEN n.key[2] ELSE Greater(n.key[2], n.right.upper)]

\* With one child the height is 2, whatever the child's.
Updated(n) ==
  LET upper == IF n.right = NULL THEN n.key[2] ELSE Greater(n.key[2], n.right.upper)
  IN  [n EXCEPT !.height = IF n.left = NULL /\ n.right = NULL THEN 1
                           ELSE IF n.left = NULL \/ n.right = NULL THEN 2
                           ELSE Greater(n.left.height, n.right.height) + 1,
                !.lower = IF n.left = NULL THEN n.key[1] ELSE n.left.lower,
                !.upper = IF n.left = NULL THEN upper ELSE Greater(upper, n.left.upper)]

RotateCw(n) == Updated([n.left EXCEPT !.right = Updated([n EXCEPT !.left = n.left.right])])
RotateCcw(n) == Updated([n.right EXCEPT !.left = Updated([n EXCEPT !.right = n.right.left])])

Rotate(n, factor) ==
  IF factor < 0 THEN RotateCw(n) ELSE IF factor > 0 THEN RotateCcw(n) ELSE n

Balance(n) ==
  LET factor == BalanceFactor(n)
      sub == IF factor < 0 THEN BalanceFactor(n.left) ELSE BalanceFactor(n.right)
      straightened == IF factor * sub > 0 THEN n
                      ELSE IF factor = 2 THEN [n EXCEPT !.right = Rotate(n.right, sub)]
                      ELSE [n EXCEPT !.left = Rotate(n.left, sub)]
  IN  IF factor * factor <= 1 THEN n ELSE Rotate(straightened, factor)

NodeContains(n, point) == n.key[1] <= point /\ point <= n.key[2]
ContainsRecursive(n, point) == n.lower <= point /\ point <= n.upper

NodeOverlaps(n, key) ==
  \/ NodeContains(n, key[1]) \/ NodeContains(n, key[2])
  \/ key[1] <= n.key[1] /\ n.key[1] <= key[2]

\* Mutant: a range around all of the subtree's is not thought to overlap.
OverlapsInside(n, key) == ContainsRecursive(n, key[1]) \/ ContainsRecursive(n, key[2])

OverlapsRecursive(n, key) ==
  \/ ContainsRecursive(n, key[1]) \/ ContainsRecursive(n, key[2])
  \/ key[1] <= n.lower /\ n.lower <= key[2]

InsertNode(tree, e) ==
  LET insert[n \in Trees[Height(tree)]] ==
        IF n = NULL THEN Updated(Node(e, NULL, NULL))
        ELSE Balance(Updated(
          IF Before(e.key, n.key) THEN [n EXCEPT !.left = insert[n.left]]
          ELSE IF Before(n.key, e.key) THEN [n EXCEPT !.right = insert[n.right]]
          ELSE [n EXCEPT !.value = e.value]))
  IN  insert[tree]

\* The tree without its first node, and that node.
PopMin(tree) ==
  LET pop_min[n \in Trees[Height(tree)] \ {NULL}] ==
        IF n.left = NULL THEN [tree |-> n.right, ret |-> n]
        ELSE [tree |-> Balance(Updated([n EXCEPT !.left = pop_min[n.left].tree])),
              ret  |-> pop_min[n.left].ret]
  IN  pop_min[tree]

\* A node gives way to its only child, or to the node that follows it.
Removed(n) ==
  LET popped == PopMin(n.right)
      next == [popped.ret EXCEPT !.left = n.left, !.right = popped.tree]
  IN  IF n.left = NULL THEN n.right
      ELSE IF n.right = NULL THEN n.left
      ELSE Balance(Updated(next))

\* Mutant: what is left of the left subtree is not put back.
PoppedDropped(n, key, left, right) ==
  IF ~ OverlapsRecursive(n, key) THEN [tree |-> n, ret |-> NULL]
  ELSE IF left.ret # NULL THEN [tree |-> n, ret |-> left.ret]
  ELSE IF NodeOverlaps(n, key) THEN [tree |-> Removed(n), ret |-> n]
  ELSE IF right.ret # NULL
       THEN [tree |-> Balance(Updated([n EXCEPT !.right = right.tree])), ret |-> right.ret]
  ELSE [tree |-> n, ret |-> NULL]

\* pop at a node, given what it makes of the node's children.
Popped(n, key, left, right) ==
  IF ~ OverlapsRecursive(n, key) THEN [tree |-> n, ret |-> NULL]
  ELSE IF left.ret # NULL
       THEN [tree |-> Balance(Updated([n EXCEPT !.left = left.tree])), ret |-> left.ret]
  ELSE IF NodeOverlaps(n, key) THEN [tree |-> Removed(n), ret |-> n]
  ELSE IF right.ret # NULL
       THEN [tree |-> Balance(Updated([n EXCEPT !.right = right.tree])), ret |-> right.ret]
  ELSE [tree |-> n, ret |-> NULL]

\* The tree without the first node that overlaps a range, and that node or NULL.
PopNode(tree, key) ==
  LET pop[n \in Trees[Height(tree)]] ==
        IF n = NULL THEN [tree |-> NULL, ret |-> NULL]
        ELSE Popped(n, key, pop[n.left], pop[n.right])
  IN  pop[tree]

EntryOf(n) == [key |-> n.key, value |-> n.value]

FindIn(tree, key) ==
  LET find[n \in Trees[Height(tree)]] ==
        IF n = NULL THEN <<>>
        ELSE IF ~ OverlapsRecursive(n, key) THEN <<>>
        ELSE find[n.left] \o (IF NodeOverlaps(n, key) THEN <<EntryOf(n)>> ELSE <<>>) \o find[n.right]
  IN  find[tree]

AllIn(tree) ==
  LET all[n \in Trees[Height(tree)]] ==
        IF n = NULL THEN <<>> ELSE all[n.left] \o <<EntryOf(n)>> \o all[n.right]
  IN  all[tree]

-----------------------------------------------------------------------------
Init == root = NULL /\ popping = None /\ results = <<>>

Insert ==
  /\ popping = None
  /\ \E e \in Entries : root' = InsertNode(root, e)
  /\ results' = <<>>
  /\ UNCHANGED popping

\* pop is called ...
StartPop ==
  /\ popping = None
  /\ popping' \in Keys
  /\ results' = <<>>
  /\ UNCHANGED root

\* ... takes out one range after the other ...
PopOne ==
  /\ popping # None
  /\ LET popped == PopNode(root, popping)
     IN  /\ popped.ret # NULL
         /\ root' = popped.tree
         /\ results' = Append(results, EntryOf(popped.ret))
  /\ UNCHANGED popping

\* ... and returns when there is none.
EndPop ==
  /\ popping # None
  /\ PopNode(root, popping).ret = NULL
  /\ popping' = None
  /\ UNCHANGED <<root, results>>

Find ==
  /\ popping = None
  /\ \E key \in Keys : results' = FindIn(root, key)
  /\ UNCHANGED <<root, popping>>

All ==
  /\ popping = None
  /\ results' = AllIn(root)
  /\ UNCHANGED <<root, popping>>

Next == Insert \/ StartPop \/ PopOne \/ EndPop \/ Find \/ All

Spec == Init /\ [][Next]_vars

-----------------------------------------------------------------------------
NodesIn(tree) ==
  LET nodes[n \in Trees[Height(tree)]] ==
        IF n = NULL THEN {} ELSE {n} \cup nodes[n.left] \cup nodes[n.right]
  IN  nodes[tree]

Contents(n) == {EntryOf(m) : m \in NodesIn(n)}

\* The tree is in the order of its keys, which occur once each.
TypeOK ==
  /\ popping \in Keys \cup {None}
  /\ results \in Seq(Entries)
  /\ Contents(root) \subseteq Entries
  /\ \A n \in NodesIn(root) :
       /\ \A m \in NodesIn(n.left) : Before(m.key, n.key)
       /\ \A m \in NodesIn(n.right) : Before(n.key, m.key)

\* Node::invariants, which the code asserts in its tests only: after any calls, in the
\* middle of a removal too, every node is balanced and knows its height and the least
\* and greatest point below it.
Invariants ==
  /\ TypeOK
  /\ \A n \in NodesIn(root) :
       LET below == NodesIn(n)
       IN  /\ BalanceFactor(n) \in {-1, 0, 1}
           /\ n.height = Greater(Height(n.left), Height(n.right)) + 1
           /\ n.lower \in {m.key[1] : m \in below} /\ \A m \in below : n.lower <= m.key[1]
           /\ n.upper \in {m.key[2] : m \in below} /\ \A m \in below : m.key[2] <= n.upper

\* insert, pop, find and all do to the tree what RangeMap does to a set of entries; what
\* a removal has taken out so far counts as still there until it returns.
Results == {results[i] : i \in 1 .. Len(results)}

Abstract == INSTANCE RangeMap WITH
  map <- Contents(root) \cup (IF popping = None THEN {} ELSE Results),
  answer <- IF popping = None THEN results ELSE <<>>

Implements == Abstract!Spec

\* Every turn of pop's loop that goes on has taken a range out of the tree, so there are
\* no more turns than ranges and pop returns.
PopShrinks ==
  [][popping # None /\ popping' # None
       => Cardinality(NodesIn(root')) < Cardinality(NodesIn(root))]_vars
=============================================================================
