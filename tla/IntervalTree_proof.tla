------------------------- MODULE IntervalTree_proof -------------------------
(***************************************************************************)
(* Proofs about IntervalTree: after any calls the tree is balanced and in  *)
(* order, and it does what a map from ranges to values does.               *)
(*                                                                         *)
(* What the operations do is proved by induction on the height of trees:   *)
(* AVL is the set of trees as they should be, Full what update() makes of  *)
(* a node.                                                                 *)
(***************************************************************************)
EXTENDS IntervalTree, SequenceTheorems, FunctionTheorems, LeastElement

-----------------------------------------------------------------------------
(* Ranges                                                                   *)

LEMMA CharIsInt == Char \subseteq Int
BY WidthAssumption DEF Char, UNICODE_MAX

\* Before is a total order.
LEMMA BeforeOrders ==
  ASSUME NEW j \in Keys, NEW k \in Keys, NEW m \in Keys
  PROVE  /\ ~ Before(k, k)
         /\ Before(j, k) => ~ Before(k, j)
         /\ Before(j, k) /\ Before(k, m) => Before(j, m)
         /\ Before(j, k) \/ Before(k, j) \/ j = k
         /\ Before(j, k) => j[1] <= k[1]
         /\ j[1] \in Int /\ j[2] \in Int /\ j[1] <= j[2]
<1>1. \A i \in Keys : i = <<i[1], i[2]>> /\ i[1] \in Int /\ i[2] \in Int /\ i[1] <= i[2]
  <2> SUFFICES ASSUME NEW i \in Keys
               PROVE  i = <<i[1], i[2]>> /\ i[1] \in Int /\ i[2] \in Int /\ i[1] <= i[2]
    OBVIOUS
  <2>1. i \in Char \X Char /\ i[1] <= i[2]
    BY MapAssumption DEF CharRanges
  <2>2. i[1] \in Char /\ i[2] \in Char /\ i = <<i[1], i[2]>>
    BY <2>1
  <2> QED BY <2>1, <2>2, CharIsInt
<1> QED BY <1>1 DEF Before

LEMMA KeyTypes ==
  ASSUME NEW k \in Keys
  PROVE  k[1] \in Char /\ k[2] \in Char /\ k # None
BY MapAssumption DEF CharRanges, None

LEMMA EntryTypes ==
  ASSUME NEW e \in Entries
  PROVE  /\ e = [key |-> e.key, value |-> e.value]
         /\ e.key \in Keys /\ e.value \in Values
BY DEF Entries, Values

-----------------------------------------------------------------------------
(* Trees                                                                    *)

\* The nodes over trees of a set.
NodesOver(below) ==
  [key : Keys, value : Values, height : Nat, lower : Char, upper : Char,
   left : below, right : below]

\* Trees is the function it is defined to be.
LEMMA TreesUnfold ==
  /\ Trees[0] = {NULL}
  /\ \A h \in Nat \ {0} : Trees[h] = {NULL} \cup NodesOver(Trees[h - 1])
<1> DEFINE Level(h, f) == IF h = 0 THEN {NULL} ELSE {NULL} \cup NodesOver(f[h - 1])
           Made(f, k) == f = [h \in 0 .. k |-> Level(h, f)]
           S == {k \in Nat : \E f : Made(f, k)}
<1>1. 0 \in S
  <2> DEFINE f == [h \in 0 .. 0 |-> {NULL}]
  <2>1. Made(f, 0)
    OBVIOUS
  <2> HIDE DEF f, Made
  <2> QED BY <2>1
<1>2. ASSUME NEW k \in Nat, k \in S PROVE k + 1 \in S
  <2>1. PICK f : Made(f, k)
    BY <1>2
  <2> DEFINE g == [h \in 0 .. k + 1 |-> Level(h, f)]
  <2>2. \A h \in 0 .. k : g[h] = f[h]
    <3>1. \A h \in 0 .. k : f[h] = Level(h, f)
      <4> HIDE DEF Level
      <4> QED BY <2>1
    <3> HIDE DEF Level
    <3> QED BY <3>1
  <2>3. \A h \in 0 .. k + 1 : Level(h, f) = Level(h, g)
    <3>1. \A h \in 0 .. k + 1 : h = 0 \/ h - 1 \in 0 .. k
      OBVIOUS
    <3> HIDE DEF g
    <3> QED BY <2>2, <3>1
  <2>4. Made(g, k + 1)
    <3> HIDE DEF Level
    <3> QED BY <2>3
  <2> HIDE DEF g, Made
  <2> QED BY <2>4
<1> HIDE DEF Made
<1>3. S = Nat
  <2> SUFFICES ASSUME Nat \ S # {} PROVE FALSE
    OBVIOUS
  <2>1. PICK k \in Nat \ S : \A m \in Nat \ S : k <= m
    <3>1. Nat \ S \subseteq Nat
      OBVIOUS
    <3> HIDE DEF S
    <3> QED BY <3>1, LeastNat
  <2>2. k # 0 /\ k - 1 \in Nat /\ k - 1 \in S
    BY <2>1, <1>1
  <2>3. k - 1 + 1 \in S
    BY <1>2, <2>2
  <2> QED BY <2>1, <2>3
<1>4. ASSUME NEW j \in Nat, NEW k \in Nat, j <= k, NEW f, NEW g, Made(f, j), Made(g, k)
      PROVE  \A h \in 0 .. j : f[h] = g[h]
  <2> DEFINE T == {h \in 0 .. j : f[h] # g[h]}
  <2> SUFFICES ASSUME T # {} PROVE FALSE
    OBVIOUS
  <2>1. PICK h \in T : \A i \in T : h <= i
    <3>1. T \subseteq Nat
      OBVIOUS
    <3> HIDE DEF T
    <3> QED BY <3>1, LeastNat
  <2>2. h \in 0 .. j /\ h \in 0 .. k
    BY <2>1, <1>4
  <2>3. f[h] = Level(h, f) /\ g[h] = Level(h, g)
    <3> HIDE DEF Level
    <3> QED BY <2>2, <1>4 DEF Made
  <2>4. h = 0 \/ f[h - 1] = g[h - 1]
    BY <2>1, <2>2
  <2> QED BY <2>1, <2>3, <2>4
<1> DEFINE some(k) == CHOOSE f : Made(f, k)
           F == [h \in Nat |-> some(h)[h]]
<1>5. \A k \in Nat : Made(some(k), k)
  BY <1>3
<1>6. F = [h \in Nat |-> Level(h, F)]
  <2>1. ASSUME NEW h \in Nat PROVE some(h)[h] = Level(h, F)
    <3>1. some(h)[h] = Level(h, some(h))
      <4>1. Made(some(h), h)
        BY <1>5
      <4> HIDE DEF Level, some
      <4> QED BY <4>1 DEF Made
    <3>2. h = 0 \/ some(h)[h - 1] = F[h - 1]
      <4> SUFFICES ASSUME h # 0 PROVE some(h)[h - 1] = F[h - 1]
        OBVIOUS
      <4>1. h - 1 \in Nat /\ h - 1 <= h /\ h - 1 \in 0 .. h - 1
        OBVIOUS
      <4>2. Made(some(h), h) /\ Made(some(h - 1), h - 1)
        BY <1>5, <4>1
      <4> HIDE DEF some
      <4>3. some(h - 1)[h - 1] = some(h)[h - 1]
        BY <1>4, <4>1, <4>2
      <4> QED BY <4>1, <4>3
    <3> HIDE DEF F, some
    <3> QED BY <3>1, <3>2
  <2> HIDE DEF some, Level
  <2> QED BY <2>1
<1>7. Trees = [h \in Nat |-> Level(h, Trees)]
  <2> DEFINE P(f) == f = [h \in Nat |-> Level(h, f)]
  <2>1. P(F)
    <3> HIDE DEF F, Level
    <3> QED BY <1>6
  <2>2. Trees = CHOOSE f : P(f)
    BY DEF Trees, NodesOver
  <2> HIDE DEF F, P
  <2>3. P(Trees)
    BY <2>1, <2>2
  <2> QED BY <2>3 DEF P
<1> QED
  <2>1. \A h \in Nat : Trees[h] = Level(h, Trees)
    <3> HIDE DEF Level
    <3> QED BY <1>7
  <2> QED BY <2>1

LEMMA NotNull ==
  ASSUME NEW below, NEW n \in NodesOver(below)
  PROVE  n # NULL
BY DEF NodesOver, NULL

\* Trees of more levels, and the subtrees of a tree.
LEMMA TreesGrow ==
  ASSUME NEW h \in Nat
  PROVE  /\ Trees[h] \subseteq Trees[h + 1]
         /\ Trees[h + 1] = {NULL} \cup NodesOver(Trees[h])
         /\ NULL \in Trees[h]
         /\ \A n \in Trees[h + 1] : n # NULL => n.left \in Trees[h] /\ n.right \in Trees[h]
<1>1. NULL \in Trees[h] /\ Trees[h + 1] = {NULL} \cup NodesOver(Trees[h])
  <2>1. h + 1 \in Nat \ {0} /\ h + 1 - 1 = h
    OBVIOUS
  <2>2. h = 0 \/ h \in Nat \ {0}
    OBVIOUS
  <2> QED BY <2>1, <2>2, TreesUnfold
<1>2. Trees[h] \subseteq Trees[h + 1]
  <2> DEFINE T == {k \in Nat : ~ (Trees[k] \subseteq Trees[k + 1])}
  <2> SUFFICES ASSUME T # {} PROVE FALSE
    OBVIOUS
  <2>1. PICK k \in T : \A m \in T : k <= m
    <3>1. T \subseteq Nat
      OBVIOUS
    <3> HIDE DEF T
    <3> QED BY <3>1, LeastNat
  <2>2. k # 0
    BY <2>1, TreesUnfold
  <2>3. k - 1 \in Nat /\ k - 1 \notin T
    BY <2>1, <2>2
  <2>4. Trees[k - 1] \subseteq Trees[k]
    BY <2>3
  <2>5. NodesOver(Trees[k - 1]) \subseteq NodesOver(Trees[k])
    BY <2>4 DEF NodesOver
  <2>6. Trees[k] = {NULL} \cup NodesOver(Trees[k - 1]) /\ Trees[k + 1] = {NULL} \cup NodesOver(Trees[k])
    BY <2>1, <2>2, TreesUnfold
  <2> QED BY <2>1, <2>5, <2>6
<1> QED BY <1>1, <1>2 DEF NodesOver

\* What recursion over trees of k levels, that is over those of k - 1 first, needs.
LEMMA Subtrees ==
  ASSUME NEW h \in Nat, NEW k \in 1 .. h
  PROVE  /\ k - 1 \in Nat
         /\ Trees[k - 1] \subseteq Trees[k]
         /\ NULL \in Trees[k - 1]
         /\ \A n \in Trees[k] : n # NULL => n.left \in Trees[k - 1] /\ n.right \in Trees[k - 1]
<1>1. k - 1 \in Nat /\ k - 1 + 1 = k
  OBVIOUS
<1> QED BY <1>1, TreesGrow

-----------------------------------------------------------------------------
(* The recursive functions: each is what its definition says at every node. *)

\* What insert does at a node is what it does below, and then to the node.
InsertedAt(n, e, left, right) ==
  Balance(Updated(
    IF Before(e.key, n.key) THEN [n EXCEPT !.left = left]
    ELSE IF Before(n.key, e.key) THEN [n EXCEPT !.right = right]
    ELSE [n EXCEPT !.value = e.value]))

LEMMA InsertRecursion ==
  ASSUME NEW tree, Height(tree) \in Nat, NEW e
  PROVE  \E f :
           /\ InsertNode(tree, e) = f[tree]
           /\ \A n \in Trees[Height(tree)] :
                f[n] = IF n = NULL THEN Updated(Node(e, NULL, NULL))
                     ELSE InsertedAt(n, e, f[n.left], f[n.right])
<1> DEFINE h == Height(tree)
           Body(n, left, right) ==
             InsertedAt(n, e, left, right)
           Made(f, k) == f = [n \in Trees[k] |-> IF n = NULL THEN Updated(Node(e, NULL, NULL)) ELSE Body(n, f[n.left], f[n.right])]
           S == {k \in 0 .. h : \E f : Made(f, k)}
<1> HIDE DEF h
<1>0. h \in Nat
  BY DEF h
<1>1. 0 \in S
  <2> DEFINE f == [n \in Trees[0] |-> Updated(Node(e, NULL, NULL))]
  <2>1. \A n \in Trees[0] : n = NULL
    BY TreesUnfold
  <2>2. Made(f, 0)
    <3> HIDE DEF Body
    <3> QED BY <2>1
  <2> HIDE DEF f, Made
  <2> QED BY <2>2, <1>0
<1>2. ASSUME NEW k \in 1 .. h, k - 1 \in S PROVE k \in S
  <2>1. PICK f : Made(f, k - 1)
    BY <1>2
  <2> DEFINE g == [n \in Trees[k] |-> IF n = NULL THEN Updated(Node(e, NULL, NULL)) ELSE Body(n, f[n.left], f[n.right])]
  <2> HIDE DEF Body
  <2>2. /\ Trees[k - 1] \subseteq Trees[k]
        /\ \A n \in Trees[k] : n # NULL => n.left \in Trees[k - 1] /\ n.right \in Trees[k - 1]
    BY <1>0, Subtrees
  <2>3. \A n \in Trees[k - 1] : f[n] = IF n = NULL THEN Updated(Node(e, NULL, NULL)) ELSE Body(n, f[n.left], f[n.right])
    BY <2>1
  <2>4. \A n \in Trees[k - 1] : g[n] = f[n]
    BY <2>2, <2>3
  <2>5. \A n \in Trees[k] : n # NULL => g[n.left] = f[n.left] /\ g[n.right] = f[n.right]
    BY <2>2, <2>4
  <2>6. Made(g, k)
    <3> DEFINE P(n, u) == IF n = NULL THEN Updated(Node(e, NULL, NULL)) ELSE Body(n, u[n.left], u[n.right])
    <3>1. \A n \in Trees[k] : P(n, f) = P(n, g)
      <4> HIDE DEF g
      <4> QED BY <2>5
    <3>2. g = [n \in Trees[k] |-> P(n, f)]
      OBVIOUS
    <3> HIDE DEF P, g
    <3>3. g = [n \in Trees[k] |-> P(n, g)]
      BY <3>1, <3>2
    <3> QED BY <3>3 DEF P
  <2> HIDE DEF g, Made
  <2>7. k \in 0 .. h
    OBVIOUS
  <2> QED BY <2>6, <2>7
<1>3. h \in S
  <2> HIDE DEF S
  <2> QED BY <1>0, <1>1, <1>2, UpTo
<1>4. PICK f : Made(f, h)
  BY <1>3
<1> DEFINE some == CHOOSE u : Made(u, h)
<1>5. Made(some, h)
  <2> HIDE DEF Made
  <2> QED BY <1>4
<1>6. InsertNode(tree, e) = some[tree]
  BY DEF InsertNode, InsertedAt, h
<1>7. \A n \in Trees[h] :
        some[n] = IF n = NULL THEN Updated(Node(e, NULL, NULL)) ELSE Body(n, some[n.left], some[n.right])
  <2> HIDE DEF some, Body
  <2> QED BY <1>5
<1> QED
  <2> HIDE DEF some
  <2> QED BY <1>6, <1>7 DEF h

\* The nodes of a tree, from its levels.
LEMMA NodesRecursion ==
  ASSUME NEW tree, Height(tree) \in Nat
  PROVE  \E f :
           /\ NodesIn(tree) = f[tree]
           /\ \A n \in Trees[Height(tree)] :
                f[n] = IF n = NULL THEN {} ELSE {n} \cup f[n.left] \cup f[n.right]
<1> DEFINE h == Height(tree)
           Body(n, left, right) ==
             {n} \cup left \cup right
           Made(f, k) == f = [n \in Trees[k] |-> IF n = NULL THEN {} ELSE Body(n, f[n.left], f[n.right])]
           S == {k \in 0 .. h : \E f : Made(f, k)}
<1> HIDE DEF h
<1>0. h \in Nat
  BY DEF h
<1>1. 0 \in S
  <2> DEFINE f == [n \in Trees[0] |-> {}]
  <2>1. \A n \in Trees[0] : n = NULL
    BY TreesUnfold
  <2>2. Made(f, 0)
    <3> HIDE DEF Body
    <3> QED BY <2>1
  <2> HIDE DEF f, Made
  <2> QED BY <2>2, <1>0
<1>2. ASSUME NEW k \in 1 .. h, k - 1 \in S PROVE k \in S
  <2>1. PICK f : Made(f, k - 1)
    BY <1>2
  <2> DEFINE g == [n \in Trees[k] |-> IF n = NULL THEN {} ELSE Body(n, f[n.left], f[n.right])]
  <2> HIDE DEF Body
  <2>2. /\ Trees[k - 1] \subseteq Trees[k]
        /\ \A n \in Trees[k] : n # NULL => n.left \in Trees[k - 1] /\ n.right \in Trees[k - 1]
    BY <1>0, Subtrees
  <2>3. \A n \in Trees[k - 1] : f[n] = IF n = NULL THEN {} ELSE Body(n, f[n.left], f[n.right])
    BY <2>1
  <2>4. \A n \in Trees[k - 1] : g[n] = f[n]
    BY <2>2, <2>3
  <2>5. \A n \in Trees[k] : n # NULL => g[n.left] = f[n.left] /\ g[n.right] = f[n.right]
    BY <2>2, <2>4
  <2>6. Made(g, k)
    <3> DEFINE P(n, u) == IF n = NULL THEN {} ELSE Body(n, u[n.left], u[n.right])
    <3>1. \A n \in Trees[k] : P(n, f) = P(n, g)
      <4> HIDE DEF g
      <4> QED BY <2>5
    <3>2. g = [n \in Trees[k] |-> P(n, f)]
      OBVIOUS
    <3> HIDE DEF P, g
    <3>3. g = [n \in Trees[k] |-> P(n, g)]
      BY <3>1, <3>2
    <3> QED BY <3>3 DEF P
  <2> HIDE DEF g, Made
  <2>7. k \in 0 .. h
    OBVIOUS
  <2> QED BY <2>6, <2>7
<1>3. h \in S
  <2> HIDE DEF S
  <2> QED BY <1>0, <1>1, <1>2, UpTo
<1>4. PICK f : Made(f, h)
  BY <1>3
<1> DEFINE some == CHOOSE u : Made(u, h)
<1>5. Made(some, h)
  <2> HIDE DEF Made
  <2> QED BY <1>4
<1>6. NodesIn(tree) = some[tree]
  BY DEF NodesIn, h
<1>7. \A n \in Trees[h] :
        some[n] = IF n = NULL THEN {} ELSE Body(n, some[n.left], some[n.right])
  <2> HIDE DEF some, Body
  <2> QED BY <1>5
<1> QED
  <2> HIDE DEF some
  <2> QED BY <1>6, <1>7 DEF h

\* What pop does at a node, from what it does at the children.
LEMMA PopRecursion ==
  ASSUME NEW tree, Height(tree) \in Nat, NEW key
  PROVE  \E f :
           /\ PopNode(tree, key) = f[tree]
           /\ \A n \in Trees[Height(tree)] :
                f[n] = IF n = NULL THEN [tree |-> NULL, ret |-> NULL]
                     ELSE Popped(n, key, f[n.left], f[n.right])
<1> DEFINE h == Height(tree)
           Body(n, left, right) ==
             Popped(n, key, left, right)
           Made(f, k) == f = [n \in Trees[k] |-> IF n = NULL THEN [tree |-> NULL, ret |-> NULL] ELSE Body(n, f[n.left], f[n.right])]
           S == {k \in 0 .. h : \E f : Made(f, k)}
<1> HIDE DEF h
<1>0. h \in Nat
  BY DEF h
<1>1. 0 \in S
  <2> DEFINE f == [n \in Trees[0] |-> [tree |-> NULL, ret |-> NULL]]
  <2>1. \A n \in Trees[0] : n = NULL
    BY TreesUnfold
  <2>2. Made(f, 0)
    <3> HIDE DEF Body
    <3> QED BY <2>1
  <2> HIDE DEF f, Made
  <2> QED BY <2>2, <1>0
<1>2. ASSUME NEW k \in 1 .. h, k - 1 \in S PROVE k \in S
  <2>1. PICK f : Made(f, k - 1)
    BY <1>2
  <2> DEFINE g == [n \in Trees[k] |-> IF n = NULL THEN [tree |-> NULL, ret |-> NULL] ELSE Body(n, f[n.left], f[n.right])]
  <2> HIDE DEF Body
  <2>2. /\ Trees[k - 1] \subseteq Trees[k]
        /\ \A n \in Trees[k] : n # NULL => n.left \in Trees[k - 1] /\ n.right \in Trees[k - 1]
    BY <1>0, Subtrees
  <2>3. \A n \in Trees[k - 1] : f[n] = IF n = NULL THEN [tree |-> NULL, ret |-> NULL] ELSE Body(n, f[n.left], f[n.right])
    BY <2>1
  <2>4. \A n \in Trees[k - 1] : g[n] = f[n]
    BY <2>2, <2>3
  <2>5. \A n \in Trees[k] : n # NULL => g[n.left] = f[n.left] /\ g[n.right] = f[n.right]
    BY <2>2, <2>4
  <2>6. Made(g, k)
    <3> DEFINE P(n, u) == IF n = NULL THEN [tree |-> NULL, ret |-> NULL] ELSE Body(n, u[n.left], u[n.right])
    <3>1. \A n \in Trees[k] : P(n, f) = P(n, g)
      <4> HIDE DEF g
      <4> QED BY <2>5
    <3>2. g = [n \in Trees[k] |-> P(n, f)]
      OBVIOUS
    <3> HIDE DEF P, g
    <3>3. g = [n \in Trees[k] |-> P(n, g)]
      BY <3>1, <3>2
    <3> QED BY <3>3 DEF P
  <2> HIDE DEF g, Made
  <2>7. k \in 0 .. h
    OBVIOUS
  <2> QED BY <2>6, <2>7
<1>3. h \in S
  <2> HIDE DEF S
  <2> QED BY <1>0, <1>1, <1>2, UpTo
<1>4. PICK f : Made(f, h)
  BY <1>3
<1> DEFINE some == CHOOSE u : Made(u, h)
<1>5. Made(some, h)
  <2> HIDE DEF Made
  <2> QED BY <1>4
<1>6. PopNode(tree, key) = some[tree]
  BY DEF PopNode, h
<1>7. \A n \in Trees[h] :
        some[n] = IF n = NULL THEN [tree |-> NULL, ret |-> NULL] ELSE Body(n, some[n.left], some[n.right])
  <2> HIDE DEF some, Body
  <2> QED BY <1>5
<1> QED
  <2> HIDE DEF some
  <2> QED BY <1>6, <1>7 DEF h

\* What find yields at a node.
LEMMA FindRecursion ==
  ASSUME NEW tree, Height(tree) \in Nat, NEW key
  PROVE  \E f :
           /\ FindIn(tree, key) = f[tree]
           /\ \A n \in Trees[Height(tree)] :
                f[n] = IF n = NULL THEN <<>>
                     ELSE IF ~ OverlapsRecursive(n, key) THEN <<>>
                     ELSE f[n.left] \o (IF NodeOverlaps(n, key) THEN <<EntryOf(n)>> ELSE <<>>) \o f[n.right]
<1> DEFINE h == Height(tree)
           Body(n, left, right) ==
             IF ~ OverlapsRecursive(n, key) THEN <<>>
             ELSE left \o (IF NodeOverlaps(n, key) THEN <<EntryOf(n)>> ELSE <<>>) \o right
           Made(f, k) == f = [n \in Trees[k] |-> IF n = NULL THEN <<>> ELSE Body(n, f[n.left], f[n.right])]
           S == {k \in 0 .. h : \E f : Made(f, k)}
<1> HIDE DEF h
<1>0. h \in Nat
  BY DEF h
<1>1. 0 \in S
  <2> DEFINE f == [n \in Trees[0] |-> <<>>]
  <2>1. \A n \in Trees[0] : n = NULL
    BY TreesUnfold
  <2>2. Made(f, 0)
    <3> HIDE DEF Body
    <3> QED BY <2>1
  <2> HIDE DEF f, Made
  <2> QED BY <2>2, <1>0
<1>2. ASSUME NEW k \in 1 .. h, k - 1 \in S PROVE k \in S
  <2>1. PICK f : Made(f, k - 1)
    BY <1>2
  <2> DEFINE g == [n \in Trees[k] |-> IF n = NULL THEN <<>> ELSE Body(n, f[n.left], f[n.right])]
  <2> HIDE DEF Body
  <2>2. /\ Trees[k - 1] \subseteq Trees[k]
        /\ \A n \in Trees[k] : n # NULL => n.left \in Trees[k - 1] /\ n.right \in Trees[k - 1]
    BY <1>0, Subtrees
  <2>3. \A n \in Trees[k - 1] : f[n] = IF n = NULL THEN <<>> ELSE Body(n, f[n.left], f[n.right])
    BY <2>1
  <2>4. \A n \in Trees[k - 1] : g[n] = f[n]
    BY <2>2, <2>3
  <2>5. \A n \in Trees[k] : n # NULL => g[n.left] = f[n.left] /\ g[n.right] = f[n.right]
    BY <2>2, <2>4
  <2>6. Made(g, k)
    <3> DEFINE P(n, u) == IF n = NULL THEN <<>> ELSE Body(n, u[n.left], u[n.right])
    <3>1. \A n \in Trees[k] : P(n, f) = P(n, g)
      <4> HIDE DEF g
      <4> QED BY <2>5
    <3>2. g = [n \in Trees[k] |-> P(n, f)]
      OBVIOUS
    <3> HIDE DEF P, g
    <3>3. g = [n \in Trees[k] |-> P(n, g)]
      BY <3>1, <3>2
    <3> QED BY <3>3 DEF P
  <2> HIDE DEF g, Made
  <2>7. k \in 0 .. h
    OBVIOUS
  <2> QED BY <2>6, <2>7
<1>3. h \in S
  <2> HIDE DEF S
  <2> QED BY <1>0, <1>1, <1>2, UpTo
<1>4. PICK f : Made(f, h)
  BY <1>3
<1> DEFINE some == CHOOSE u : Made(u, h)
<1>5. Made(some, h)
  <2> HIDE DEF Made
  <2> QED BY <1>4
<1>6. FindIn(tree, key) = some[tree]
  BY DEF FindIn, h
<1>7. \A n \in Trees[h] :
        some[n] = IF n = NULL THEN <<>> ELSE Body(n, some[n.left], some[n.right])
  <2> HIDE DEF some, Body
  <2> QED BY <1>5
<1> QED
  <2> HIDE DEF some
  <2> QED BY <1>6, <1>7 DEF h

\* What all yields at a node.
LEMMA AllRecursion ==
  ASSUME NEW tree, Height(tree) \in Nat
  PROVE  \E f :
           /\ AllIn(tree) = f[tree]
           /\ \A n \in Trees[Height(tree)] :
                f[n] = IF n = NULL THEN <<>> ELSE f[n.left] \o <<EntryOf(n)>> \o f[n.right]
<1> DEFINE h == Height(tree)
           Body(n, left, right) ==
             left \o <<EntryOf(n)>> \o right
           Made(f, k) == f = [n \in Trees[k] |-> IF n = NULL THEN <<>> ELSE Body(n, f[n.left], f[n.right])]
           S == {k \in 0 .. h : \E f : Made(f, k)}
<1> HIDE DEF h
<1>0. h \in Nat
  BY DEF h
<1>1. 0 \in S
  <2> DEFINE f == [n \in Trees[0] |-> <<>>]
  <2>1. \A n \in Trees[0] : n = NULL
    BY TreesUnfold
  <2>2. Made(f, 0)
    <3> HIDE DEF Body
    <3> QED BY <2>1
  <2> HIDE DEF f, Made
  <2> QED BY <2>2, <1>0
<1>2. ASSUME NEW k \in 1 .. h, k - 1 \in S PROVE k \in S
  <2>1. PICK f : Made(f, k - 1)
    BY <1>2
  <2> DEFINE g == [n \in Trees[k] |-> IF n = NULL THEN <<>> ELSE Body(n, f[n.left], f[n.right])]
  <2> HIDE DEF Body
  <2>2. /\ Trees[k - 1] \subseteq Trees[k]
        /\ \A n \in Trees[k] : n # NULL => n.left \in Trees[k - 1] /\ n.right \in Trees[k - 1]
    BY <1>0, Subtrees
  <2>3. \A n \in Trees[k - 1] : f[n] = IF n = NULL THEN <<>> ELSE Body(n, f[n.left], f[n.right])
    BY <2>1
  <2>4. \A n \in Trees[k - 1] : g[n] = f[n]
    BY <2>2, <2>3
  <2>5. \A n \in Trees[k] : n # NULL => g[n.left] = f[n.left] /\ g[n.right] = f[n.right]
    BY <2>2, <2>4
  <2>6. Made(g, k)
    <3> DEFINE P(n, u) == IF n = NULL THEN <<>> ELSE Body(n, u[n.left], u[n.right])
    <3>1. \A n \in Trees[k] : P(n, f) = P(n, g)
      <4> HIDE DEF g
      <4> QED BY <2>5
    <3>2. g = [n \in Trees[k] |-> P(n, f)]
      OBVIOUS
    <3> HIDE DEF P, g
    <3>3. g = [n \in Trees[k] |-> P(n, g)]
      BY <3>1, <3>2
    <3> QED BY <3>3 DEF P
  <2> HIDE DEF g, Made
  <2>7. k \in 0 .. h
    OBVIOUS
  <2> QED BY <2>6, <2>7
<1>3. h \in S
  <2> HIDE DEF S
  <2> QED BY <1>0, <1>1, <1>2, UpTo
<1>4. PICK f : Made(f, h)
  BY <1>3
<1> DEFINE some == CHOOSE u : Made(u, h)
<1>5. Made(some, h)
  <2> HIDE DEF Made
  <2> QED BY <1>4
<1>6. AllIn(tree) = some[tree]
  BY DEF AllIn, h
<1>7. \A n \in Trees[h] :
        some[n] = IF n = NULL THEN <<>> ELSE Body(n, some[n.left], some[n.right])
  <2> HIDE DEF some, Body
  <2> QED BY <1>5
<1> QED
  <2> HIDE DEF some
  <2> QED BY <1>6, <1>7 DEF h

\* What pop_min does at a node with a left child.
FirstPoppedAt(n, left) ==
  [tree |-> Balance(Updated([n EXCEPT !.left = left.tree])), ret |-> left.ret]

LEMMA PopMinRecursion ==
  ASSUME NEW tree, Height(tree) \in Nat
  PROVE  \E f :
           /\ PopMin(tree) = f[tree]
           /\ \A n \in Trees[Height(tree)] \ {NULL} :
                f[n] = IF n.left = NULL THEN [tree |-> n.right, ret |-> n]
                     ELSE FirstPoppedAt(n, f[n.left])
<1> DEFINE h == Height(tree)
           Body(n, left) ==
             FirstPoppedAt(n, left)
           Made(f, k) == f = [n \in Trees[k] \ {NULL} |-> IF n.left = NULL THEN [tree |-> n.right, ret |-> n] ELSE Body(n, f[n.left])]
           S == {k \in 0 .. h : \E f : Made(f, k)}
<1> HIDE DEF h
<1>0. h \in Nat
  BY DEF h
<1>1. 0 \in S
  <2> DEFINE f == [n \in {} |-> n]
  <2>1. Trees[0] \ {NULL} = {}
    BY TreesUnfold
  <2>2. Made(f, 0)
    <3> HIDE DEF Body
    <3> QED BY <2>1
  <2> HIDE DEF f, Made
  <2> QED BY <2>2, <1>0
<1>2. ASSUME NEW k \in 1 .. h, k - 1 \in S PROVE k \in S
  <2>1. PICK f : Made(f, k - 1)
    BY <1>2
  <2> DEFINE g == [n \in Trees[k] \ {NULL} |-> IF n.left = NULL THEN [tree |-> n.right, ret |-> n] ELSE Body(n, f[n.left])]
  <2> HIDE DEF Body
  <2>2. /\ Trees[k - 1] \subseteq Trees[k]
        /\ \A n \in Trees[k] : n # NULL => n.left \in Trees[k - 1] /\ n.right \in Trees[k - 1]
    BY <1>0, Subtrees
  <2>3. \A n \in Trees[k - 1] \ {NULL} : f[n] = IF n.left = NULL THEN [tree |-> n.right, ret |-> n] ELSE Body(n, f[n.left])
    BY <2>1
  <2>4. \A n \in Trees[k - 1] \ {NULL} : g[n] = f[n]
    BY <2>2, <2>3
  <2>5. \A n \in Trees[k] \ {NULL} : n.left = NULL \/ g[n.left] = f[n.left]
    BY <2>2, <2>4
  <2>6. Made(g, k)
    <3> DEFINE P(n, u) == IF n.left = NULL THEN [tree |-> n.right, ret |-> n] ELSE Body(n, u[n.left])
    <3>1. \A n \in Trees[k] \ {NULL} : P(n, f) = P(n, g)
      <4> HIDE DEF g
      <4> QED BY <2>5
    <3>2. g = [n \in Trees[k] \ {NULL} |-> P(n, f)]
      OBVIOUS
    <3> HIDE DEF P, g
    <3>3. g = [n \in Trees[k] \ {NULL} |-> P(n, g)]
      BY <3>1, <3>2
    <3> QED BY <3>3 DEF P
  <2> HIDE DEF g, Made
  <2>7. k \in 0 .. h
    OBVIOUS
  <2> QED BY <2>6, <2>7
<1>3. h \in S
  <2> HIDE DEF S
  <2> QED BY <1>0, <1>1, <1>2, UpTo
<1>4. PICK f : Made(f, h)
  BY <1>3
<1> DEFINE some == CHOOSE u : Made(u, h)
<1>5. Made(some, h)
  <2> HIDE DEF Made
  <2> QED BY <1>4
<1>6. PopMin(tree) = some[tree]
  BY DEF PopMin, FirstPoppedAt, h
<1>7. \A n \in Trees[h] \ {NULL} :
        some[n] = IF n.left = NULL THEN [tree |-> n.right, ret |-> n] ELSE Body(n, some[n.left])
  <2> HIDE DEF some, Body
  <2> QED BY <1>5
<1> QED
  <2> HIDE DEF some
  <2> QED BY <1>6, <1>7 DEF h

-----------------------------------------------------------------------------
(* Trees as they should be                                                  *)

Tree == UNION {Trees[h] : h \in Nat}

\* A node between its subtrees.
Local(n) ==
  /\ EntryOf(n) \in Entries
  /\ n.height = Greater(Height(n.left), Height(n.right)) + 1
  /\ BalanceFactor(n) \in {-1, 0, 1}
  /\ n.lower = (IF n.left = NULL THEN n.key[1] ELSE n.left.lower)
  /\ LET upper == IF n.right = NULL THEN n.key[2] ELSE Greater(n.key[2], n.right.upper)
     IN  n.upper = IF n.left = NULL THEN upper ELSE Greater(upper, n.left.upper)
  /\ \A e \in Contents(n.left) : Before(e.key, n.key)
  /\ \A e \in Contents(n.right) : Before(n.key, e.key)

\* Sets of trees of which all nodes are local, as are those of their subtrees.
Closed(S) == \A n \in S : n = NULL \/ (n \in NodesOver(S) /\ Local(n))

AVL == UNION {S \in SUBSET Tree : Closed(S)}

LEMMA TreesMonotone ==
  ASSUME NEW j \in Nat, NEW k \in Nat, j <= k
  PROVE  Trees[j] \subseteq Trees[k]
<1> DEFINE T == {i \in Nat : j <= i /\ ~ (Trees[j] \subseteq Trees[i])}
<1> SUFFICES ASSUME T # {} PROVE FALSE
  OBVIOUS
<1>1. PICK i \in T : \A m \in T : i <= m
  <2>1. T \subseteq Nat
    OBVIOUS
  <2> HIDE DEF T
  <2> QED BY <2>1, LeastNat
<1>2. j # i
  BY <1>1
<1>3. i - 1 \in Nat /\ j <= i - 1 /\ i - 1 \notin T /\ i - 1 + 1 = i
  BY <1>1, <1>2
<1>4. Trees[j] \subseteq Trees[i - 1]
  BY <1>3
<1>5. Trees[i - 1] \subseteq Trees[i]
  BY <1>3, TreesGrow
<1> QED BY <1>1, <1>4, <1>5

\* AVL is the least set of trees that holds the empty one and every local node over its
\* own trees.
LEMMA AVLUnfold ==
  /\ NULL \in AVL
  /\ \A n \in AVL : n = NULL \/ (n \in NodesOver(AVL) /\ Local(n))
  /\ \A n \in NodesOver(AVL) : Local(n) => n \in AVL
<1>1. NULL \in AVL
  <2>1. {NULL} \in SUBSET Tree
    BY TreesUnfold DEF Tree
  <2>2. Closed({NULL})
    BY DEF Closed
  <2> QED BY <2>1, <2>2 DEF AVL
<1>2. ASSUME NEW n \in AVL PROVE n = NULL \/ (n \in NodesOver(AVL) /\ Local(n))
  <2>1. PICK S \in SUBSET Tree : Closed(S) /\ n \in S
    BY DEF AVL
  <2>2. S \subseteq AVL
    BY <2>1 DEF AVL
  <2>3. NodesOver(S) \subseteq NodesOver(AVL)
    BY <2>2 DEF NodesOver
  <2> QED BY <2>1, <2>3 DEF Closed
<1>3. ASSUME NEW n \in NodesOver(AVL), Local(n) PROVE n \in AVL
  <2>1. AVL \subseteq Tree
    BY DEF AVL
  <2>2. n.left \in AVL /\ n.right \in AVL
    BY DEF NodesOver
  <2>3. PICK j \in Nat, k \in Nat : n.left \in Trees[j] /\ n.right \in Trees[k]
    BY <2>1, <2>2 DEF Tree
  <2> DEFINE m == IF j > k THEN j ELSE k
  <2>4. m \in Nat /\ j <= m /\ k <= m
    OBVIOUS
  <2>5. n.left \in Trees[m] /\ n.right \in Trees[m]
    BY <2>3, <2>4, TreesMonotone
  <2>6. n \in NodesOver(Trees[m])
    BY <2>5 DEF NodesOver
  <2>7. n \in Trees[m + 1]
    <3> HIDE DEF m
    <3> QED BY <2>4, <2>6, TreesGrow
  <2>8. n \in Tree
    BY <2>4, <2>7 DEF Tree
  <2>9. NodesOver(AVL) \subseteq NodesOver(AVL \cup {n})
    BY DEF NodesOver
  <2>10. Closed(AVL \cup {n})
    BY <1>2, <1>3, <2>9 DEF Closed
  <2>11. AVL \cup {n} \in SUBSET Tree
    BY <2>1, <2>8
  <2> QED BY <2>10, <2>11 DEF AVL
<1> QED BY <1>1, <1>2, <1>3

\* The types of a tree that is not empty, and of its subtrees.
LEMMA NodeTypes ==
  ASSUME NEW n \in AVL, n # NULL
  PROVE  /\ n \in NodesOver(AVL) /\ Local(n)
         /\ n.left \in AVL /\ n.right \in AVL
         /\ n.key \in Keys /\ n.value \in Values /\ EntryOf(n) \in Entries
         /\ n.lower \in Char /\ n.upper \in Char
         /\ n = [key |-> n.key, value |-> n.value, height |-> n.height, lower |-> n.lower,
                 upper |-> n.upper, left |-> n.left, right |-> n.right]
<1>1. n \in NodesOver(AVL) /\ Local(n)
  BY AVLUnfold
<1>2. n \in [key : Keys, value : Values, height : Nat, lower : Char, upper : Char,
             left : AVL, right : AVL]
  BY <1>1 DEF NodesOver
<1> QED BY <1>1, <1>2 DEF Local

LEMMA Heights ==
  ASSUME NEW n \in AVL
  PROVE  /\ Height(n) \in Nat
         /\ n = NULL <=> Height(n) = 0
         /\ n # NULL =>
              /\ Height(n.left) \in Nat /\ Height(n.right) \in Nat
              /\ Height(n.left) < Height(n) /\ Height(n.right) < Height(n)
<1>1. Height(NULL) = 0
  BY DEF Height, NULL
<1>2. \A m \in AVL : Height(m) \in Nat
  BY AVLUnfold, <1>1 DEF NodesOver, Height
<1>3. n # NULL =>
        /\ n.left \in AVL /\ n.right \in AVL
        /\ Height(n) = Greater(Height(n.left), Height(n.right)) + 1
  BY NodeTypes DEF Local, Height
<1>4. \A a, b \in Nat : Greater(a, b) \in Nat /\ a <= Greater(a, b) /\ b <= Greater(a, b)
  BY DEF Greater
<1> QED BY <1>1, <1>2, <1>3, <1>4

\* A tree has as many levels as its root says.
LEMMA Leveled ==
  ASSUME NEW n \in AVL, NEW h \in Nat, Height(n) <= h
  PROVE  n \in Trees[h]
<1> DEFINE T == {k \in Nat : \E m \in AVL : Height(m) = k /\ m \notin Trees[k]}
<1>1. T = {}
  <2> SUFFICES ASSUME T # {} PROVE FALSE
    OBVIOUS
  <2>1. PICK k \in T : \A i \in T : k <= i
    <3>1. T \subseteq Nat
      OBVIOUS
    <3> HIDE DEF T
    <3> QED BY <3>1, LeastNat
  <2>2. PICK m \in AVL : Height(m) = k /\ m \notin Trees[k]
    BY <2>1
  <2>3. m # NULL /\ k \in Nat \ {0}
    <3>1. m # NULL
      BY <2>1, <2>2, TreesGrow
    <3> QED BY <3>1, <2>1, <2>2, Heights
  <2>4. \A u \in AVL : Height(u) < k => u \in Trees[k - 1]
    <3> SUFFICES ASSUME NEW u \in AVL, Height(u) < k PROVE u \in Trees[k - 1]
      OBVIOUS
    <3>1. Height(u) \in Nat /\ k - 1 \in Nat /\ Height(u) <= k - 1
      BY Heights, <2>3
    <3>2. u \in Trees[Height(u)]
      BY <2>1, <3>1
    <3> QED BY <3>1, <3>2, TreesMonotone
  <2>5. m.left \in Trees[k - 1] /\ m.right \in Trees[k - 1]
    BY <2>2, <2>3, <2>4, Heights, NodeTypes
  <2>6. m \in NodesOver(Trees[k - 1])
    BY <2>2, <2>3, <2>5, NodeTypes DEF NodesOver
  <2> QED BY <2>2, <2>3, <2>6, TreesUnfold
<1>2. Height(n) \in Nat
  BY Heights
<1>3. n \in Trees[Height(n)]
  BY <1>1, <1>2
<1> QED BY <1>2, <1>3, TreesMonotone

\* The nodes of a tree.
LEMMA NodesUnfold ==
  /\ NodesIn(NULL) = {}
  /\ \A n \in AVL : n # NULL => NodesIn(n) = {n} \cup NodesIn(n.left) \cup NodesIn(n.right)
<1> DEFINE Is(f, t) ==
      \A n \in Trees[Height(t)] : f[n] = IF n = NULL THEN {} ELSE {n} \cup f[n.left] \cup f[n.right]
<1>0. \A t \in AVL : \E f : NodesIn(t) = f[t] /\ Is(f, t)
  BY NodesRecursion, Heights
\* Functions for two trees agree on what is in both of them.
<1>1. ASSUME NEW s \in AVL, NEW t \in AVL, NEW f, NEW g, Is(f, s), Is(g, t),
             Height(s) <= Height(t)
      PROVE  \A n \in AVL : Height(n) <= Height(s) => f[n] = g[n]
  <2> DEFINE T == {k \in Nat : k <= Height(s) /\ \E n \in AVL : Height(n) = k /\ f[n] # g[n]}
  <2>1. T = {}
    <3> SUFFICES ASSUME T # {} PROVE FALSE
      OBVIOUS
    <3>1. PICK k \in T : \A i \in T : k <= i
      <4>1. T \subseteq Nat
        OBVIOUS
      <4> HIDE DEF T
      <4> QED BY <4>1, LeastNat
    <3>2. PICK n \in AVL : Height(n) = k /\ f[n] # g[n]
      BY <3>1
    <3>3. Height(s) \in Nat /\ Height(t) \in Nat /\ k <= Height(s) /\ k <= Height(t)
      BY <3>1, <1>1, Heights
    <3>4. n \in Trees[Height(s)] /\ n \in Trees[Height(t)]
      BY <3>2, <3>3, Leveled
    <3>5. n # NULL
      BY <3>2, <3>4, <1>1
    <3>6. \A u \in AVL : Height(u) < k => f[u] = g[u]
      BY <3>1, <3>3, Heights
    <3>7. f[n.left] = g[n.left] /\ f[n.right] = g[n.right]
      BY <3>2, <3>5, <3>6, Heights, NodeTypes
    <3>8. f[n] = {n} \cup f[n.left] \cup f[n.right]
      BY <3>4, <3>5, <1>1
    <3>9. g[n] = {n} \cup g[n.left] \cup g[n.right]
      BY <3>4, <3>5, <1>1
    <3> QED BY <3>2, <3>7, <3>8, <3>9
  <2> QED BY <2>1, Heights
<1>2. NodesIn(NULL) = {}
  <2>1. PICK f : NodesIn(NULL) = f[NULL] /\ Is(f, NULL)
    BY <1>0, AVLUnfold
  <2>2. NULL \in Trees[Height(NULL)]
    BY AVLUnfold, Leveled, Heights
  <2> QED BY <2>1, <2>2
<1>3. ASSUME NEW n \in AVL, n # NULL
      PROVE  NodesIn(n) = {n} \cup NodesIn(n.left) \cup NodesIn(n.right)
  <2>1. PICK f : NodesIn(n) = f[n] /\ Is(f, n)
    BY <1>0
  <2>2. n \in Trees[Height(n)]
    BY Leveled, Heights
  <2>3. ASSUME NEW u \in AVL, Height(u) <= Height(n) PROVE NodesIn(u) = f[u]
    <3>1. PICK g : NodesIn(u) = g[u] /\ Is(g, u)
      BY <1>0
    <3>2. Height(u) <= Height(u)
      BY Heights
    <3> HIDE DEF Is
    <3> QED BY <1>1, <2>1, <2>3, <3>1, <3>2
  <2>4. NodesIn(n.left) = f[n.left] /\ NodesIn(n.right) = f[n.right]
    BY <1>3, <2>3, Heights, NodeTypes
  <2> QED BY <1>3, <2>1, <2>2, <2>4
<1> QED BY <1>2, <1>3

\* Induction over trees.
LEMMA TreeInduction ==
  ASSUME NEW S, NULL \in S,
         \A n \in AVL \ {NULL} : n.left \in S /\ n.right \in S => n \in S
  PROVE  AVL \subseteq S
<1> DEFINE T == {k \in Nat : \E n \in AVL : Height(n) = k /\ n \notin S}
<1>1. T = {}
  <2> SUFFICES ASSUME T # {} PROVE FALSE
    OBVIOUS
  <2>1. PICK k \in T : \A i \in T : k <= i
    <3>1. T \subseteq Nat
      OBVIOUS
    <3> HIDE DEF T
    <3> QED BY <3>1, LeastNat
  <2>2. PICK n \in AVL : Height(n) = k /\ n \notin S
    BY <2>1
  <2>3. n # NULL
    BY <2>2
  <2>4. \A u \in AVL : Height(u) < k => u \in S
    BY <2>1, Heights
  <2>5. n.left \in S /\ n.right \in S
    BY <2>2, <2>3, <2>4, Heights, NodeTypes
  <2> QED BY <2>2, <2>3, <2>5
<1> QED BY <1>1, Heights

\* Of what a tree contains, too, one may speak node by node.
LEMMA ContentsUnfold ==
  /\ Contents(NULL) = {}
  /\ \A n \in AVL : n # NULL =>
       Contents(n) = Contents(n.left) \cup {EntryOf(n)} \cup Contents(n.right)
BY NodesUnfold DEF Contents

LEMMA ContentsTypes ==
  \A n \in AVL : /\ NodesIn(n) \subseteq AVL \ {NULL}
                 /\ Contents(n) \subseteq Entries
                 /\ IsFiniteSet(NodesIn(n)) /\ IsFiniteSet(Contents(n))
<1> DEFINE S == {n \in AVL : /\ NodesIn(n) \subseteq AVL \ {NULL}
                             /\ Contents(n) \subseteq Entries
                             /\ IsFiniteSet(NodesIn(n)) /\ IsFiniteSet(Contents(n))}
<1>1. NULL \in S
  BY AVLUnfold, NodesUnfold, ContentsUnfold, FS_EmptySet
<1>2. ASSUME NEW n \in AVL \ {NULL}, n.left \in S, n.right \in S PROVE n \in S
  <2>1. /\ NodesIn(n) = {n} \cup NodesIn(n.left) \cup NodesIn(n.right)
        /\ Contents(n) = Contents(n.left) \cup {EntryOf(n)} \cup Contents(n.right)
        /\ EntryOf(n) \in Entries
    BY NodesUnfold, ContentsUnfold, NodeTypes
  <2>2. IsFiniteSet({n}) /\ IsFiniteSet({EntryOf(n)})
    BY FS_Singleton
  <2>3. IsFiniteSet({n} \cup NodesIn(n.left)) /\ IsFiniteSet(Contents(n.left) \cup {EntryOf(n)})
    BY <1>2, <2>2, FS_Union
  <2>4. IsFiniteSet(NodesIn(n.right)) /\ IsFiniteSet(Contents(n.right))
    BY <1>2
  <2>5. IsFiniteSet(({n} \cup NodesIn(n.left)) \cup NodesIn(n.right))
    BY <2>3, <2>4, FS_Union
  <2>6. IsFiniteSet((Contents(n.left) \cup {EntryOf(n)}) \cup Contents(n.right))
    BY <2>3, <2>4, FS_Union
  <2> QED BY <1>2, <2>1, <2>5, <2>6
<1>3. AVL \subseteq S
  <2> HIDE DEF S
  <2> QED BY <1>1, <1>2, TreeInduction
<1> QED BY <1>3

-----------------------------------------------------------------------------
(* update()                                                                 *)

\* A node that is up to date.
Full(e, l, r) == Updated(Node(e, l, r))

IsNode(n) ==
  n = [key |-> n.key, value |-> n.value, height |-> n.height, lower |-> n.lower,
       upper |-> n.upper, left |-> n.left, right |-> n.right]

\* What update() sets.
LEMMA Assigned ==
  ASSUME NEW n, IsNode(n), NEW h, NEW lo, NEW up
  PROVE  [n EXCEPT !.height = h, !.lower = lo, !.upper = up]
           = [key |-> n.key, value |-> n.value, height |-> h, lower |-> lo, upper |-> up,
              left |-> n.left, right |-> n.right]
<1>0. ASSUME NEW m, IsNode(m), NEW x
      PROVE  /\ [m EXCEPT !.height = x]
                  = [key |-> m.key, value |-> m.value, height |-> x, lower |-> m.lower,
                     upper |-> m.upper, left |-> m.left, right |-> m.right]
             /\ [m EXCEPT !.lower = x]
                  = [key |-> m.key, value |-> m.value, height |-> m.height, lower |-> x,
                     upper |-> m.upper, left |-> m.left, right |-> m.right]
             /\ [m EXCEPT !.upper = x]
                  = [key |-> m.key, value |-> m.value, height |-> m.height, lower |-> m.lower,
                     upper |-> x, left |-> m.left, right |-> m.right]
  BY <1>0 DEF IsNode
<1> DEFINE a == [n EXCEPT !.height = h]
           b == [a EXCEPT !.lower = lo]
<1>1. a = [key |-> n.key, value |-> n.value, height |-> h, lower |-> n.lower, upper |-> n.upper,
           left |-> n.left, right |-> n.right]
  BY <1>0
<1>2. b = [a EXCEPT !.lower = lo]
  OBVIOUS
<1>3. [n EXCEPT !.height = h, !.lower = lo, !.upper = up] = [b EXCEPT !.upper = up]
  OBVIOUS
<1> HIDE DEF a, b
<1>4. IsNode(a)
  BY <1>1 DEF IsNode
<1>5. b = [key |-> n.key, value |-> n.value, height |-> h, lower |-> lo, upper |-> n.upper,
           left |-> n.left, right |-> n.right]
  BY <1>0, <1>1, <1>2, <1>4
<1>6. IsNode(b)
  BY <1>5 DEF IsNode
<1>7. [b EXCEPT !.upper = up]
        = [key |-> b.key, value |-> b.value, height |-> b.height, lower |-> b.lower,
           upper |-> up, left |-> b.left, right |-> b.right]
  BY <1>0, <1>6
<1>8. /\ b.key = n.key /\ b.value = n.value /\ b.height = h /\ b.lower = lo
      /\ b.left = n.left /\ b.right = n.right
  BY <1>5
<1> QED BY <1>3, <1>7, <1>8

NewHeight(l, r) ==
  IF l = NULL /\ r = NULL THEN 1
  ELSE IF l = NULL \/ r = NULL THEN 2
  ELSE Greater(l.height, r.height) + 1
NewLower(k, l) == IF l = NULL THEN k[1] ELSE l.lower
NewUpper(k, l, r) ==
  LET upper == IF r = NULL THEN k[2] ELSE Greater(k[2], r.upper)
  IN  IF l = NULL THEN upper ELSE Greater(upper, l.upper)

LEMMA UpdatedFields ==
  ASSUME NEW n, IsNode(n)
  PROVE  Updated(n) =
           [key |-> n.key, value |-> n.value, height |-> NewHeight(n.left, n.right),
            lower |-> NewLower(n.key, n.left), upper |-> NewUpper(n.key, n.left, n.right),
            left |-> n.left, right |-> n.right]
<1> DEFINE h == NewHeight(n.left, n.right)
           lo == NewLower(n.key, n.left)
           up == NewUpper(n.key, n.left, n.right)
<1>1. Updated(n) = [n EXCEPT !.height = h, !.lower = lo, !.upper = up]
  BY DEF Updated, NewHeight, NewLower, NewUpper
<1> HIDE DEF h, lo, up
<1>2. Updated(n) = [key |-> n.key, value |-> n.value, height |-> h, lower |-> lo, upper |-> up,
                    left |-> n.left, right |-> n.right]
  BY <1>1, Assigned
<1> QED BY <1>2 DEF h, lo, up

\* update() looks at the key and at the subtrees only.
LEMMA UpdatedIsFull ==
  ASSUME NEW n, IsNode(n)
  PROVE  Updated(n) = Full(EntryOf(n), n.left, n.right)
<1> DEFINE m == Node(EntryOf(n), n.left, n.right)
<1>1. IsNode(m) /\ m.key = n.key /\ m.value = n.value /\ m.left = n.left /\ m.right = n.right
  BY DEF IsNode, Node, EntryOf
<1> HIDE DEF m
<1> QED BY <1>1, UpdatedFields DEF Full, m

LEMMA FullFields ==
  ASSUME NEW e, NEW l, NEW r
  PROVE  LET n == Full(e, l, r)
             upper == IF r = NULL THEN e.key[2] ELSE Greater(e.key[2], r.upper)
         IN  /\ IsNode(n) /\ n # NULL
             /\ n.key = e.key /\ n.value = e.value /\ n.left = l /\ n.right = r
             /\ n.height = IF l = NULL /\ r = NULL THEN 1
                           ELSE IF l = NULL \/ r = NULL THEN 2
                           ELSE Greater(l.height, r.height) + 1
             /\ n.lower = (IF l = NULL THEN e.key[1] ELSE l.lower)
             /\ n.upper = (IF l = NULL THEN upper ELSE Greater(upper, l.upper))
             /\ EntryOf(n) = [key |-> e.key, value |-> e.value]
<1> DEFINE m == Node(e, l, r)
<1>1. IsNode(m) /\ m.key = e.key /\ m.value = e.value /\ m.left = l /\ m.right = r
  BY DEF IsNode, Node
<1> HIDE DEF m
<1>2. Full(e, l, r) = [key |-> e.key, value |-> e.value, height |-> NewHeight(l, r),
                       lower |-> NewLower(e.key, l), upper |-> NewUpper(e.key, l, r),
                       left |-> l, right |-> r]
  BY <1>1, UpdatedFields DEF Full, m
<1> DEFINE h == NewHeight(l, r)
           lo == NewLower(e.key, l)
           up == NewUpper(e.key, l, r)
<1> HIDE DEF h, lo, up
<1>3. Full(e, l, r) = [key |-> e.key, value |-> e.value, height |-> h, lower |-> lo, upper |-> up,
                       left |-> l, right |-> r]
  BY <1>2 DEF h, lo, up
<1>4. Full(e, l, r) # NULL /\ IsNode(Full(e, l, r))
  BY <1>3 DEF NULL, IsNode
<1> QED BY <1>3, <1>4 DEF h, lo, up, NewHeight, NewLower, NewUpper, EntryOf

WithLeft(n, x) == [n EXCEPT !.left = x]
WithRight(n, x) == [n EXCEPT !.right = x]

LEMMA Changed ==
  ASSUME NEW n, IsNode(n), NEW x
  PROVE  /\ IsNode(WithLeft(n, x)) /\ EntryOf(WithLeft(n, x)) = EntryOf(n)
         /\ WithLeft(n, x).left = x /\ WithLeft(n, x).right = n.right
         /\ IsNode(WithRight(n, x)) /\ EntryOf(WithRight(n, x)) = EntryOf(n)
         /\ WithRight(n, x).left = n.left /\ WithRight(n, x).right = x
<1>1. /\ IsNode(WithLeft(n, x)) /\ EntryOf(WithLeft(n, x)) = EntryOf(n)
      /\ WithLeft(n, x).left = x /\ WithLeft(n, x).right = n.right
  BY DEF IsNode, EntryOf, WithLeft
<1>2. /\ IsNode(WithRight(n, x)) /\ EntryOf(WithRight(n, x)) = EntryOf(n)
      /\ WithRight(n, x).left = n.left /\ WithRight(n, x).right = x
  BY DEF IsNode, EntryOf, WithRight
<1> QED BY <1>1, <1>2

\* What comes before a range, and what comes after it.
AllBefore(S, k) == \A x \in S : Before(x.key, k)
AllAfter(S, k) == \A x \in S : Before(k, x.key)

\* A node over trees of about the same height is as it should be.
LEMMA FullIsAVL ==
  ASSUME NEW e \in Entries, NEW l \in AVL, NEW r \in AVL,
         Height(r) - Height(l) \in {-1, 0, 1},
         AllBefore(Contents(l), e.key), AllAfter(Contents(r), e.key)
  PROVE  LET n == Full(e, l, r)
         IN  /\ n \in AVL /\ n # NULL
             /\ Height(n) = Greater(Height(l), Height(r)) + 1
             /\ Contents(n) = Contents(l) \cup {e} \cup Contents(r)
<1> DEFINE n == Full(e, l, r)
           upper == IF r = NULL THEN e.key[2] ELSE Greater(e.key[2], r.upper)
<1>1. /\ IsNode(n) /\ n # NULL
      /\ n.key = e.key /\ n.value = e.value /\ n.left = l /\ n.right = r
      /\ n.height = IF l = NULL /\ r = NULL THEN 1
                    ELSE IF l = NULL \/ r = NULL THEN 2
                    ELSE Greater(l.height, r.height) + 1
      /\ n.lower = (IF l = NULL THEN e.key[1] ELSE l.lower)
      /\ n.upper = (IF l = NULL THEN upper ELSE Greater(upper, l.upper))
      /\ EntryOf(n) = e
  BY FullFields, EntryTypes
<1> HIDE DEF n
<1>2. /\ Height(l) \in Nat /\ Height(r) \in Nat
      /\ l = NULL <=> Height(l) = 0
      /\ r = NULL <=> Height(r) = 0
  BY Heights
<1>3. n.height = Greater(Height(l), Height(r)) + 1 /\ n.height \in Nat
  <2>1. n.height = IF Height(l) = 0 /\ Height(r) = 0 THEN 1
                   ELSE IF Height(l) = 0 \/ Height(r) = 0 THEN 2
                   ELSE Greater(Height(l), Height(r)) + 1
    BY <1>1, <1>2 DEF Height
  <2> QED BY <1>2, <2>1 DEF Greater
<1>4. \A a, b \in Char : Greater(a, b) \in Char
  BY DEF Greater
<1>5. n.lower \in Char /\ n.upper \in Char
  <2>1. e.key[1] \in Char /\ e.key[2] \in Char
    BY EntryTypes, KeyTypes
  <2>2. (l = NULL \/ (l.lower \in Char /\ l.upper \in Char)) /\ (r = NULL \/ r.upper \in Char)
    BY NodeTypes
  <2> QED BY <1>1, <1>4, <2>1, <2>2
<1>6. n \in NodesOver(AVL)
  BY <1>1, <1>3, <1>5, EntryTypes DEF IsNode, NodesOver
<1>7. Local(n)
  <2>1. BalanceFactor(n) \in {-1, 0, 1}
    BY <1>1 DEF BalanceFactor
  <2> QED BY <1>1, <1>3, <2>1 DEF Local, AllBefore, AllAfter
<1>8. n \in AVL
  BY <1>6, <1>7, AVLUnfold
<1>9. Contents(n) = Contents(l) \cup {e} \cup Contents(r)
  BY <1>1, <1>8, ContentsUnfold
<1> QED BY <1>1, <1>3, <1>8, <1>9 DEF n, Height

-----------------------------------------------------------------------------
(* balance()                                                                *)

\* What is known of a tree that is not empty.
LEMMA Parts ==
  ASSUME NEW n \in AVL, n # NULL
  PROVE  /\ n.left \in AVL /\ n.right \in AVL /\ EntryOf(n) \in Entries /\ EntryOf(n).key = n.key
         /\ n.key \in Keys
         /\ Contents(n) = Contents(n.left) \cup {EntryOf(n)} \cup Contents(n.right)
         /\ AllBefore(Contents(n.left), n.key) /\ AllAfter(Contents(n.right), n.key)
         /\ Height(n.left) \in Nat /\ Height(n.right) \in Nat
         /\ Height(n) = Greater(Height(n.left), Height(n.right)) + 1
         /\ Height(n.right) - Height(n.left) \in {-1, 0, 1}
         /\ IsNode(n) /\ n = Full(EntryOf(n), n.left, n.right)
<1>1. IsNode(n) /\ EntryOf(n).key = n.key /\ EntryOf(n).value = n.value
  BY NodeTypes DEF IsNode, EntryOf
<1>2. /\ n.height = Greater(Height(n.left), Height(n.right)) + 1
      /\ BalanceFactor(n) \in {-1, 0, 1}
      /\ n.lower = NewLower(n.key, n.left)
      /\ n.upper = NewUpper(n.key, n.left, n.right)
  BY NodeTypes DEF Local, NewLower, NewUpper
<1>3. /\ n.left \in AVL /\ n.right \in AVL /\ EntryOf(n) \in Entries /\ n.key \in Keys
      /\ AllBefore(Contents(n.left), n.key) /\ AllAfter(Contents(n.right), n.key)
  BY NodeTypes DEF Local, AllBefore, AllAfter
<1>4. /\ Height(n.left) \in Nat /\ Height(n.right) \in Nat
      /\ n.left = NULL <=> Height(n.left) = 0
      /\ n.right = NULL <=> Height(n.right) = 0
  BY <1>3, Heights
<1>5. Height(n.right) - Height(n.left) \in {-1, 0, 1}
  BY <1>2 DEF BalanceFactor
<1>6. n.height = NewHeight(n.left, n.right)
  <2>1. NewHeight(n.left, n.right) =
          IF Height(n.left) = 0 /\ Height(n.right) = 0 THEN 1
          ELSE IF Height(n.left) = 0 \/ Height(n.right) = 0 THEN 2
          ELSE Greater(Height(n.left), Height(n.right)) + 1
    BY <1>4 DEF NewHeight, Height
  <2> QED BY <1>2, <1>4, <1>5, <2>1 DEF Greater
<1>7. n = Full(EntryOf(n), n.left, n.right)
  <2>1. Updated(n) = n
    BY <1>1, <1>2, <1>6, UpdatedFields DEF IsNode
  <2> QED BY <1>1, <2>1, UpdatedIsFull
<1> QED BY <1>1, <1>2, <1>3, <1>4, <1>5, <1>7, ContentsUnfold DEF Height

LEMMA Rotations ==
  ASSUME NEW n, IsNode(n)
  PROVE  /\ IsNode(n.left) =>
              RotateCw(n) = Full(EntryOf(n.left), n.left.left, Full(EntryOf(n), n.left.right, n.right))
         /\ IsNode(n.right) =>
              RotateCcw(n) = Full(EntryOf(n.right), Full(EntryOf(n), n.left, n.right.left), n.right.right)
<1>1. ASSUME IsNode(n.left)
      PROVE  RotateCw(n) = Full(EntryOf(n.left), n.left.left, Full(EntryOf(n), n.left.right, n.right))
  <2> DEFINE w == n.left.right
             inner == WithLeft(n, w)
             outer == WithRight(n.left, Updated(inner))
  <2> HIDE DEF w
  <2>1. IsNode(inner) /\ EntryOf(inner) = EntryOf(n) /\ inner.left = w /\ inner.right = n.right
    BY Changed
  <2>2. Updated(inner) = Full(EntryOf(n), w, n.right)
    <3> HIDE DEF inner
    <3> QED BY <2>1, UpdatedIsFull
  <2>3. IsNode(outer) /\ EntryOf(outer) = EntryOf(n.left) /\ outer.left = n.left.left
        /\ outer.right = Updated(inner)
    <3> HIDE DEF inner
    <3> QED BY <1>1, Changed
  <2>4. Updated(outer) = Full(EntryOf(n.left), n.left.left, Updated(inner))
    <3> HIDE DEF inner, outer
    <3> QED BY <2>3, UpdatedIsFull
  <2> QED BY <2>2, <2>4 DEF RotateCw, w, WithLeft, WithRight
<1>2. ASSUME IsNode(n.right)
      PROVE  RotateCcw(n) = Full(EntryOf(n.right), Full(EntryOf(n), n.left, n.right.left), n.right.right)
  <2> DEFINE w == n.right.left
             inner == WithRight(n, w)
             outer == WithLeft(n.right, Updated(inner))
  <2> HIDE DEF w
  <2>1. IsNode(inner) /\ EntryOf(inner) = EntryOf(n) /\ inner.left = n.left /\ inner.right = w
    BY Changed
  <2>2. Updated(inner) = Full(EntryOf(n), n.left, w)
    <3> HIDE DEF inner
    <3> QED BY <2>1, UpdatedIsFull
  <2>3. IsNode(outer) /\ EntryOf(outer) = EntryOf(n.right) /\ outer.left = Updated(inner)
        /\ outer.right = n.right.right
    <3> HIDE DEF inner
    <3> QED BY <1>2, Changed
  <2>4. Updated(outer) = Full(EntryOf(n.right), Updated(inner), n.right.right)
    <3> HIDE DEF inner, outer
    <3> QED BY <2>3, UpdatedIsFull
  <2> QED BY <2>2, <2>4 DEF RotateCcw, w, WithLeft, WithRight
<1> QED BY <1>1, <1>2

LEMMA Transitive ==
  ASSUME NEW S \in SUBSET Entries, NEW j \in Keys, NEW k \in Keys, Before(j, k)
  PROVE  /\ AllBefore(S, j) => AllBefore(S, k)
         /\ AllAfter(S, k) => AllAfter(S, j)
<1>1. \A x \in S : x.key \in Keys
  BY EntryTypes
<1> QED BY <1>1, BeforeOrders DEF AllBefore, AllAfter

\* What becomes of a node whose left tree is two levels higher than its right one.
LEMMA RightRotation ==
  ASSUME NEW e \in Entries, NEW l \in AVL, NEW r \in AVL, l # NULL,
         Height(l) = Height(r) + 2,
         AllBefore(Contents(l), e.key), AllAfter(Contents(r), e.key)
  PROVE  /\ Height(l.right) <= Height(l.left) =>
              LET b == Full(EntryOf(l), l.left, Full(e, l.right, r))
              IN  /\ b \in AVL /\ b # NULL
                  /\ Height(b) \in {Height(l), Height(l) + 1}
                  /\ Contents(b) = Contents(l) \cup {e} \cup Contents(r)
         /\ Height(l.right) > Height(l.left) =>
              LET b == Full(EntryOf(l.right), Full(EntryOf(l), l.left, l.right.left),
                            Full(e, l.right.right, r))
              IN  /\ l.right # NULL
                  /\ b \in AVL /\ b # NULL
                  /\ Height(b) \in {Height(l), Height(l) + 1}
                  /\ Contents(b) = Contents(l) \cup {e} \cup Contents(r)
<1> DEFINE p == EntryOf(l)
           a == l.left
           c == l.right
<1>1. /\ a \in AVL /\ c \in AVL /\ p \in Entries /\ p.key \in Keys /\ e.key \in Keys
      /\ Contents(l) = Contents(a) \cup {p} \cup Contents(c)
      /\ AllBefore(Contents(a), p.key) /\ AllAfter(Contents(c), p.key)
      /\ Height(a) \in Nat /\ Height(c) \in Nat /\ Height(r) \in Nat
      /\ Height(l) = Greater(Height(a), Height(c)) + 1
      /\ Height(c) - Height(a) \in {-1, 0, 1}
  BY Parts, Heights, EntryTypes
<1> HIDE DEF p, a, c
<1>2. Before(p.key, e.key) /\ AllBefore(Contents(c), e.key)
  BY <1>1 DEF AllBefore
<1>3. Contents(r) \in SUBSET Entries /\ Contents(a) \in SUBSET Entries /\ Contents(c) \in SUBSET Entries
  BY <1>1, ContentsTypes
<1>4. AllAfter(Contents(r), p.key)
  BY <1>1, <1>2, <1>3, Transitive
<1>5. ASSUME Height(c) <= Height(a)
      PROVE  LET b == Full(p, a, Full(e, c, r))
             IN  /\ b \in AVL /\ b # NULL
                 /\ Height(b) \in {Height(l), Height(l) + 1}
                 /\ Contents(b) = Contents(l) \cup {e} \cup Contents(r)
  <2> DEFINE d == Full(e, c, r)
  <2>1. /\ Height(a) = Height(r) + 1 /\ Height(c) \in {Height(r), Height(r) + 1}
    BY <1>1, <1>5 DEF Greater
  <2>2. /\ d \in AVL
        /\ Height(d) = Height(c) + 1
        /\ Contents(d) = Contents(c) \cup {e} \cup Contents(r)
    <3>1. Height(r) - Height(c) \in {-1, 0, 1} /\ Greater(Height(c), Height(r)) = Height(c)
      BY <1>1, <2>1 DEF Greater
    <3> QED BY <1>1, <1>2, <3>1, FullIsAVL
  <2> HIDE DEF d
  <2>3. AllAfter(Contents(d), p.key)
    BY <1>1, <1>2, <1>4, <2>2 DEF AllAfter
  <2>4. Height(d) - Height(a) \in {-1, 0, 1} /\ Greater(Height(a), Height(d)) + 1 \in {Height(l), Height(l) + 1}
    BY <1>1, <2>1, <2>2 DEF Greater
  <2>5. LET b == Full(p, a, d)
        IN  /\ b \in AVL /\ b # NULL
            /\ Height(b) \in {Height(l), Height(l) + 1}
            /\ Contents(b) = Contents(a) \cup {p} \cup Contents(d)
    <3>1. LET b == Full(p, a, d)
          IN  /\ b \in AVL /\ b # NULL
              /\ Height(b) = Greater(Height(a), Height(d)) + 1
              /\ Contents(b) = Contents(a) \cup {p} \cup Contents(d)
      <4>1. /\ p \in Entries /\ a \in AVL /\ d \in AVL
            /\ Height(d) - Height(a) \in {-1, 0, 1}
            /\ AllBefore(Contents(a), p.key) /\ AllAfter(Contents(d), p.key)
        BY <1>1, <2>2, <2>3, <2>4
      <4> QED BY ONLY <4>1, FullIsAVL
    <3> QED BY <2>4, <3>1
  <2> QED BY <1>1, <2>2, <2>5 DEF d
<1>6. ASSUME Height(c) > Height(a)
      PROVE  LET b == Full(EntryOf(c), Full(p, a, c.left), Full(e, c.right, r))
             IN  /\ c # NULL
                 /\ b \in AVL /\ b # NULL
                 /\ Height(b) \in {Height(l), Height(l) + 1}
                 /\ Contents(b) = Contents(l) \cup {e} \cup Contents(r)
  <2> DEFINE q == EntryOf(c)
             u == c.left
             v == c.right
  <2>0. c # NULL
    BY <1>1, <1>6, Heights
  <2>1. /\ u \in AVL /\ v \in AVL /\ q \in Entries /\ q.key \in Keys
        /\ Contents(c) = Contents(u) \cup {q} \cup Contents(v)
        /\ AllBefore(Contents(u), q.key) /\ AllAfter(Contents(v), q.key)
        /\ Height(u) \in Nat /\ Height(v) \in Nat
        /\ Height(c) = Greater(Height(u), Height(v)) + 1
        /\ Height(v) - Height(u) \in {-1, 0, 1}
    BY <1>1, <2>0, Parts
  <2> HIDE DEF q, u, v
  <2>2. Before(p.key, q.key) /\ Before(q.key, e.key)
    BY <1>1, <1>2, <2>1 DEF AllBefore, AllAfter
  <2>3. AllAfter(Contents(u), p.key) /\ AllBefore(Contents(v), e.key)
    BY <1>1, <1>2, <2>1 DEF AllBefore, AllAfter
  <2>4. AllBefore(Contents(a), q.key) /\ AllAfter(Contents(r), q.key)
    BY <1>1, <1>3, <2>1, <2>2, Transitive
  <2>5. /\ Height(a) = Height(r) /\ Height(c) = Height(r) + 1
        /\ Height(u) \in {Height(r) - 1, Height(r)} /\ Height(v) \in {Height(r) - 1, Height(r)}
    BY <1>1, <1>6, <2>1 DEF Greater
  <2> DEFINE x == Full(p, a, u)
             y == Full(e, v, r)
  <2>6. /\ x \in AVL
        /\ Height(x) = Height(r) + 1
        /\ Contents(x) = Contents(a) \cup {p} \cup Contents(u)
    <3>1. Height(u) - Height(a) \in {-1, 0, 1} /\ Greater(Height(a), Height(u)) = Height(r)
      BY <1>1, <2>1, <2>5 DEF Greater
    <3> QED BY <1>1, <2>1, <2>3, <3>1, FullIsAVL
  <2>7. /\ y \in AVL
        /\ Height(y) = Height(r) + 1
        /\ Contents(y) = Contents(v) \cup {e} \cup Contents(r)
    <3>1. Height(r) - Height(v) \in {-1, 0, 1} /\ Greater(Height(v), Height(r)) = Height(r)
      BY <1>1, <2>1, <2>5 DEF Greater
    <3> QED BY <1>1, <2>1, <2>3, <3>1, FullIsAVL
  <2> HIDE DEF x, y
  <2>8. AllBefore(Contents(x), q.key) /\ AllAfter(Contents(y), q.key)
    BY <2>1, <2>2, <2>4, <2>6, <2>7 DEF AllBefore, AllAfter
  <2>9. Height(y) - Height(x) \in {-1, 0, 1} /\ Greater(Height(x), Height(y)) + 1 \in {Height(l), Height(l) + 1}
    BY <1>1, <2>6, <2>7 DEF Greater
  <2>10. LET b == Full(q, x, y)
         IN  /\ b \in AVL /\ b # NULL
             /\ Height(b) \in {Height(l), Height(l) + 1}
             /\ Contents(b) = Contents(x) \cup {q} \cup Contents(y)
    <3>1. LET b == Full(q, x, y)
          IN  /\ b \in AVL /\ b # NULL
              /\ Height(b) = Greater(Height(x), Height(y)) + 1
              /\ Contents(b) = Contents(x) \cup {q} \cup Contents(y)
      <4>1. /\ q \in Entries /\ x \in AVL /\ y \in AVL
            /\ Height(y) - Height(x) \in {-1, 0, 1}
            /\ AllBefore(Contents(x), q.key) /\ AllAfter(Contents(y), q.key)
        BY <2>1, <2>6, <2>7, <2>8, <2>9
      <4> QED BY ONLY <4>1, FullIsAVL
    <3> QED BY <2>9, <3>1
  <2> QED BY <1>1, <2>0, <2>1, <2>6, <2>7, <2>10 DEF q, u, v, x, y
<1> QED BY <1>5, <1>6 DEF p, a, c

\* And of one whose right tree is.
LEMMA LeftRotation ==
  ASSUME NEW e \in Entries, NEW l \in AVL, NEW r \in AVL, r # NULL,
         Height(r) = Height(l) + 2,
         AllBefore(Contents(l), e.key), AllAfter(Contents(r), e.key)
  PROVE  /\ Height(r.left) <= Height(r.right) =>
              LET b == Full(EntryOf(r), Full(e, l, r.left), r.right)
              IN  /\ b \in AVL /\ b # NULL
                  /\ Height(b) \in {Height(r), Height(r) + 1}
                  /\ Contents(b) = Contents(l) \cup {e} \cup Contents(r)
         /\ Height(r.left) > Height(r.right) =>
              LET b == Full(EntryOf(r.left), Full(e, l, r.left.left),
                            Full(EntryOf(r), r.left.right, r.right))
              IN  /\ r.left # NULL
                  /\ b \in AVL /\ b # NULL
                  /\ Height(b) \in {Height(r), Height(r) + 1}
                  /\ Contents(b) = Contents(l) \cup {e} \cup Contents(r)
<1> DEFINE p == EntryOf(r)
           a == r.right
           c == r.left
<1>1. /\ a \in AVL /\ c \in AVL /\ p \in Entries /\ p.key \in Keys /\ e.key \in Keys
      /\ Contents(r) = Contents(c) \cup {p} \cup Contents(a)
      /\ AllBefore(Contents(c), p.key) /\ AllAfter(Contents(a), p.key)
      /\ Height(a) \in Nat /\ Height(c) \in Nat /\ Height(l) \in Nat
      /\ Height(r) = Greater(Height(c), Height(a)) + 1
      /\ Height(a) - Height(c) \in {-1, 0, 1}
  BY Parts, Heights, EntryTypes
<1> HIDE DEF p, a, c
<1>2. Before(e.key, p.key) /\ AllAfter(Contents(c), e.key)
  BY <1>1 DEF AllAfter
<1>3. Contents(l) \in SUBSET Entries /\ Contents(a) \in SUBSET Entries /\ Contents(c) \in SUBSET Entries
  BY <1>1, ContentsTypes
<1>4. AllBefore(Contents(l), p.key)
  BY <1>1, <1>2, <1>3, Transitive
<1>5. ASSUME Height(c) <= Height(a)
      PROVE  LET b == Full(p, Full(e, l, c), a)
             IN  /\ b \in AVL /\ b # NULL
                 /\ Height(b) \in {Height(r), Height(r) + 1}
                 /\ Contents(b) = Contents(l) \cup {e} \cup Contents(r)
  <2> DEFINE d == Full(e, l, c)
  <2>1. /\ Height(a) = Height(l) + 1 /\ Height(c) \in {Height(l), Height(l) + 1}
    BY <1>1, <1>5 DEF Greater
  <2>2. /\ d \in AVL
        /\ Height(d) = Height(c) + 1
        /\ Contents(d) = Contents(l) \cup {e} \cup Contents(c)
    <3>1. Height(c) - Height(l) \in {-1, 0, 1} /\ Greater(Height(l), Height(c)) = Height(c)
      BY <1>1, <2>1 DEF Greater
    <3> QED BY <1>1, <1>2, <3>1, FullIsAVL
  <2> HIDE DEF d
  <2>3. AllBefore(Contents(d), p.key)
    BY <1>1, <1>2, <1>4, <2>2 DEF AllBefore
  <2>4. Height(a) - Height(d) \in {-1, 0, 1} /\ Greater(Height(d), Height(a)) + 1 \in {Height(r), Height(r) + 1}
    BY <1>1, <2>1, <2>2 DEF Greater
  <2>5. LET b == Full(p, d, a)
        IN  /\ b \in AVL /\ b # NULL
            /\ Height(b) \in {Height(r), Height(r) + 1}
            /\ Contents(b) = Contents(d) \cup {p} \cup Contents(a)
    <3>1. LET b == Full(p, d, a)
          IN  /\ b \in AVL /\ b # NULL
              /\ Height(b) = Greater(Height(d), Height(a)) + 1
              /\ Contents(b) = Contents(d) \cup {p} \cup Contents(a)
      <4>1. /\ p \in Entries /\ a \in AVL /\ d \in AVL
            /\ Height(a) - Height(d) \in {-1, 0, 1}
            /\ AllBefore(Contents(d), p.key) /\ AllAfter(Contents(a), p.key)
        BY <1>1, <2>2, <2>3, <2>4
      <4> QED BY ONLY <4>1, FullIsAVL
    <3> QED BY <2>4, <3>1
  <2> QED BY <1>1, <2>2, <2>5 DEF d
<1>6. ASSUME Height(c) > Height(a)
      PROVE  LET b == Full(EntryOf(c), Full(e, l, c.left), Full(p, c.right, a))
             IN  /\ c # NULL
                 /\ b \in AVL /\ b # NULL
                 /\ Height(b) \in {Height(r), Height(r) + 1}
                 /\ Contents(b) = Contents(l) \cup {e} \cup Contents(r)
  <2> DEFINE q == EntryOf(c)
             u == c.left
             v == c.right
  <2>0. c # NULL
    BY <1>1, <1>6, Heights
  <2>1. /\ u \in AVL /\ v \in AVL /\ q \in Entries /\ q.key \in Keys
        /\ Contents(c) = Contents(u) \cup {q} \cup Contents(v)
        /\ AllBefore(Contents(u), q.key) /\ AllAfter(Contents(v), q.key)
        /\ Height(u) \in Nat /\ Height(v) \in Nat
        /\ Height(c) = Greater(Height(u), Height(v)) + 1
        /\ Height(v) - Height(u) \in {-1, 0, 1}
    BY <1>1, <2>0, Parts
  <2> HIDE DEF q, u, v
  <2>2. Before(e.key, q.key) /\ Before(q.key, p.key)
    BY <1>1, <1>2, <2>1 DEF AllBefore, AllAfter
  <2>3. AllAfter(Contents(u), e.key) /\ AllBefore(Contents(v), p.key)
    BY <1>1, <1>2, <2>1 DEF AllBefore, AllAfter
  <2>4. AllBefore(Contents(l), q.key) /\ AllAfter(Contents(a), q.key)
    BY <1>1, <1>3, <2>1, <2>2, Transitive
  <2>5. /\ Height(a) = Height(l) /\ Height(c) = Height(l) + 1
        /\ Height(u) \in {Height(l) - 1, Height(l)} /\ Height(v) \in {Height(l) - 1, Height(l)}
    BY <1>1, <1>6, <2>1 DEF Greater
  <2> DEFINE x == Full(e, l, u)
             y == Full(p, v, a)
  <2>6. /\ x \in AVL
        /\ Height(x) = Height(l) + 1
        /\ Contents(x) = Contents(l) \cup {e} \cup Contents(u)
    <3>1. Height(u) - Height(l) \in {-1, 0, 1} /\ Greater(Height(l), Height(u)) = Height(l)
      BY <1>1, <2>1, <2>5 DEF Greater
    <3> QED BY <1>1, <2>1, <2>3, <3>1, FullIsAVL
  <2>7. /\ y \in AVL
        /\ Height(y) = Height(l) + 1
        /\ Contents(y) = Contents(v) \cup {p} \cup Contents(a)
    <3>1. Height(a) - Height(v) \in {-1, 0, 1} /\ Greater(Height(v), Height(a)) = Height(l)
      BY <1>1, <2>1, <2>5 DEF Greater
    <3> QED BY <1>1, <2>1, <2>3, <3>1, FullIsAVL
  <2> HIDE DEF x, y
  <2>8. AllBefore(Contents(x), q.key) /\ AllAfter(Contents(y), q.key)
    BY <2>1, <2>2, <2>4, <2>6, <2>7 DEF AllBefore, AllAfter
  <2>9. Height(y) - Height(x) \in {-1, 0, 1} /\ Greater(Height(x), Height(y)) + 1 \in {Height(r), Height(r) + 1}
    BY <1>1, <2>5, <2>6, <2>7 DEF Greater
  <2>10. LET b == Full(q, x, y)
         IN  /\ b \in AVL /\ b # NULL
             /\ Height(b) \in {Height(r), Height(r) + 1}
             /\ Contents(b) = Contents(x) \cup {q} \cup Contents(y)
    <3>1. LET b == Full(q, x, y)
          IN  /\ b \in AVL /\ b # NULL
              /\ Height(b) = Greater(Height(x), Height(y)) + 1
              /\ Contents(b) = Contents(x) \cup {q} \cup Contents(y)
      <4>1. /\ q \in Entries /\ x \in AVL /\ y \in AVL
            /\ Height(y) - Height(x) \in {-1, 0, 1}
            /\ AllBefore(Contents(x), q.key) /\ AllAfter(Contents(y), q.key)
        BY <2>1, <2>6, <2>7, <2>8, <2>9
      <4> QED BY ONLY <4>1, FullIsAVL
    <3> QED BY <2>9, <3>1
  <2> QED BY <1>1, <2>0, <2>1, <2>6, <2>7, <2>10 DEF q, u, v, x, y
<1> QED BY <1>5, <1>6 DEF p, a, c

\* balance() restores the balance where the trees differ by two levels at most.
LEMMA Balanced ==
  ASSUME NEW e \in Entries, NEW l \in AVL, NEW r \in AVL,
         Height(r) - Height(l) \in -2 .. 2,
         AllBefore(Contents(l), e.key), AllAfter(Contents(r), e.key)
  PROVE  LET b == Balance(Full(e, l, r))
             higher == Greater(Height(l), Height(r))
         IN  /\ b \in AVL /\ b # NULL
             /\ Height(b) \in {higher, higher + 1}
             /\ Height(r) - Height(l) \in {-1, 0, 1} => Height(b) = higher + 1
             /\ Contents(b) = Contents(l) \cup {e} \cup Contents(r)
<1> DEFINE n == Full(e, l, r)
           factor == BalanceFactor(n)
           higher == Greater(Height(l), Height(r))
<1>1. IsNode(n) /\ EntryOf(n) = e /\ n.left = l /\ n.right = r
  BY FullFields, EntryTypes
<1>2. factor = Height(r) - Height(l)
  BY <1>1 DEF BalanceFactor
<1>3. Height(l) \in Nat /\ Height(r) \in Nat
  BY Heights
<1> HIDE DEF n
<1>4. CASE Height(r) - Height(l) \in {-1, 0, 1}
  <2>1. factor * factor <= 1
    BY <1>2, <1>4
  <2>2. Balance(n) = n
    BY <2>1 DEF Balance
  <2> QED BY <1>4, <2>2, FullIsAVL DEF n
<1>5. CASE Height(r) - Height(l) = -2
  <2>1. l # NULL /\ Height(l) = Height(r) + 2 /\ higher = Height(l)
    BY <1>3, <1>5, Heights DEF Greater
  <2> DEFINE sub == BalanceFactor(l)
  <2>2. sub = Height(l.right) - Height(l.left) /\ sub \in {-1, 0, 1} /\ IsNode(l)
        /\ Height(l.left) \in Nat /\ Height(l.right) \in Nat
    BY <2>1, Parts DEF BalanceFactor
  <2>3. factor = -2
    BY <1>2, <1>5
  <2>4. CASE sub \in {-1, 0}
    <3>1. Balance(n) = RotateCw(n)
      <4>1. CASE sub = -1
        <5>1. factor * sub > 0 /\ ~ (factor * factor <= 1) /\ factor < 0
          BY <2>3, <4>1
        <5> QED BY <5>1, <1>1 DEF Balance, Rotate
      <4>2. CASE sub = 0
        <5>1. ~ (factor * sub > 0) /\ ~ (factor * factor <= 1) /\ factor < 0 /\ factor # 2
          BY <2>3, <4>2
        <5>2. [n EXCEPT !.left = n.left] = n
          BY <1>1 DEF IsNode
        <5> QED BY <5>1, <5>2, <4>2, <1>1 DEF Balance, Rotate
      <4> QED BY <2>4, <4>1, <4>2
    <3>2. RotateCw(n) = Full(EntryOf(l), l.left, Full(e, l.right, r))
      BY <1>1, <2>2, Rotations
    <3>3. Height(l.right) <= Height(l.left)
      BY <2>2, <2>4
    <3>4. LET b == Full(EntryOf(l), l.left, Full(e, l.right, r))
          IN  /\ b \in AVL /\ b # NULL
              /\ Height(b) \in {Height(l), Height(l) + 1}
              /\ Contents(b) = Contents(l) \cup {e} \cup Contents(r)
      BY <2>1, <3>3, RightRotation
    <3> QED BY <1>5, <2>1, <3>1, <3>2, <3>4 DEF n
  <2>5. CASE sub = 1
    <3>1. Height(l.right) > Height(l.left)
      BY <2>2, <2>5
    <3>2. l.right # NULL /\ l.right \in AVL
      BY <2>1, <2>2, <3>1, Heights, Parts
    <3>3. IsNode(l.right)
      BY <3>2, Parts
    <3> DEFINE x == RotateCcw(l)
               m == WithLeft(n, x)
    <3>4. x = Full(EntryOf(l.right), Full(EntryOf(l), l.left, l.right.left), l.right.right)
      BY <2>2, <3>3, Rotations
    <3>5. /\ IsNode(x) /\ x.left = Full(EntryOf(l), l.left, l.right.left) /\ x.right = l.right.right
          /\ EntryOf(x) = EntryOf(l.right)
      <4>1. EntryOf(l.right) \in Entries
        BY <3>2, Parts
      <4> HIDE DEF x
      <4> QED BY <4>1, <3>4, FullFields, EntryTypes
    <3> HIDE DEF x
    <3>6. IsNode(m) /\ EntryOf(m) = e /\ m.left = x /\ m.right = r
      <4>1. IsNode(m) /\ EntryOf(m) = EntryOf(n) /\ m.left = x /\ m.right = n.right
        BY ONLY <1>1, Changed
      <4> QED BY <1>1, <4>1
    <3> HIDE DEF m
    <3>7. RotateCw(m) = Full(EntryOf(l.right), Full(EntryOf(l), l.left, l.right.left),
                             Full(e, l.right.right, r))
      BY <3>5, <3>6, Rotations
    <3>8. Balance(n) = RotateCw(m)
      <4>1. ~ (factor * sub > 0) /\ ~ (factor * factor <= 1) /\ factor < 0 /\ factor # 2
            /\ sub > 0 /\ ~ (sub < 0)
        BY <2>3, <2>5
      <4> QED BY <4>1, <1>1 DEF Balance, Rotate, m, x, WithLeft, WithRight
    <3>9. LET b == Full(EntryOf(l.right), Full(EntryOf(l), l.left, l.right.left),
                        Full(e, l.right.right, r))
          IN  /\ b \in AVL /\ b # NULL
              /\ Height(b) \in {Height(l), Height(l) + 1}
              /\ Contents(b) = Contents(l) \cup {e} \cup Contents(r)
      BY <2>1, <3>1, RightRotation
    <3> QED BY <1>5, <2>1, <3>7, <3>8, <3>9 DEF n
  <2> QED BY <2>2, <2>4, <2>5
<1>6. CASE Height(r) - Height(l) = 2
  <2>1. r # NULL /\ Height(r) = Height(l) + 2 /\ higher = Height(r)
    BY <1>3, <1>6, Heights DEF Greater
  <2> DEFINE sub == BalanceFactor(r)
  <2>2. sub = Height(r.right) - Height(r.left) /\ sub \in {-1, 0, 1} /\ IsNode(r)
        /\ Height(r.left) \in Nat /\ Height(r.right) \in Nat
    BY <2>1, Parts DEF BalanceFactor
  <2>3. factor = 2
    BY <1>2, <1>6
  <2>4. CASE sub \in {1, 0}
    <3>1. Balance(n) = RotateCcw(n)
      <4>1. CASE sub = 1
        <5>1. factor * sub > 0 /\ ~ (factor * factor <= 1) /\ ~ (factor < 0) /\ factor > 0
          BY <2>3, <4>1
        <5> QED BY <5>1, <1>1 DEF Balance, Rotate
      <4>2. CASE sub = 0
        <5>1. ~ (factor * sub > 0) /\ ~ (factor * factor <= 1) /\ ~ (factor < 0) /\ factor > 0
          BY <2>3, <4>2
        <5>2. [n EXCEPT !.right = n.right] = n
          BY <1>1 DEF IsNode
        <5> QED BY <5>1, <5>2, <4>2, <1>1, <2>3 DEF Balance, Rotate
      <4> QED BY <2>4, <4>1, <4>2
    <3>2. RotateCcw(n) = Full(EntryOf(r), Full(e, l, r.left), r.right)
      BY <1>1, <2>2, Rotations
    <3>3. Height(r.left) <= Height(r.right)
      BY <2>2, <2>4
    <3>4. LET b == Full(EntryOf(r), Full(e, l, r.left), r.right)
          IN  /\ b \in AVL /\ b # NULL
              /\ Height(b) \in {Height(r), Height(r) + 1}
              /\ Contents(b) = Contents(l) \cup {e} \cup Contents(r)
      BY <2>1, <3>3, LeftRotation
    <3> QED BY <1>6, <2>1, <3>1, <3>2, <3>4 DEF n
  <2>5. CASE sub = -1
    <3>1. Height(r.left) > Height(r.right)
      BY <2>2, <2>5
    <3>2. r.left # NULL /\ r.left \in AVL
      BY <2>1, <2>2, <3>1, Heights, Parts
    <3>3. IsNode(r.left)
      BY <3>2, Parts
    <3> DEFINE x == RotateCw(r)
               m == WithRight(n, x)
    <3>4. x = Full(EntryOf(r.left), r.left.left, Full(EntryOf(r), r.left.right, r.right))
      BY <2>2, <3>3, Rotations
    <3>5. /\ IsNode(x) /\ x.left = r.left.left /\ x.right = Full(EntryOf(r), r.left.right, r.right)
          /\ EntryOf(x) = EntryOf(r.left)
      <4>1. EntryOf(r.left) \in Entries
        BY <3>2, Parts
      <4> HIDE DEF x
      <4> QED BY <4>1, <3>4, FullFields, EntryTypes
    <3> HIDE DEF x
    <3>6. IsNode(m) /\ EntryOf(m) = e /\ m.left = l /\ m.right = x
      <4>1. IsNode(m) /\ EntryOf(m) = EntryOf(n) /\ m.left = n.left /\ m.right = x
        BY ONLY <1>1, Changed
      <4> QED BY <1>1, <4>1
    <3> HIDE DEF m
    <3>7. RotateCcw(m) = Full(EntryOf(r.left), Full(e, l, r.left.left),
                              Full(EntryOf(r), r.left.right, r.right))
      BY <3>5, <3>6, Rotations
    <3>8. Balance(n) = RotateCcw(m)
      <4>1. ~ (factor * sub > 0) /\ ~ (factor * factor <= 1) /\ ~ (factor < 0) /\ factor > 0
            /\ sub < 0
        BY <2>3, <2>5
      <4> QED BY <4>1, <1>1, <2>3 DEF Balance, Rotate, m, x, WithLeft, WithRight
    <3>9. LET b == Full(EntryOf(r.left), Full(e, l, r.left.left),
                        Full(EntryOf(r), r.left.right, r.right))
          IN  /\ b \in AVL /\ b # NULL
              /\ Height(b) \in {Height(r), Height(r) + 1}
              /\ Contents(b) = Contents(l) \cup {e} \cup Contents(r)
      BY <2>1, <3>1, LeftRotation
    <3> QED BY <1>6, <2>1, <3>7, <3>8, <3>9 DEF n
  <2> QED BY <2>2, <2>4, <2>5
<1> QED BY <1>3, <1>4, <1>5, <1>6

\* A tree of which one subtree has been exchanged for one that is a level higher or lower.
LEMMA LeftExchanged ==
  ASSUME NEW n \in AVL, n # NULL, NEW x \in AVL, AllBefore(Contents(x), n.key)
  PROVE  LET b == Balance(Updated([n EXCEPT !.left = x]))
             Exchanged(heights) == b \in AVL /\ b # NULL /\ Height(b) \in heights
                                   /\ Contents(b) = Contents(x) \cup {EntryOf(n)} \cup Contents(n.right)
         IN  /\ Height(x) \in {Height(n.left), Height(n.left) + 1} => Exchanged({Height(n), Height(n) + 1})
             /\ Height(x) \in {Height(n.left), Height(n.left) - 1} => Exchanged({Height(n), Height(n) - 1})
<1> DEFINE e == EntryOf(n)
           m == WithLeft(n, x)
           b == Balance(Full(e, x, n.right))
           higher == Greater(Height(x), Height(n.right))
<1>1. /\ n.left \in AVL /\ n.right \in AVL /\ e \in Entries /\ e.key = n.key
      /\ AllAfter(Contents(n.right), n.key)
      /\ Height(n.left) \in Nat /\ Height(n.right) \in Nat
      /\ Height(n) = Greater(Height(n.left), Height(n.right)) + 1
      /\ Height(n.right) - Height(n.left) \in {-1, 0, 1}
      /\ IsNode(n)
  BY Parts
<1>2. Height(x) \in Nat
  BY Heights
<1>3. Updated(m) = Full(e, x, n.right)
  <2>1. IsNode(m) /\ EntryOf(m) = EntryOf(n) /\ m.left = x /\ m.right = n.right
    BY ONLY <1>1, Changed
  <2> HIDE DEF m
  <2> QED BY <2>1, UpdatedIsFull
<1> HIDE DEF e, m
<1>4. ASSUME Height(n.right) - Height(x) \in -2 .. 2
      PROVE  /\ b \in AVL /\ b # NULL
             /\ Height(b) \in {higher, higher + 1}
             /\ Height(n.right) - Height(x) \in {-1, 0, 1} => Height(b) = higher + 1
             /\ Contents(b) = Contents(x) \cup {e} \cup Contents(n.right)
  <2>1. /\ e \in Entries /\ x \in AVL /\ n.right \in AVL
        /\ AllBefore(Contents(x), e.key) /\ AllAfter(Contents(n.right), e.key)
    BY <1>1
  <2> QED BY ONLY <1>4, <2>1, Balanced
<1> HIDE DEF b
<1>5. ASSUME Height(x) \in {Height(n.left), Height(n.left) + 1}
      PROVE  /\ Height(n.right) - Height(x) \in -2 .. 2
             /\ Height(b) \in {Height(n), Height(n) + 1}
  <2>1. Height(n.right) - Height(x) \in -2 .. 2
    BY <1>1, <1>2, <1>5
  <2> QED BY <1>1, <1>2, <1>4, <1>5, <2>1 DEF Greater
<1>6. ASSUME Height(x) \in {Height(n.left), Height(n.left) - 1}
      PROVE  /\ Height(n.right) - Height(x) \in -2 .. 2
             /\ Height(b) \in {Height(n), Height(n) - 1}
  <2>1. Height(n.right) - Height(x) \in -2 .. 2
    BY <1>1, <1>2, <1>6
  <2> QED BY <1>1, <1>2, <1>4, <1>6, <2>1 DEF Greater
<1>7. b = Balance(Updated(m))
  BY <1>3 DEF b
<1> QED BY <1>4, <1>5, <1>6, <1>7 DEF m, e, WithLeft, WithRight

LEMMA RightExchanged ==
  ASSUME NEW n \in AVL, n # NULL, NEW x \in AVL, AllAfter(Contents(x), n.key)
  PROVE  LET b == Balance(Updated([n EXCEPT !.right = x]))
             Exchanged(heights) == b \in AVL /\ b # NULL /\ Height(b) \in heights
                                   /\ Contents(b) = Contents(n.left) \cup {EntryOf(n)} \cup Contents(x)
         IN  /\ Height(x) \in {Height(n.right), Height(n.right) + 1} => Exchanged({Height(n), Height(n) + 1})
             /\ Height(x) \in {Height(n.right), Height(n.right) - 1} => Exchanged({Height(n), Height(n) - 1})
<1> DEFINE e == EntryOf(n)
           m == WithRight(n, x)
           b == Balance(Full(e, n.left, x))
           higher == Greater(Height(n.left), Height(x))
<1>1. /\ n.left \in AVL /\ n.right \in AVL /\ e \in Entries /\ e.key = n.key
      /\ AllBefore(Contents(n.left), n.key)
      /\ Height(n.left) \in Nat /\ Height(n.right) \in Nat
      /\ Height(n) = Greater(Height(n.left), Height(n.right)) + 1
      /\ Height(n.right) - Height(n.left) \in {-1, 0, 1}
      /\ IsNode(n)
  BY Parts
<1>2. Height(x) \in Nat
  BY Heights
<1>3. Updated(m) = Full(e, n.left, x)
  <2>1. IsNode(m) /\ EntryOf(m) = EntryOf(n) /\ m.left = n.left /\ m.right = x
    BY ONLY <1>1, Changed
  <2> HIDE DEF m
  <2> QED BY <2>1, UpdatedIsFull
<1> HIDE DEF e, m
<1>4. ASSUME Height(x) - Height(n.left) \in -2 .. 2
      PROVE  /\ b \in AVL /\ b # NULL
             /\ Height(b) \in {higher, higher + 1}
             /\ Height(x) - Height(n.left) \in {-1, 0, 1} => Height(b) = higher + 1
             /\ Contents(b) = Contents(n.left) \cup {e} \cup Contents(x)
  <2>1. /\ e \in Entries /\ x \in AVL /\ n.left \in AVL
        /\ AllBefore(Contents(n.left), e.key) /\ AllAfter(Contents(x), e.key)
    BY <1>1
  <2> QED BY ONLY <1>4, <2>1, Balanced
<1> HIDE DEF b
<1>5. ASSUME Height(x) \in {Height(n.right), Height(n.right) + 1}
      PROVE  /\ Height(x) - Height(n.left) \in -2 .. 2
             /\ Height(b) \in {Height(n), Height(n) + 1}
  <2>1. Height(x) - Height(n.left) \in -2 .. 2
    BY <1>1, <1>2, <1>5
  <2> QED BY <1>1, <1>2, <1>4, <1>5, <2>1 DEF Greater
<1>6. ASSUME Height(x) \in {Height(n.right), Height(n.right) - 1}
      PROVE  /\ Height(x) - Height(n.left) \in -2 .. 2
             /\ Height(b) \in {Height(n), Height(n) - 1}
  <2>1. Height(x) - Height(n.left) \in -2 .. 2
    BY <1>1, <1>2, <1>6
  <2> QED BY <1>1, <1>2, <1>4, <1>6, <2>1 DEF Greater
<1>7. b = Balance(Updated(m))
  BY <1>3 DEF b
<1> QED BY <1>4, <1>5, <1>6, <1>7 DEF m, e, WithLeft, WithRight

-----------------------------------------------------------------------------
(* insert()                                                                 *)

Without(S, k) == {d \in S : d.key # k}

\* insert() puts an entry in the place of the one that has its key, if there is one.
LEMMA Inserting ==
  ASSUME NEW e \in Entries, NEW t \in AVL
  PROVE  /\ InsertNode(t, e) \in AVL
         /\ Contents(InsertNode(t, e)) = Without(Contents(t), e.key) \cup {e}
<1>0. Height(t) \in Nat /\ e.key \in Keys /\ e = [key |-> e.key, value |-> e.value]
  BY Heights, EntryTypes
<1> DEFINE H == Height(t)
           Step(n, f) ==
             IF n = NULL THEN Updated(Node(e, NULL, NULL))
             ELSE InsertedAt(n, e, f[n.left], f[n.right])
           Claim(n, u) == /\ u \in AVL /\ u # NULL
                          /\ Height(u) \in {Height(n), Height(n) + 1}
                          /\ Contents(u) = Without(Contents(n), e.key) \cup {e}
<1>1. PICK f : InsertNode(t, e) = f[t] /\ \A n \in Trees[H] : f[n] = Step(n, f)
  <2>1. Height(t) \in Nat
    BY <1>0
  <2> QED BY ONLY <2>1, InsertRecursion
<1>H. H \in Nat
  BY <1>0
<1> DEFINE S == {n \in AVL : Height(n) <= H => Claim(n, f[n])}
<1> HIDE DEF H
<1>2. NULL \in S
  <2>1. f[NULL] = Full(e, NULL, NULL)
    BY <1>H, <1>1, TreesGrow DEF Full
  <2>2. Contents(NULL) = {} /\ NULL \in AVL /\ Height(NULL) = 0
    BY ContentsUnfold, AVLUnfold, Heights
  <2>3. AllBefore(Contents(NULL), e.key) /\ AllAfter(Contents(NULL), e.key)
    BY <2>2 DEF AllBefore, AllAfter
  <2>4. LET n == Full(e, NULL, NULL)
        IN  /\ n \in AVL /\ n # NULL
            /\ Height(n) = Greater(Height(NULL), Height(NULL)) + 1
            /\ Contents(n) = Contents(NULL) \cup {e} \cup Contents(NULL)
    BY <2>2, <2>3, FullIsAVL
  <2>5. Greater(Height(NULL), Height(NULL)) + 1 = Height(NULL) + 1
    BY <2>2 DEF Greater
  <2> QED BY <2>1, <2>2, <2>4, <2>5 DEF Without
<1>3. ASSUME NEW n \in AVL \ {NULL}, n.left \in S, n.right \in S PROVE n \in S
  <2> SUFFICES ASSUME Height(n) <= H PROVE Claim(n, f[n])
    OBVIOUS
  <2>1. /\ n.left \in AVL /\ n.right \in AVL /\ EntryOf(n) \in Entries /\ EntryOf(n).key = n.key
        /\ n.key \in Keys
        /\ Contents(n) = Contents(n.left) \cup {EntryOf(n)} \cup Contents(n.right)
        /\ AllBefore(Contents(n.left), n.key) /\ AllAfter(Contents(n.right), n.key)
        /\ Height(n.left) \in Nat /\ Height(n.right) \in Nat
        /\ Height(n.left) < Height(n) /\ Height(n.right) < Height(n) /\ Height(n) \in Nat
        /\ IsNode(n)
    BY Parts, Heights
  <2>2. Claim(n.left, f[n.left]) /\ Claim(n.right, f[n.right])
    BY <1>H, <1>3, <2>1
  <2>3. n \in Trees[H]
    BY <1>H, Leveled
  <2>4. Contents(n.left) \in SUBSET Entries /\ Contents(n.right) \in SUBSET Entries
    BY <2>1, ContentsTypes
  <2>5. \A d \in Entries : d.key \in Keys
    BY EntryTypes
  <2>6. CASE Before(e.key, n.key)
    <3>1. f[n] = Balance(Updated([n EXCEPT !.left = f[n.left]]))
      BY <1>1, <2>3, <2>6 DEF InsertedAt
    <3>2. AllBefore(Contents(f[n.left]), n.key)
      BY <2>1, <2>2, <2>6 DEF AllBefore, Without
    <3> DEFINE x == f[n.left]
    <3> HIDE DEF x
    <3>3. LET b == Balance(Updated([n EXCEPT !.left = x]))
          IN  /\ b \in AVL /\ b # NULL /\ Height(b) \in {Height(n), Height(n) + 1}
              /\ Contents(b) = Contents(x) \cup {EntryOf(n)} \cup Contents(n.right)
      <4>1. x \in AVL /\ Height(x) \in {Height(n.left), Height(n.left) + 1} /\ AllBefore(Contents(x), n.key)
        BY <2>2, <3>2 DEF x
      <4> QED BY ONLY <4>1, <1>3, LeftExchanged
    <3>4. Without(Contents(n), e.key) = Without(Contents(n.left), e.key) \cup {EntryOf(n)} \cup Contents(n.right)
      <4>1. \A d \in Contents(n.right) : d.key # e.key
        BY <1>0, <2>1, <2>4, <2>5, <2>6, BeforeOrders DEF AllAfter
      <4>2. n.key # e.key
        BY <2>1, <2>6, BeforeOrders
      <4> QED BY <2>1, <4>1, <4>2 DEF Without
    <3> QED BY <2>2, <3>1, <3>3, <3>4 DEF x
  <2>7. CASE ~ Before(e.key, n.key) /\ Before(n.key, e.key)
    <3>1. f[n] = Balance(Updated([n EXCEPT !.right = f[n.right]]))
      BY <1>1, <2>3, <2>7 DEF InsertedAt
    <3>2. AllAfter(Contents(f[n.right]), n.key)
      BY <2>1, <2>2, <2>7 DEF AllAfter, Without
    <3> DEFINE x == f[n.right]
    <3> HIDE DEF x
    <3>3. LET b == Balance(Updated([n EXCEPT !.right = x]))
          IN  /\ b \in AVL /\ b # NULL /\ Height(b) \in {Height(n), Height(n) + 1}
              /\ Contents(b) = Contents(n.left) \cup {EntryOf(n)} \cup Contents(x)
      <4>1. x \in AVL /\ Height(x) \in {Height(n.right), Height(n.right) + 1} /\ AllAfter(Contents(x), n.key)
        BY <2>2, <3>2 DEF x
      <4> QED BY ONLY <4>1, <1>3, RightExchanged
    <3>4. Without(Contents(n), e.key) = Contents(n.left) \cup {EntryOf(n)} \cup Without(Contents(n.right), e.key)
      <4>1. \A d \in Contents(n.left) : d.key # e.key
        BY <1>0, <2>1, <2>4, <2>5, <2>7, BeforeOrders DEF AllBefore
      <4>2. n.key # e.key
        BY <2>1, <2>7, BeforeOrders
      <4> QED BY <2>1, <4>1, <4>2 DEF Without
    <3> QED BY <2>2, <3>1, <3>3, <3>4 DEF x
  <2>8. CASE ~ Before(e.key, n.key) /\ ~ Before(n.key, e.key)
    <3>1. n.key = e.key
      BY <1>0, <2>1, <2>8, BeforeOrders
    <3> DEFINE v == e.value
               m == [n EXCEPT !.value = v]
    <3>2. f[n] = Balance(Updated(m))
      BY <1>1, <2>3, <2>8 DEF InsertedAt
    <3>3. IsNode(m) /\ m.key = n.key /\ m.value = v /\ m.left = n.left /\ m.right = n.right
      <4> HIDE DEF v
      <4> QED BY <2>1 DEF IsNode
    <3>4. EntryOf(m) = e
      <4> HIDE DEF m
      <4> QED BY <1>0, <3>1, <3>3 DEF EntryOf
    <3>5. Updated(m) = Full(e, n.left, n.right)
      <4> HIDE DEF m
      <4> QED BY <3>3, <3>4, UpdatedIsFull
    <3> DEFINE b == Balance(Full(e, n.left, n.right))
    <3>6. /\ b \in AVL /\ b # NULL
          /\ Height(b) = Greater(Height(n.left), Height(n.right)) + 1
          /\ Contents(b) = Contents(n.left) \cup {e} \cup Contents(n.right)
      <4>1. /\ e \in Entries /\ n.left \in AVL /\ n.right \in AVL
            /\ Height(n.right) - Height(n.left) \in {-1, 0, 1}
            /\ Height(n.right) - Height(n.left) \in -2 .. 2
            /\ AllBefore(Contents(n.left), e.key) /\ AllAfter(Contents(n.right), e.key)
        BY <2>1, <3>1, Parts
      <4> QED BY ONLY <4>1, Balanced
    <3>7. Height(n) = Greater(Height(n.left), Height(n.right)) + 1
      BY Parts
    <3>8. Without(Contents(n), e.key) = Contents(n.left) \cup Contents(n.right)
      <4>1. \A d \in Contents(n.left) \cup Contents(n.right) : d.key # e.key
        BY <1>0, <2>1, <2>4, <2>5, <3>1, BeforeOrders DEF AllBefore, AllAfter
      <4> QED BY <2>1, <3>1, <4>1 DEF Without
    <3> HIDE DEF b
    <3>9. f[n] = b
      BY <3>2, <3>5 DEF b
    <3> QED BY <3>6, <3>7, <3>8, <3>9
  <2> QED BY <2>6, <2>7, <2>8
<1>4. t \in S
  <2>1. AVL \subseteq S
    <3> HIDE DEF S
    <3> QED BY <1>2, <1>3, TreeInduction
  <2> QED BY <2>1
<1>5. Claim(t, f[t])
  BY <1>0, <1>4 DEF H
<1> QED BY <1>1, <1>5

-----------------------------------------------------------------------------
(* pop()                                                                    *)

\* p is a tree and the node that is taken out of it.
TakenFirst(n, p) ==
  /\ p.tree \in AVL
  /\ p.ret \in AVL /\ p.ret # NULL
  /\ EntryOf(p.ret) \in Contents(n)
  /\ Contents(p.tree) = Contents(n) \ {EntryOf(p.ret)}
  /\ AllAfter(Contents(p.tree), p.ret.key)
  /\ Height(p.tree) \in {Height(n), Height(n) - 1}

LEMMA TakingFirst ==
  ASSUME NEW t \in AVL, t # NULL
  PROVE  TakenFirst(t, PopMin(t))
<1> DEFINE H == Height(t)
           Step(n, f) ==
             IF n.left = NULL THEN [tree |-> n.right, ret |-> n] ELSE FirstPoppedAt(n, f[n.left])
<1>1. H \in Nat
  BY Heights
<1>2. PICK f : PopMin(t) = f[t] /\ \A n \in Trees[H] \ {NULL} : f[n] = Step(n, f)
  <2> QED BY ONLY <1>1, PopMinRecursion
<1> DEFINE S == {n \in AVL : n = NULL \/ (Height(n) <= H => TakenFirst(n, f[n]))}
<1> HIDE DEF H
<1>3. NULL \in S
  BY AVLUnfold
<1>4. ASSUME NEW n \in AVL \ {NULL}, n.left \in S, n.right \in S PROVE n \in S
  <2> SUFFICES ASSUME Height(n) <= H PROVE TakenFirst(n, f[n])
    OBVIOUS
  <2>1. /\ n.left \in AVL /\ n.right \in AVL /\ EntryOf(n) \in Entries /\ EntryOf(n).key = n.key
        /\ n.key \in Keys
        /\ Contents(n) = Contents(n.left) \cup {EntryOf(n)} \cup Contents(n.right)
        /\ AllBefore(Contents(n.left), n.key) /\ AllAfter(Contents(n.right), n.key)
        /\ Height(n.left) \in Nat /\ Height(n.right) \in Nat /\ Height(n) \in Nat
        /\ Height(n) = Greater(Height(n.left), Height(n.right)) + 1
        /\ Height(n.left) < Height(n)
    BY Parts, Heights
  <2>2. n \in Trees[H]
    BY <1>1, Leveled
  <2>3. Contents(n.right) \in SUBSET Entries
    BY <2>1, ContentsTypes
  <2>4. \A d \in Entries : d.key \in Keys
    BY EntryTypes
  <2>5. EntryOf(n) \notin Contents(n.right)
    BY <2>1, <2>4, BeforeOrders DEF AllAfter
  <2>6. CASE n.left = NULL
    <3>1. f[n].tree = n.right /\ f[n].ret = n
      <4>1. f[n] = [tree |-> n.right, ret |-> n]
        BY <1>2, <2>2, <2>6
      <4> QED BY <4>1
    <3>2. Contents(n.left) = {} /\ Height(n.left) = 0
      <4>1. Contents(NULL) = {} /\ NULL \in AVL /\ Height(NULL) = 0
        BY ContentsUnfold, AVLUnfold, Heights
      <4> QED BY <2>6, <4>1
    <3>3. Height(n.right) = Height(n) - 1
      BY <2>1, <3>2 DEF Greater
    <3> QED BY <2>1, <2>5, <3>1, <3>2, <3>3 DEF TakenFirst
  <2>7. CASE n.left # NULL
    <3> DEFINE x == f[n.left].tree
               r == f[n.left].ret
               b == Balance(Updated([n EXCEPT !.left = x]))
    <3>1. f[n].tree = b /\ f[n].ret = r
      <4>1. f[n] = FirstPoppedAt(n, f[n.left])
        BY <1>2, <2>2, <2>7
      <4> QED BY <4>1 DEF FirstPoppedAt
    <3>2. TakenFirst(n.left, f[n.left])
      BY <1>1, <1>4, <2>1, <2>7
    <3> HIDE DEF x, r
    <3>3. /\ x \in AVL /\ r \in AVL /\ r # NULL
          /\ EntryOf(r) \in Contents(n.left) /\ Contents(x) = Contents(n.left) \ {EntryOf(r)}
          /\ AllAfter(Contents(x), r.key)
          /\ Height(x) \in {Height(n.left), Height(n.left) - 1}
      BY <3>2 DEF TakenFirst, x, r
    <3>4. AllBefore(Contents(x), n.key)
      BY <2>1, <3>3 DEF AllBefore
    <3>5. /\ b \in AVL /\ b # NULL /\ Height(b) \in {Height(n), Height(n) - 1}
          /\ Contents(b) = Contents(x) \cup {EntryOf(n)} \cup Contents(n.right)
      BY ONLY <1>4, <3>3, <3>4, LeftExchanged
    <3> HIDE DEF b
    <3>6. EntryOf(r).key = r.key /\ r.key \in Keys /\ Before(r.key, n.key)
      BY <2>1, <3>3, Parts DEF AllBefore
    <3>7. AllAfter(Contents(n.right), r.key)
      BY <2>1, <2>3, <3>6, Transitive
    <3>8. EntryOf(r) # EntryOf(n) /\ EntryOf(r) \notin Contents(n.right)
      <4>1. ~ Before(r.key, r.key)
        BY <3>6, BeforeOrders
      <4> QED BY <2>1, <3>6, <3>7, <4>1 DEF AllAfter
    <3>9. Contents(b) = Contents(n) \ {EntryOf(r)}
      BY <2>1, <3>3, <3>5, <3>8
    <3>10. AllAfter(Contents(b), r.key)
      BY <2>1, <3>3, <3>5, <3>6, <3>7 DEF AllAfter
    <3> QED BY <2>1, <3>1, <3>3, <3>5, <3>9, <3>10 DEF TakenFirst
  <2> QED BY <2>6, <2>7
<1>5. AVL \subseteq S
  <2> HIDE DEF S
  <2> QED BY <1>3, <1>4, TreeInduction
<1>6. TakenFirst(t, f[t])
  BY <1>1, <1>5 DEF H
<1> QED BY <1>2, <1>6

\* What takes a node's place has the node's subtrees.
LEMMA Replaced ==
  ASSUME NEW n, IsNode(n), NEW l, NEW r
  PROVE  Updated([n EXCEPT !.left = l, !.right = r]) = Full(EntryOf(n), l, r)
<1> DEFINE a == WithLeft(n, l)
           b == WithRight(a, r)
<1>1. IsNode(a) /\ EntryOf(a) = EntryOf(n) /\ a.left = l
  BY Changed
<1>2. [n EXCEPT !.left = l, !.right = r] = b
  BY DEF WithLeft, WithRight
<1> HIDE DEF a
<1>3. IsNode(b) /\ EntryOf(b) = EntryOf(a) /\ b.left = a.left /\ b.right = r
  BY <1>1, Changed
<1> HIDE DEF b
<1> QED BY <1>1, <1>2, <1>3, UpdatedIsFull

\* A node is out of its tree, of which all else is still there.
Taken(n, u, e) ==
  /\ u \in AVL
  /\ Contents(u) = Contents(n) \ {e}
  /\ Height(u) \in {Height(n), Height(n) - 1}

LEMMA Removing ==
  ASSUME NEW n \in AVL, n # NULL
  PROVE  Taken(n, Removed(n), EntryOf(n))
<1>1. /\ n.left \in AVL /\ n.right \in AVL /\ EntryOf(n) \in Entries /\ EntryOf(n).key = n.key
      /\ n.key \in Keys
      /\ Contents(n) = Contents(n.left) \cup {EntryOf(n)} \cup Contents(n.right)
      /\ AllBefore(Contents(n.left), n.key) /\ AllAfter(Contents(n.right), n.key)
      /\ Height(n.left) \in Nat /\ Height(n.right) \in Nat
      /\ Height(n) = Greater(Height(n.left), Height(n.right)) + 1
      /\ Height(n.right) - Height(n.left) \in {-1, 0, 1}
  BY Parts
<1>2. Contents(n.left) \in SUBSET Entries /\ Contents(n.right) \in SUBSET Entries
  BY <1>1, ContentsTypes
<1>3. EntryOf(n) \notin Contents(n.left) /\ EntryOf(n) \notin Contents(n.right)
  <2>1. ~ Before(n.key, n.key)
    BY <1>1, BeforeOrders
  <2> QED BY <1>1, <2>1 DEF AllBefore, AllAfter
<1>4. Contents(NULL) = {} /\ NULL \in AVL /\ Height(NULL) = 0
  BY ContentsUnfold, AVLUnfold, Heights
<1>5. CASE n.left = NULL
  <2>1. Removed(n) = n.right
    BY <1>5 DEF Removed
  <2>2. Contents(n.left) = {} /\ Height(n.left) = 0
    BY <1>4, <1>5
  <2>3. Height(n.right) = Height(n) - 1
    BY <1>1, <2>2 DEF Greater
  <2> QED BY <1>1, <1>3, <2>1, <2>2, <2>3 DEF Taken
<1>6. CASE n.left # NULL /\ n.right = NULL
  <2>1. Removed(n) = n.left
    BY <1>6 DEF Removed
  <2>2. Contents(n.right) = {} /\ Height(n.right) = 0
    BY <1>4, <1>6
  <2>3. Height(n.left) = Height(n) - 1
    BY <1>1, <2>2 DEF Greater
  <2> QED BY <1>1, <1>3, <2>1, <2>2, <2>3 DEF Taken
<1>7. CASE n.left # NULL /\ n.right # NULL
  <2> DEFINE x == PopMin(n.right).tree
             r == PopMin(n.right).ret
             e == EntryOf(r)
             b == Balance(Full(e, n.left, x))
             higher == Greater(Height(n.left), Height(x))
  <2>1. /\ x \in AVL /\ r \in AVL /\ r # NULL
        /\ e \in Contents(n.right) /\ Contents(x) = Contents(n.right) \ {e}
        /\ AllAfter(Contents(x), r.key)
        /\ Height(x) \in {Height(n.right), Height(n.right) - 1}
    BY <1>1, <1>7, TakingFirst DEF TakenFirst
  <2>2. Removed(n) = b
    <3>1. Removed(n) = Balance(Updated([r EXCEPT !.left = n.left, !.right = x]))
      BY <1>7 DEF Removed
    <3>2. IsNode(r)
      BY <2>1, Parts
    <3> HIDE DEF r, x
    <3>3. Updated([r EXCEPT !.left = n.left, !.right = x]) = Full(e, n.left, x)
      BY <3>2, Replaced
    <3> QED BY <3>1, <3>3
  <2> HIDE DEF r, x
  <2>3. e.key = r.key /\ e.key \in Keys /\ e \in Entries /\ Before(n.key, e.key)
    BY <1>1, <2>1, Parts DEF AllAfter
  <2>4. AllBefore(Contents(n.left), e.key)
    BY <1>1, <1>2, <2>3, Transitive
  <2>5. Height(x) - Height(n.left) \in -2 .. 2
    BY <1>1, <2>1
  <2>6. /\ b \in AVL /\ b # NULL
        /\ Height(b) \in {higher, higher + 1}
        /\ Height(x) - Height(n.left) \in {-1, 0, 1} => Height(b) = higher + 1
        /\ Contents(b) = Contents(n.left) \cup {e} \cup Contents(x)
    <3>1. e \in Entries /\ n.left \in AVL /\ x \in AVL /\ AllAfter(Contents(x), e.key)
      BY <1>1, <2>1, <2>3
    <3> HIDE DEF e
    <3> QED BY ONLY <3>1, <2>4, <2>5, Balanced
  <2> HIDE DEF b, e
  <2>7. Height(b) \in {Height(n), Height(n) - 1}
    BY <1>1, <2>1, <2>5, <2>6 DEF Greater
  <2>8. Contents(b) = Contents(n) \ {EntryOf(n)}
    BY <1>1, <1>3, <2>1, <2>6
  <2> QED BY <2>2, <2>6, <2>7, <2>8 DEF Taken
<1> QED BY <1>5, <1>6, <1>7

-----------------------------------------------------------------------------
(* What overlaps                                                            *)

\* The bounds of a node are those of all that is below it.
Bounded(n) ==
  /\ n.lower \in {e.key[1] : e \in Contents(n)} /\ \A e \in Contents(n) : n.lower <= e.key[1]
  /\ n.upper \in {e.key[2] : e \in Contents(n)} /\ \A e \in Contents(n) : e.key[2] <= n.upper

LEMMA Bounds ==
  ASSUME NEW t \in AVL, t # NULL
  PROVE  Bounded(t)
<1> DEFINE S == {n \in AVL : n = NULL \/ Bounded(n)}
<1>1. NULL \in S
  BY AVLUnfold
<1>2. ASSUME NEW n \in AVL \ {NULL}, n.left \in S, n.right \in S PROVE n \in S
  <2>1. /\ n.left \in AVL /\ n.right \in AVL /\ EntryOf(n) \in Entries /\ EntryOf(n).key = n.key
        /\ n.key \in Keys
        /\ Contents(n) = Contents(n.left) \cup {EntryOf(n)} \cup Contents(n.right)
        /\ AllBefore(Contents(n.left), n.key) /\ AllAfter(Contents(n.right), n.key)
    BY Parts
  <2>2. /\ n.lower = (IF n.left = NULL THEN n.key[1] ELSE n.left.lower)
        /\ n.upper = LET upper == IF n.right = NULL THEN n.key[2] ELSE Greater(n.key[2], n.right.upper)
                     IN  IF n.left = NULL THEN upper ELSE Greater(upper, n.left.upper)
    BY NodeTypes DEF Local
  <2>3. /\ \A e \in Contents(n) : e.key[1] \in Int /\ e.key[2] \in Int /\ e.key[1] <= e.key[2]
        /\ \A e \in Contents(n.left) : e.key[1] <= n.key[1]
        /\ \A e \in Contents(n.right) : n.key[1] <= e.key[1]
        /\ n.key[1] \in Int /\ n.key[2] \in Int
    <3>1. \A e \in Contents(n) : e.key \in Keys
      BY ContentsTypes, EntryTypes
    <3> QED BY <2>1, <3>1, BeforeOrders DEF AllBefore, AllAfter
  <2>4. /\ n.left = NULL => Contents(n.left) = {}
        /\ n.right = NULL => Contents(n.right) = {}
    BY ContentsUnfold
  <2>5. /\ n.left = NULL \/ (Bounded(n.left) /\ n.left.lower \in Int /\ n.left.upper \in Int)
        /\ n.right = NULL \/ (Bounded(n.right) /\ n.right.upper \in Int)
    <3>1. \A m \in AVL : m = NULL \/ (m.lower \in Char /\ m.upper \in Char)
      BY NodeTypes
    <3> QED BY <1>2, <2>1, <3>1, CharIsInt
  <2>6. EntryOf(n) \in Contents(n) /\ Contents(n.left) \subseteq Contents(n) /\ Contents(n.right) \subseteq Contents(n)
    BY <2>1
  <2>7. n.lower \in {e.key[1] : e \in Contents(n)} /\ \A e \in Contents(n) : n.lower <= e.key[1]
    <3>1. CASE n.left = NULL
      <4>1. n.lower = EntryOf(n).key[1] /\ n.lower = n.key[1]
        BY <2>1, <2>2, <3>1
      <4>2. Contents(n) = {EntryOf(n)} \cup Contents(n.right)
        BY <2>1, <2>4, <3>1
      <4> QED BY <2>1, <2>3, <2>6, <4>1, <4>2
    <3>2. CASE n.left # NULL
      <4>1. n.lower = n.left.lower /\ n.lower \in Int
        BY <2>2, <2>5, <3>2
      <4>2. PICK e \in Contents(n.left) : e.key[1] = n.lower
        BY <2>5, <3>2, <4>1 DEF Bounded
      <4>3. \A d \in Contents(n.left) : n.lower <= d.key[1]
        BY <2>5, <3>2, <4>1 DEF Bounded
      <4>4. n.lower <= n.key[1]
        BY <2>3, <4>2
      <4>5. \A d \in Contents(n.right) : n.lower <= d.key[1]
        BY <2>3, <2>6, <4>1, <4>4
      <4> QED BY <2>1, <2>6, <4>2, <4>3, <4>4, <4>5
    <3> QED BY <3>1, <3>2
  <2>8. n.upper \in {e.key[2] : e \in Contents(n)} /\ \A e \in Contents(n) : e.key[2] <= n.upper
    <3> DEFINE u == IF n.right = NULL THEN n.key[2] ELSE Greater(n.key[2], n.right.upper)
               R == {EntryOf(n)} \cup Contents(n.right)
    <3>1. u \in {e.key[2] : e \in R} /\ u \in Int /\ \A e \in R : e.key[2] <= u
      <4>1. CASE n.right = NULL
        BY <2>1, <2>3, <2>4, <4>1
      <4>2. CASE n.right # NULL
        <5>1. u = Greater(n.key[2], n.right.upper) /\ u \in Int /\ n.key[2] <= u /\ n.right.upper <= u
              /\ (u = n.key[2] \/ u = n.right.upper)
          BY <2>3, <2>5, <4>2 DEF Greater
        <5>2. PICK e \in Contents(n.right) : e.key[2] = n.right.upper
          BY <2>5, <4>2 DEF Bounded
        <5>3. \A d \in Contents(n.right) : d.key[2] <= u
          <6>1. \A d \in Contents(n.right) : d.key[2] <= n.right.upper /\ d.key[2] \in Int
            BY <2>3, <2>5, <2>6, <4>2 DEF Bounded
          <6> QED BY <2>5, <4>2, <5>1, <6>1
        <5> HIDE DEF u
        <5> QED BY <2>1, <5>1, <5>2, <5>3
      <4> QED BY <4>1, <4>2
    <3>2. n.upper = IF n.left = NULL THEN u ELSE Greater(u, n.left.upper)
      BY <2>2
    <3> HIDE DEF u
    <3>3. Contents(n) = Contents(n.left) \cup R
      BY <2>1
    <3> HIDE DEF R
    <3>4. CASE n.left = NULL
      <4>1. Contents(n) = R /\ n.upper = u
        BY <2>4, <3>2, <3>3, <3>4
      <4> QED BY <3>1, <4>1
    <3>5. CASE n.left # NULL
      <4>1. n.upper = Greater(u, n.left.upper) /\ n.upper \in Int /\ u <= n.upper /\ n.left.upper <= n.upper
            /\ (n.upper = u \/ n.upper = n.left.upper)
        BY <2>5, <3>1, <3>2, <3>5 DEF Greater
      <4>2. PICK e \in Contents(n.left) : e.key[2] = n.left.upper
        BY <2>5, <3>5 DEF Bounded
      <4>3. \A d \in Contents(n.left) : d.key[2] <= n.upper
        <5>1. \A d \in Contents(n.left) : d.key[2] <= n.left.upper /\ d.key[2] \in Int
          BY <2>3, <2>5, <2>6, <3>5 DEF Bounded
        <5> QED BY <2>5, <3>5, <4>1, <5>1
      <4>4. \A d \in R : d.key[2] <= n.upper
        BY <2>3, <3>1, <3>3, <4>1
      <4>5. n.upper \in {d.key[2] : d \in Contents(n)}
        BY <3>1, <3>3, <4>1, <4>2
      <4> QED BY <3>3, <4>3, <4>4, <4>5
    <3> QED BY <3>4, <3>5
  <2> QED BY <2>7, <2>8 DEF Bounded
<1>3. AVL \subseteq S
  <2> HIDE DEF S
  <2> QED BY <1>1, <1>2, TreeInduction
<1> QED BY <1>3

\* A search asks of a node whether it overlaps, and skips no subtree in which one does.
LEMMA Searching ==
  ASSUME NEW n \in AVL, n # NULL, NEW key \in Keys
  PROVE  /\ NodeOverlaps(n, key) <=> Overlaps(EntryOf(n).key, key)
         /\ ~ OverlapsRecursive(n, key) => \A e \in Contents(n) : ~ Overlaps(e.key, key)
<1>1. /\ key[1] \in Int /\ key[2] \in Int /\ key[1] <= key[2]
      /\ \A e \in Contents(n) : e.key[1] \in Int /\ e.key[2] \in Int /\ e.key[1] <= e.key[2]
  <2>1. \A e \in Contents(n) : e.key \in Keys
    BY ContentsTypes, EntryTypes
  <2> QED BY <2>1, BeforeOrders
<1>2. NodeOverlaps(n, key) <=> Overlaps(EntryOf(n).key, key)
  <2>1. EntryOf(n) \in Contents(n) /\ EntryOf(n).key = n.key
    BY Parts
  <2>2. n.key[1] \in Int /\ n.key[2] \in Int /\ n.key[1] <= n.key[2]
    BY <1>1, <2>1
  <2> QED BY <1>1, <2>1, <2>2 DEF NodeOverlaps, NodeContains, Overlaps
<1>3. ASSUME ~ OverlapsRecursive(n, key), NEW e \in Contents(n) PROVE ~ Overlaps(e.key, key)
  <2>1. n.lower \in Int /\ n.upper \in Int
    BY NodeTypes, CharIsInt
  <2>2. n.lower <= e.key[1] /\ e.key[2] <= n.upper
    BY Bounds DEF Bounded
  <2>3. e.key[1] \in Int /\ e.key[2] \in Int /\ e.key[1] <= e.key[2]
    BY <1>1
  <2> QED BY <1>1, <1>3, <2>1, <2>2, <2>3 DEF OverlapsRecursive, ContainsRecursive, Overlaps
<1> QED BY <1>2, <1>3

-----------------------------------------------------------------------------
(* A turn of pop()                                                          *)

\* The node r has the first of a tree's entries that overlap the range.
First(n, r, key) ==
  /\ r \in AVL /\ r # NULL
  /\ EntryOf(r) \in Contents(n) /\ Overlaps(EntryOf(r).key, key)
  /\ \A e \in Contents(n) : Overlaps(e.key, key) => e = EntryOf(r) \/ Before(r.key, e.key)

\* pop() takes the first overlapping entry out, if there is one.
FirstTaken(n, key, p) ==
  \/ p.ret = NULL /\ p.tree = n /\ \A e \in Contents(n) : ~ Overlaps(e.key, key)
  \/ p.ret # NULL /\ First(n, p.ret, key) /\ Taken(n, p.tree, EntryOf(p.ret))

LEMMA Popping ==
  ASSUME NEW t \in AVL, NEW key \in Keys
  PROVE  FirstTaken(t, key, PopNode(t, key))
<1> DEFINE H == Height(t)
           Step(n, f) ==
             IF n = NULL THEN [tree |-> NULL, ret |-> NULL]
             ELSE Popped(n, key, f[n.left], f[n.right])
<1>1. H \in Nat
  BY Heights
<1>2. PICK f : PopNode(t, key) = f[t] /\ \A n \in Trees[H] : f[n] = Step(n, f)
  <2> QED BY ONLY <1>1, PopRecursion
<1> DEFINE S == {n \in AVL : Height(n) <= H => FirstTaken(n, key, f[n])}
<1> HIDE DEF H
<1>3. NULL \in S
  <2>1. f[NULL] = [tree |-> NULL, ret |-> NULL]
    BY <1>1, <1>2, TreesGrow
  <2>2. Contents(NULL) = {} /\ NULL \in AVL
    BY ContentsUnfold, AVLUnfold
  <2> QED BY <2>1, <2>2 DEF FirstTaken
<1>4. ASSUME NEW n \in AVL \ {NULL}, n.left \in S, n.right \in S PROVE n \in S
  <2> SUFFICES ASSUME Height(n) <= H PROVE FirstTaken(n, key, f[n])
    OBVIOUS
  <2> DEFINE a == f[n.left]
             b == f[n.right]
             e == EntryOf(n)
  <2>1. /\ n.left \in AVL /\ n.right \in AVL /\ e \in Entries /\ e.key = n.key
        /\ n.key \in Keys
        /\ Contents(n) = Contents(n.left) \cup {e} \cup Contents(n.right)
        /\ AllBefore(Contents(n.left), n.key) /\ AllAfter(Contents(n.right), n.key)
        /\ Height(n.left) \in Nat /\ Height(n.right) \in Nat /\ Height(n) \in Nat
        /\ Height(n.left) < Height(n) /\ Height(n.right) < Height(n)
    BY Parts, Heights
  <2>2. f[n] = Popped(n, key, a, b)
    <3>1. n \in Trees[H]
      BY <1>1, Leveled
    <3> QED BY <1>2, <3>1
  <2>3. FirstTaken(n.left, key, a) /\ FirstTaken(n.right, key, b)
    BY <1>1, <1>4, <2>1
  <2>4. Contents(n.left) \in SUBSET Entries /\ Contents(n.right) \in SUBSET Entries
    BY <2>1, ContentsTypes
  <2>5. \A d \in Entries : d.key \in Keys
    BY EntryTypes
  <2>6. e \notin Contents(n.left) /\ e \notin Contents(n.right) /\ Contents(n.left) \cap Contents(n.right) = {}
    BY <2>1, <2>4, <2>5, BeforeOrders DEF AllBefore, AllAfter
  <2>7. /\ NodeOverlaps(n, key) <=> Overlaps(e.key, key)
        /\ ~ OverlapsRecursive(n, key) => \A d \in Contents(n) : ~ Overlaps(d.key, key)
    BY Searching
  <2>8. /\ b.ret # NULL => EntryOf(b.ret) \in Contents(n.right)
        /\ a.ret # NULL => EntryOf(a.ret) \in Contents(n.left)
        /\ \A m \in AVL : m # NULL => EntryOf(m).key = m.key /\ m.key \in Keys
    BY <2>3, Parts DEF FirstTaken, First
  <2> HIDE DEF a, b, e
  <2>9. CASE ~ OverlapsRecursive(n, key)
    <3>1. f[n] = [tree |-> n, ret |-> NULL]
      BY <2>2, <2>9 DEF Popped
    <3> QED BY <2>7, <2>9, <3>1 DEF FirstTaken
  <2>10. CASE OverlapsRecursive(n, key) /\ a.ret # NULL
    <3> DEFINE x == a.tree
               r == a.ret
               u == Balance(Updated([n EXCEPT !.left = x]))
    <3>1. f[n].tree = u /\ f[n].ret = r
      <4>1. f[n] = [tree |-> u, ret |-> r]
        BY <2>2, <2>10 DEF Popped
      <4> HIDE DEF u, r
      <4> QED BY <4>1
    <3>2. First(n.left, r, key) /\ Taken(n.left, x, EntryOf(r)) /\ r # NULL
      BY <2>3, <2>10 DEF FirstTaken
    <3> HIDE DEF x, r
    <3>3. /\ x \in AVL /\ Contents(x) = Contents(n.left) \ {EntryOf(r)}
          /\ Height(x) \in {Height(n.left), Height(n.left) - 1}
          /\ AllBefore(Contents(x), n.key)
      BY <2>1, <3>2 DEF Taken, AllBefore
    <3>4. /\ u \in AVL /\ u # NULL /\ Height(u) \in {Height(n), Height(n) - 1}
          /\ Contents(u) = Contents(x) \cup {EntryOf(n)} \cup Contents(n.right)
      BY ONLY <1>4, <3>3, LeftExchanged
    <3> HIDE DEF u
    <3>5. r \in AVL /\ EntryOf(r) \in Contents(n.left) /\ EntryOf(r).key = r.key /\ r.key \in Keys
      BY <2>8, <3>2 DEF First
    <3>6. Taken(n, u, EntryOf(r))
      BY <2>1, <2>6, <3>3, <3>4, <3>5 DEF Taken, e
    <3>7. First(n, r, key)
      <4>1. Before(r.key, n.key)
        BY <2>1, <3>5 DEF AllBefore
      <4>2. \A d \in Contents(n.right) : Before(r.key, d.key)
        BY <2>1, <2>4, <3>5, <4>1, Transitive DEF AllAfter
      <4> QED BY <2>1, <3>2, <3>5, <4>1, <4>2 DEF First
    <3> QED BY <3>1, <3>2, <3>6, <3>7 DEF FirstTaken
  <2>11. CASE OverlapsRecursive(n, key) /\ a.ret = NULL /\ NodeOverlaps(n, key)
    <3>1. f[n].tree = Removed(n) /\ f[n].ret = n
      <4>1. f[n] = [tree |-> Removed(n), ret |-> n]
        BY <2>2, <2>11 DEF Popped
      <4> QED BY <4>1
    <3>2. \A d \in Contents(n.left) : ~ Overlaps(d.key, key)
      BY <2>3, <2>11 DEF FirstTaken
    <3>3. First(n, n, key)
      BY <2>1, <2>7, <2>11, <3>2 DEF First, AllAfter, e
    <3> QED BY <3>1, <3>3, Removing DEF FirstTaken
  <2>12. CASE OverlapsRecursive(n, key) /\ a.ret = NULL /\ ~ NodeOverlaps(n, key) /\ b.ret # NULL
    <3> DEFINE x == b.tree
               r == b.ret
               u == Balance(Updated([n EXCEPT !.right = x]))
    <3>1. f[n].tree = u /\ f[n].ret = r
      <4>1. f[n] = [tree |-> u, ret |-> r]
        BY <2>2, <2>12 DEF Popped
      <4> HIDE DEF u, r
      <4> QED BY <4>1
    <3>2. First(n.right, r, key) /\ Taken(n.right, x, EntryOf(r)) /\ r # NULL
      BY <2>3, <2>12 DEF FirstTaken
    <3> HIDE DEF x, r
    <3>3. /\ x \in AVL /\ Contents(x) = Contents(n.right) \ {EntryOf(r)}
          /\ Height(x) \in {Height(n.right), Height(n.right) - 1}
          /\ AllAfter(Contents(x), n.key)
      BY <2>1, <3>2 DEF Taken, AllAfter
    <3>4. /\ u \in AVL /\ u # NULL /\ Height(u) \in {Height(n), Height(n) - 1}
          /\ Contents(u) = Contents(n.left) \cup {EntryOf(n)} \cup Contents(x)
      BY ONLY <1>4, <3>3, RightExchanged
    <3> HIDE DEF u
    <3>5. r \in AVL /\ EntryOf(r) \in Contents(n.right)
      BY <2>8, <3>2 DEF First
    <3>6. Taken(n, u, EntryOf(r))
      BY <2>1, <2>6, <3>3, <3>4, <3>5 DEF Taken, e
    <3>7. First(n, r, key)
      <4>1. \A d \in Contents(n.left) : ~ Overlaps(d.key, key)
        BY <2>3, <2>12 DEF FirstTaken
      <4> QED BY <2>1, <2>7, <2>12, <3>2, <3>5, <4>1 DEF First
    <3> QED BY <3>1, <3>2, <3>6, <3>7 DEF FirstTaken
  <2>13. CASE OverlapsRecursive(n, key) /\ a.ret = NULL /\ ~ NodeOverlaps(n, key) /\ b.ret = NULL
    <3>1. f[n] = [tree |-> n, ret |-> NULL]
      BY <2>2, <2>13 DEF Popped
    <3>2. \A d \in Contents(n.left) \cup Contents(n.right) : ~ Overlaps(d.key, key)
      BY <2>3, <2>13 DEF FirstTaken
    <3> QED BY <2>1, <2>7, <2>13, <3>1, <3>2 DEF FirstTaken
  <2> QED BY <2>9, <2>10, <2>11, <2>12, <2>13
<1>5. AVL \subseteq S
  <2> HIDE DEF S
  <2> QED BY <1>3, <1>4, TreeInduction
<1>6. FirstTaken(t, key, f[t])
  BY <1>1, <1>5 DEF H
<1> QED BY <1>2, <1>6

-----------------------------------------------------------------------------
(* Entries in order                                                         *)

\* The sequence is the set in ascending order of the keys.
Lists(s, S) ==
  /\ s \in Seq(Entries)
  /\ {s[i] : i \in 1 .. Len(s)} = S
  /\ \A i, j \in 1 .. Len(s) : i < j => Before(s[i].key, s[j].key)

LEMMA ListsEmpty == Lists(<<>>, {})
BY DEF Lists

LEMMA ListsOne ==
  ASSUME NEW e \in Entries
  PROVE  Lists(<<e>>, {e})
<1> DEFINE s == <<e>>
<1>1. s \in Seq(Entries) /\ Len(s) = 1 /\ s[1] = e
  OBVIOUS
<1> HIDE DEF s
<1>2. {s[i] : i \in 1 .. Len(s)} = {e}
  BY <1>1
<1> QED BY <1>1, <1>2 DEF Lists, s

LEMMA ListsBoth ==
  ASSUME NEW S, NEW T, NEW s, NEW t, Lists(s, S), Lists(t, T),
         \A x \in S, y \in T : Before(x.key, y.key)
  PROVE  Lists(s \o t, S \cup T)
<1> DEFINE u == s \o t
           m == Len(s)
           n == Len(t)
<1>1. s \in Seq(Entries) /\ t \in Seq(Entries) /\ m \in Nat /\ n \in Nat
  BY DEF Lists
<1>2. /\ u \in Seq(Entries) /\ Len(u) = m + n
      /\ \A i \in 1 .. m + n : u[i] = IF i <= m THEN s[i] ELSE t[i - m]
  BY <1>1
<1> HIDE DEF u, m, n
<1>3. /\ \A i \in 1 .. m : i \in 1 .. m + n /\ u[i] = s[i]
      /\ \A i \in 1 .. n : m + i \in 1 .. m + n /\ u[m + i] = t[i]
      /\ \A i \in 1 .. m + n : i \in 1 .. m \/ (i - m \in 1 .. n /\ u[i] = t[i - m])
  <2>1. ASSUME NEW i \in 1 .. n PROVE m + i \in 1 .. m + n /\ u[m + i] = t[i]
    <3>1. m + i \in 1 .. m + n /\ ~ (m + i <= m) /\ (m + i) - m = i
      BY <1>1
    <3> QED BY <1>2, <3>1
  <2>2. \A i \in 1 .. m : i \in 1 .. m + n /\ i <= m
    BY <1>1
  <2>3. \A i \in 1 .. m + n : i \in 1 .. m \/ (~ (i <= m) /\ i - m \in 1 .. n)
    BY <1>1
  <2> QED BY <1>2, <2>1, <2>2, <2>3
<1>4. S = {s[i] : i \in 1 .. m} /\ T = {t[i] : i \in 1 .. n}
  BY DEF Lists, m, n
<1>5. {u[i] : i \in 1 .. m + n} = S \cup T
  <2>1. \A i \in 1 .. m + n : u[i] \in S \cup T
    BY <1>3, <1>4
  <2>2. \A x \in S \cup T : \E i \in 1 .. m + n : u[i] = x
    <3>1. ASSUME NEW x \in S PROVE \E i \in 1 .. m + n : u[i] = x
      BY <1>3, <1>4
    <3>2. ASSUME NEW x \in T PROVE \E i \in 1 .. m + n : u[i] = x
      <4>1. PICK i \in 1 .. n : t[i] = x
        BY <1>4
      <4> QED BY <1>3, <4>1
    <3> QED BY <3>1, <3>2
  <2> QED BY <2>1, <2>2
<1>6. ASSUME NEW i \in 1 .. m + n, NEW j \in 1 .. m + n, i < j
      PROVE  Before(u[i].key, u[j].key)
  <2>1. CASE i \in 1 .. m /\ j \in 1 .. m
    BY <1>3, <1>6, <2>1 DEF Lists, m
  <2>2. CASE i \in 1 .. m /\ j \notin 1 .. m
    BY <1>3, <1>4, <2>2
  <2>3. CASE i \notin 1 .. m
    <3>1. j \notin 1 .. m /\ i - m < j - m
      BY <1>1, <1>6, <2>3
    <3>2. u[i] = t[i - m] /\ u[j] = t[j - m] /\ i - m \in 1 .. n /\ j - m \in 1 .. n
      BY <1>3, <2>3, <3>1
    <3>3. \A k, l \in 1 .. n : k < l => Before(t[k].key, t[l].key)
      BY DEF Lists, n
    <3> QED BY <3>1, <3>2, <3>3
  <2> QED BY <2>1, <2>2, <2>3
<1>7. Lists(u, S \cup T)
  BY <1>2, <1>5, <1>6 DEF Lists
<1> QED BY <1>7 DEF u

Overlapping(S, key) == {e \in S : Overlaps(e.key, key)}

\* find() lists what overlaps a range.
LEMMA Finding ==
  ASSUME NEW t \in AVL, NEW key \in Keys
  PROVE  Lists(FindIn(t, key), Overlapping(Contents(t), key))
<1> DEFINE H == Height(t)
           Here(n) == IF NodeOverlaps(n, key) THEN <<EntryOf(n)>> ELSE <<>>
           Step(n, f) ==
             IF n = NULL THEN <<>>
             ELSE IF ~ OverlapsRecursive(n, key) THEN <<>>
             ELSE f[n.left] \o Here(n) \o f[n.right]
           Of(n) == Overlapping(Contents(n), key)
<1>1. H \in Nat
  BY Heights
<1>2. PICK f : FindIn(t, key) = f[t] /\ \A n \in Trees[H] : f[n] = Step(n, f)
  <2> QED BY ONLY <1>1, FindRecursion
<1> DEFINE S == {n \in AVL : Height(n) <= H => Lists(f[n], Of(n))}
<1> HIDE DEF H
<1>3. NULL \in S
  <2>1. f[NULL] = <<>>
    BY <1>1, <1>2, TreesGrow
  <2>2. Contents(NULL) = {} /\ NULL \in AVL
    BY ContentsUnfold, AVLUnfold
  <2> QED BY <2>1, <2>2, ListsEmpty DEF Overlapping
<1>4. ASSUME NEW n \in AVL \ {NULL}, n.left \in S, n.right \in S PROVE n \in S
  <2> SUFFICES ASSUME Height(n) <= H PROVE Lists(f[n], Of(n))
    OBVIOUS
  <2> DEFINE a == f[n.left]
             b == f[n.right]
             e == EntryOf(n)
  <2>1. /\ n.left \in AVL /\ n.right \in AVL /\ e \in Entries /\ e.key = n.key
        /\ n.key \in Keys
        /\ Contents(n) = Contents(n.left) \cup {e} \cup Contents(n.right)
        /\ AllBefore(Contents(n.left), n.key) /\ AllAfter(Contents(n.right), n.key)
        /\ Height(n.left) \in Nat /\ Height(n.right) \in Nat /\ Height(n) \in Nat
        /\ Height(n.left) < Height(n) /\ Height(n.right) < Height(n)
    BY Parts, Heights
  <2>2. f[n] = Step(n, f)
    <3>1. n \in Trees[H]
      BY <1>1, Leveled
    <3> QED BY <1>2, <3>1
  <2>3. Lists(a, Of(n.left)) /\ Lists(b, Of(n.right))
    BY <1>1, <1>4, <2>1
  <2>4. /\ NodeOverlaps(n, key) <=> Overlaps(e.key, key)
        /\ ~ OverlapsRecursive(n, key) => \A d \in Contents(n) : ~ Overlaps(d.key, key)
    BY Searching
  <2>5. CASE ~ OverlapsRecursive(n, key)
    <3>1. f[n] = <<>>
      BY <2>2, <2>5
    <3>2. Of(n) = {}
      BY <2>4, <2>5 DEF Overlapping
    <3> QED BY <3>1, <3>2, ListsEmpty
  <2>6. CASE OverlapsRecursive(n, key)
    <3> DEFINE s == Here(n)
               E == Overlapping({e}, key)
    <3>1. f[n] = a \o s \o b
      BY <2>2, <2>6
    <3>2. Lists(s, E)
      <4>1. CASE NodeOverlaps(n, key)
        <5>1. s = <<e>> /\ E = {e}
          BY <2>4, <4>1 DEF Overlapping
        <5> QED BY <2>1, <5>1, ListsOne
      <4>2. CASE ~ NodeOverlaps(n, key)
        <5>1. s = <<>> /\ E = {}
          BY <2>4, <4>2 DEF Overlapping
        <5> QED BY <5>1, ListsEmpty
      <4> QED BY <4>1, <4>2
    <3>3. /\ \A x \in Of(n.left) : Before(x.key, n.key)
          /\ \A x \in E : x.key = n.key
          /\ \A x \in Of(n.right) : Before(n.key, x.key)
      BY <2>1 DEF Overlapping, AllBefore, AllAfter
    <3>4. \A x \in Of(n.left), y \in Of(n.right) : Before(x.key, y.key)
      <4>1. \A x \in Contents(n.left) \cup Contents(n.right) : x.key \in Keys
        BY <2>1, ContentsTypes, EntryTypes
      <4>2. \A x \in Contents(n.left), y \in Contents(n.right) : Before(x.key, y.key)
        BY <2>1, <4>1, BeforeOrders DEF AllBefore, AllAfter
      <4> QED BY <4>2 DEF Overlapping
    <3>5. Of(n) = (Of(n.left) \cup E) \cup Of(n.right)
      BY <2>1 DEF Overlapping
    <3> HIDE DEF a, b, s, E, Of, Here
    <3>6. Lists(a \o s, Of(n.left) \cup E)
      BY <2>3, <3>2, <3>3, ListsBoth
    <3>7. \A x \in Of(n.left) \cup E, y \in Of(n.right) : Before(x.key, y.key)
      BY <3>3, <3>4
    <3>8. Lists((a \o s) \o b, (Of(n.left) \cup E) \cup Of(n.right))
      BY ONLY <2>3, <3>6, <3>7, ListsBoth
    <3> QED BY <3>1, <3>5, <3>8
  <2> QED BY <2>5, <2>6
<1>5. AVL \subseteq S
  <2> HIDE DEF S
  <2> QED BY <1>3, <1>4, TreeInduction
<1>6. Lists(f[t], Of(t))
  BY <1>1, <1>5 DEF H
<1> QED BY <1>2, <1>6

\* all() lists everything.
LEMMA Listing ==
  ASSUME NEW t \in AVL
  PROVE  Lists(AllIn(t), Contents(t))
<1> DEFINE H == Height(t)
           Step(n, f) == IF n = NULL THEN <<>> ELSE f[n.left] \o <<EntryOf(n)>> \o f[n.right]
<1>1. H \in Nat
  BY Heights
<1>2. PICK f : AllIn(t) = f[t] /\ \A n \in Trees[H] : f[n] = Step(n, f)
  <2> QED BY ONLY <1>1, AllRecursion
<1> DEFINE S == {n \in AVL : Height(n) <= H => Lists(f[n], Contents(n))}
<1> HIDE DEF H
<1>3. NULL \in S
  <2>1. f[NULL] = <<>>
    BY <1>1, <1>2, TreesGrow
  <2>2. Contents(NULL) = {} /\ NULL \in AVL
    BY ContentsUnfold, AVLUnfold
  <2> QED BY <2>1, <2>2, ListsEmpty
<1>4. ASSUME NEW n \in AVL \ {NULL}, n.left \in S, n.right \in S PROVE n \in S
  <2> SUFFICES ASSUME Height(n) <= H PROVE Lists(f[n], Contents(n))
    OBVIOUS
  <2> DEFINE a == f[n.left]
             b == f[n.right]
             e == EntryOf(n)
             L == Contents(n.left)
             R == Contents(n.right)
  <2>1. /\ n.left \in AVL /\ n.right \in AVL /\ e \in Entries /\ e.key = n.key
        /\ n.key \in Keys
        /\ Contents(n) = L \cup {e} \cup R
        /\ AllBefore(L, n.key) /\ AllAfter(R, n.key)
        /\ Height(n.left) \in Nat /\ Height(n.right) \in Nat /\ Height(n) \in Nat
        /\ Height(n.left) < Height(n) /\ Height(n.right) < Height(n)
    BY Parts, Heights
  <2>2. f[n] = a \o <<e>> \o b
    <3>1. n \in Trees[H]
      BY <1>1, Leveled
    <3> QED BY <1>2, <3>1
  <2>3. Lists(a, L) /\ Lists(b, R)
    BY <1>1, <1>4, <2>1
  <2>4. \A x \in L \cup R : x.key \in Keys
    BY <2>1, ContentsTypes, EntryTypes
  <2> HIDE DEF a, b, e, L, R
  <2>5. Lists(<<e>>, {e})
    BY <2>1, ListsOne
  <2>6. /\ \A x \in L, y \in {e} : Before(x.key, y.key)
        /\ \A x \in L \cup {e}, y \in R : Before(x.key, y.key)
    BY <2>1, <2>4, BeforeOrders DEF AllBefore, AllAfter
  <2>7. Lists(a \o <<e>>, L \cup {e})
    BY ONLY <2>3, <2>5, <2>6, ListsBoth
  <2>8. Lists((a \o <<e>>) \o b, (L \cup {e}) \cup R)
    BY ONLY <2>3, <2>6, <2>7, ListsBoth
  <2> QED BY <2>1, <2>2, <2>8
<1>5. AVL \subseteq S
  <2> HIDE DEF S
  <2> QED BY <1>3, <1>4, TreeInduction
<1>6. Lists(f[t], Contents(t))
  BY <1>1, <1>5 DEF H
<1> QED BY <1>2, <1>6

\* A list of things that differ is as long as there are things.
LEMMA Counted ==
  ASSUME NEW m \in Nat, NEW s, \A i, j \in 1 .. m : s[i] = s[j] => i = j
  PROVE  Cardinality({s[i] : i \in 1 .. m}) = m
<1> DEFINE S == {s[i] : i \in 1 .. m}
           b == [i \in 1 .. m |-> s[i]]
<1>1. b \in [1 .. m -> S] /\ \A i \in 1 .. m : b[i] = s[i]
  OBVIOUS
<1>2. \A x \in S : \E i \in 1 .. m : s[i] = x
  OBVIOUS
<1> HIDE DEF b, S
<1>3. b \in Bijection(1 .. m, S)
  <2>1. \A i, j \in 1 .. m : b[i] = b[j] => i = j
    BY <1>1
  <2>2. \A x \in S : \E i \in 1 .. m : b[i] = x
    BY <1>1, <1>2
  <2> QED BY <1>1, <2>1, <2>2, Fun_IsBij
<1>4. ExistsBijection(1 .. m, S)
  BY <1>3, Fun_ExistsBij
<1>5. Cardinality(S) = m
  BY <1>4, FS_CountingElements
<1> QED BY <1>5 DEF S

\* There is one such list, the one RangeMap answers with.
LEMMA AscendingIs ==
  ASSUME NEW S, NEW s, Lists(s, S)
  PROVE  Abstract!Ascending(S) = s
<1> DEFINE m == Len(s)
           Below(e) == {d \in S : Before(d.key, e.key)}
<1>1. /\ m \in Nat /\ s = [i \in 1 .. m |-> s[i]]
      /\ \A i \in 1 .. m : s[i] \in S /\ s[i].key \in Keys
  <2>1. s \in Seq(Entries) /\ \A i \in 1 .. m : s[i] \in Entries
    BY DEF Lists
  <2>2. \A i \in 1 .. m : s[i].key \in Keys
    BY <2>1, EntryTypes
  <2> QED BY <2>1, <2>2 DEF Lists
<1>2. S = {s[i] : i \in 1 .. m} /\ \A i, j \in 1 .. m : i < j => Before(s[i].key, s[j].key)
  BY DEF Lists
<1> HIDE DEF m
<1>3. \A i, j \in 1 .. m : Before(s[i].key, s[j].key) <=> i < j
  <2> SUFFICES ASSUME NEW i \in 1 .. m, NEW j \in 1 .. m PROVE Before(s[i].key, s[j].key) <=> i < j
    OBVIOUS
  <2>1. /\ ~ Before(s[j].key, s[j].key)
        /\ Before(s[i].key, s[j].key) => ~ Before(s[j].key, s[i].key)
    BY <1>1, BeforeOrders
  <2>2. i < j \/ i = j \/ j < i
    OBVIOUS
  <2> QED BY <1>2, <2>1, <2>2
<1>4. \A i, j \in 1 .. m : s[i] = s[j] => i = j
  <2> SUFFICES ASSUME NEW i \in 1 .. m, NEW j \in 1 .. m, s[i] = s[j] PROVE i = j
    OBVIOUS
  <2>1. ~ (i < j) /\ ~ (j < i)
    BY <1>3
  <2> QED BY <2>1
<1>5. Cardinality(S) = m
  BY <1>1, <1>2, <1>4, Counted
<1>6. ASSUME NEW i \in 1 .. m PROVE Cardinality(Below(s[i])) = i - 1
  <2>1. i - 1 \in Nat /\ \A j \in 1 .. i - 1 : j \in 1 .. m /\ j < i
    BY <1>1
  <2>2. \A j \in 1 .. m : j < i => j \in 1 .. i - 1
    BY <1>1
  <2>3. Below(s[i]) = {s[j] : j \in 1 .. i - 1}
    BY <1>2, <1>3, <2>1, <2>2
  <2>4. Cardinality({s[j] : j \in 1 .. i - 1}) = i - 1
    BY <1>4, <2>1, Counted
  <2> QED BY <2>3, <2>4
<1> DEFINE chosen(i) == CHOOSE e \in S : Cardinality(Below(e)) = i - 1
<1>7. ASSUME NEW i \in 1 .. m PROVE chosen(i) = s[i]
  <2>1. s[i] \in S /\ Cardinality(Below(s[i])) = i - 1
    BY <1>1, <1>6
  <2> HIDE DEF Below
  <2>2. chosen(i) \in S /\ Cardinality(Below(chosen(i))) = i - 1
    BY <2>1
  <2> HIDE DEF chosen
  <2>3. PICK j \in 1 .. m : s[j] = chosen(i)
    BY <1>2, <2>2
  <2>4. j - 1 = i - 1
    BY <1>6, <2>2, <2>3
  <2> QED BY <2>3, <2>4
<1>8. Abstract!Ascending(S) = [i \in 1 .. m |-> chosen(i)]
  <2>1. \A T : Abstract!Cardinality(T) = Cardinality(T)
    BY DEF Abstract!Cardinality, Cardinality
  <2>2. \A j, k : Abstract!Before(j, k) = Before(j, k)
    BY DEF Abstract!Before, Before
  <2> HIDE DEF m
  <2>3. Abstract!Ascending(S) =
          [i \in 1 .. Abstract!Cardinality(S) |->
             CHOOSE e \in S : Abstract!Cardinality({d \in S : Abstract!Before(d.key, e.key)}) = i - 1]
    BY DEF Abstract!Ascending
  <2>4. \A e : {d \in S : Abstract!Before(d.key, e.key)} = Below(e)
    BY <2>2
  <2> HIDE DEF Below
  <2> QED BY <1>5, <2>1, <2>3, <2>4
<1> HIDE DEF chosen
<1> QED BY <1>1, <1>7, <1>8

LEMMA ListsMore ==
  ASSUME NEW S, NEW s, Lists(s, S), NEW e \in Entries, \A x \in S : Before(x.key, e.key)
  PROVE  Lists(Append(s, e), S \cup {e})
<1> DEFINE t == <<e>>
<1>1. Lists(t, {e})
  BY ListsOne
<1>2. \A x \in S, y \in {e} : Before(x.key, y.key)
  OBVIOUS
<1>3. Lists(s \o t, S \cup {e})
  <2> HIDE DEF t
  <2> QED BY <1>1, <1>2, ListsBoth
<1>4. s \in Seq(Entries)
  BY DEF Lists
<1>5. Append(s, e) = s \o t
  BY <1>4
<1> QED BY <1>3, <1>5

-----------------------------------------------------------------------------
(* Any calls                                                                *)

\* Between two turns of its loop pop() has the first of what overlaps the range, in
\* ascending order, and the rest of it is still in the tree.
Removal ==
  popping # None =>
    /\ Lists(results, Results)
    /\ \A e \in Results : Overlaps(e.key, popping)
    /\ \A e \in Results, d \in Overlapping(Contents(root), popping) : Before(e.key, d.key)

IInv ==
  /\ root \in AVL
  /\ popping \in Keys \cup {None}
  /\ results \in Seq(Entries)
  /\ Removal

LEMMA InitIInv == Init => IInv
<1> SUFFICES ASSUME Init PROVE IInv
  OBVIOUS
<1>1. root \in AVL /\ popping = None /\ results \in Seq(Entries)
  BY AVLUnfold DEF Init
<1> QED BY <1>1 DEF IInv, Removal

\* What a turn that takes something out does.
LEMMA Turn ==
  ASSUME IInv, PopOne
  PROVE  LET r == PopNode(root, popping).ret
             e == EntryOf(r)
         IN  /\ popping \in Keys /\ popping' = popping
             /\ root' \in AVL /\ e \in Contents(root) /\ Contents(root') = Contents(root) \ {e}
             /\ Overlaps(e.key, popping) /\ e \in Entries
             /\ \A d \in Overlapping(Contents(root'), popping) : Before(e.key, d.key)
             /\ results' = Append(results, e)
<1> DEFINE p == PopNode(root, popping)
           r == p.ret
           e == EntryOf(r)
<1>1. /\ root \in AVL /\ popping \in Keys /\ popping' = popping
      /\ r # NULL /\ root' = p.tree /\ results' = Append(results, e)
  BY DEF IInv, PopOne
<1>2. First(root, r, popping) /\ Taken(root, p.tree, e)
  BY <1>1, Popping DEF FirstTaken
<1> HIDE DEF r, p
<1>3. r \in AVL /\ e.key = r.key /\ e \in Contents(root) /\ Contents(root) \subseteq Entries
  BY <1>1, <1>2, Parts, ContentsTypes DEF First
<1> HIDE DEF e
<1>4. root' \in AVL /\ Contents(root') = Contents(root) \ {e}
  BY <1>1, <1>2 DEF Taken
<1>5. /\ Overlaps(e.key, popping)
      /\ \A d \in Contents(root) : Overlaps(d.key, popping) => d = e \/ Before(r.key, d.key)
  BY <1>2 DEF First, e
<1>6. \A d \in Overlapping(Contents(root'), popping) : Before(e.key, d.key)
  BY <1>3, <1>4, <1>5 DEF Overlapping
<1>7. /\ popping \in Keys /\ popping' = popping
      /\ root' \in AVL /\ e \in Contents(root) /\ Contents(root') = Contents(root) \ {e}
      /\ Overlaps(e.key, popping) /\ e \in Entries
      /\ \A d \in Overlapping(Contents(root'), popping) : Before(e.key, d.key)
      /\ results' = Append(results, e)
  BY <1>1, <1>3, <1>4, <1>5, <1>6
<1> QED BY <1>7 DEF e, r, p

LEMMA NextIInv == IInv /\ [Next]_vars => IInv'
<1> SUFFICES ASSUME IInv, [Next]_vars PROVE IInv'
  OBVIOUS
<1>0. /\ root \in AVL /\ popping \in Keys \cup {None} /\ results \in Seq(Entries)
      /\ <<>> \in Seq(Entries)
      /\ \A k \in Keys : k # None
  BY KeyTypes DEF IInv
<1>1. CASE Insert
  <2>1. root' \in AVL /\ popping' = None /\ results' \in Seq(Entries)
    BY <1>0, <1>1, Inserting DEF Insert
  <2> QED BY <2>1 DEF IInv, Removal
<1>2. CASE StartPop
  <2>1. root' \in AVL /\ popping' \in Keys /\ results' = <<>>
    BY <1>0, <1>2 DEF StartPop
  <2>2. Results' = {}
    BY <2>1 DEF Results
  <2> QED BY <1>0, <2>1, <2>2, ListsEmpty DEF IInv, Removal
<1>3. CASE PopOne
  <2> DEFINE r == PopNode(root, popping).ret
             e == EntryOf(r)
  <2>1. /\ popping \in Keys /\ popping' = popping
        /\ root' \in AVL /\ e \in Contents(root) /\ Contents(root') = Contents(root) \ {e}
        /\ Overlaps(e.key, popping) /\ e \in Entries
        /\ \A d \in Overlapping(Contents(root'), popping) : Before(e.key, d.key)
        /\ results' = Append(results, e)
    BY <1>3, Turn
  <2> HIDE DEF e
  <2>2. /\ Lists(results, Results)
        /\ \A x \in Results : Overlaps(x.key, popping)
        /\ \A x \in Results, d \in Overlapping(Contents(root), popping) : Before(x.key, d.key)
    BY <1>0, <2>1 DEF IInv, Removal
  <2>3. e \in Overlapping(Contents(root), popping)
    BY <2>1 DEF Overlapping
  <2>4. Lists(results', Results \cup {e})
    BY <2>1, <2>2, <2>3, ListsMore
  <2>5. Results' = Results \cup {e}
    BY <2>4 DEF Lists, Results
  <2>6. \A x \in Results', d \in Overlapping(Contents(root'), popping) : Before(x.key, d.key)
    BY <2>1, <2>2, <2>5 DEF Overlapping
  <2>7. \A x \in Results' : Overlaps(x.key, popping)
    BY <2>1, <2>2, <2>5
  <2>8. Removal'
    BY <2>1, <2>4, <2>5, <2>6, <2>7 DEF Removal
  <2>9. results' \in Seq(Entries)
    BY <2>4 DEF Lists
  <2> QED BY <2>1, <2>8, <2>9 DEF IInv
<1>4. CASE EndPop
  <2>1. root' \in AVL /\ popping' = None /\ results' \in Seq(Entries)
    BY <1>0, <1>4 DEF EndPop
  <2> QED BY <2>1 DEF IInv, Removal
<1>5. CASE Find
  <2>1. root' \in AVL /\ popping' = None /\ results' \in Seq(Entries)
    BY <1>0, <1>5, Finding DEF Find, Lists
  <2> QED BY <2>1 DEF IInv, Removal
<1>6. CASE All
  <2>1. root' \in AVL /\ popping' = None /\ results' \in Seq(Entries)
    BY <1>0, <1>6, Listing DEF All, Lists
  <2> QED BY <2>1 DEF IInv, Removal
<1>7. CASE UNCHANGED vars
  BY <1>7 DEF IInv, Removal, Results, vars
<1> QED BY <1>1, <1>2, <1>3, <1>4, <1>5, <1>6, <1>7 DEF Next

\* The tree is as it should be throughout, in the middle of a removal too, and a removal
\* has what it has taken out in order.
THEOREM AlwaysBalanced == Spec => []IInv
<1> QED BY InitIInv, NextIInv, PTL DEF Spec

-----------------------------------------------------------------------------
(* Node::invariants                                                         *)

\* The assertions of Node::invariants hold at every node after any calls, for every set
\* of ranges and values: the tree is in order and balanced, and every node knows its
\* height and the least and greatest point below it.
THEOREM NodeInvariants == Spec => []Invariants
<1>1. IInv => Invariants
  <2> SUFFICES ASSUME IInv PROVE Invariants
    OBVIOUS
  <2>1. /\ root \in AVL /\ popping \in Keys \cup {None} /\ results \in Seq(Entries)
        /\ Contents(root) \subseteq Entries
        /\ NodesIn(root) \subseteq AVL \ {NULL}
    BY ContentsTypes DEF IInv
  <2>2. ASSUME NEW n \in AVL \ {NULL}
        PROVE  /\ \A m \in NodesIn(n.left) : Before(m.key, n.key)
               /\ \A m \in NodesIn(n.right) : Before(n.key, m.key)
    <3>1. /\ AllBefore(Contents(n.left), n.key) /\ AllAfter(Contents(n.right), n.key)
          /\ n.left \in AVL /\ n.right \in AVL
      BY Parts
    <3>2. \A m \in NodesIn(n.left) \cup NodesIn(n.right) : EntryOf(m).key = m.key
      BY <3>1 DEF EntryOf
    <3> QED BY <3>1, <3>2 DEF AllBefore, AllAfter, Contents
  <2>3. ASSUME NEW n \in AVL \ {NULL}
        PROVE  /\ BalanceFactor(n) \in {-1, 0, 1}
               /\ n.height = Greater(Height(n.left), Height(n.right)) + 1
               /\ n.lower \in {m.key[1] : m \in NodesIn(n)} /\ \A m \in NodesIn(n) : n.lower <= m.key[1]
               /\ n.upper \in {m.key[2] : m \in NodesIn(n)} /\ \A m \in NodesIn(n) : m.key[2] <= n.upper
    <3>1. Bounded(n)
      BY Bounds
    <3>2. \A m \in NodesIn(n) : EntryOf(m) \in Contents(n) /\ EntryOf(m).key = m.key
      BY DEF EntryOf, Contents
    <3>3. \A e \in Contents(n) : \E m \in NodesIn(n) : e.key = m.key
      BY <3>2 DEF Contents
    <3>4. /\ n.lower \in {m.key[1] : m \in NodesIn(n)}
          /\ n.upper \in {m.key[2] : m \in NodesIn(n)}
      <4>1. PICK d \in Contents(n), e \in Contents(n) : n.lower = d.key[1] /\ n.upper = e.key[2]
        BY <3>1 DEF Bounded
      <4>2. PICK k \in NodesIn(n), m \in NodesIn(n) : d.key = k.key /\ e.key = m.key
        BY <3>3
      <4>3. n.lower = k.key[1] /\ n.upper = m.key[2]
        BY <4>1, <4>2
      <4> QED BY <4>3
    <3>5. \A m \in NodesIn(n) : n.lower <= m.key[1] /\ m.key[2] <= n.upper
      BY <3>1, <3>2 DEF Bounded
    <3> QED BY <3>4, <3>5, NodeTypes DEF Local
  <2>4. TypeOK
    BY <2>1, <2>2 DEF TypeOK
  <2> QED BY <2>1, <2>3, <2>4 DEF Invariants
<1> QED BY <1>1, AlwaysBalanced, PTL

-----------------------------------------------------------------------------
(* The map                                                                  *)

\* insert, pop, find and all do to the tree what a map from ranges to values does, for
\* every set of ranges and values; what a removal has taken out counts as there until it
\* returns.
THEOREM TreeIsMap == Spec => Implements
<1> DEFINE Rest == IF popping = None THEN {} ELSE Results
           M == Contents(root) \cup Rest
           A == IF popping = None THEN results ELSE <<>>
           E == Abstract!Entries
<1>1. Init => Abstract!Init
  <2> SUFFICES ASSUME Init PROVE Abstract!Init
    OBVIOUS
  <2>1. popping = None /\ results = <<>> /\ Contents(root) = {}
    BY ContentsUnfold DEF Init
  <2> QED BY <2>1 DEF Abstract!Init
<1>2. IInv /\ [Next]_vars => [Abstract!Next]_Abstract!vars
  <2> SUFFICES ASSUME IInv, [Next]_vars PROVE [Abstract!Next]_Abstract!vars
    OBVIOUS
  <2>0. /\ root \in AVL /\ popping \in Keys \cup {None} /\ \A k \in Keys : k # None
    BY KeyTypes DEF IInv
  <2>1. CASE Insert
    <3>1. PICK e \in Entries : root' = InsertNode(root, e)
      BY <2>1 DEF Insert
    <3>2. popping = None /\ popping' = None /\ results' = <<>>
      BY <2>1 DEF Insert
    <3>3. Contents(root') = {d \in Contents(root) : d.key # e.key} \cup {e}
      BY <2>0, <3>1, Inserting DEF Without
    <3>4. M = Contents(root) /\ M' = Contents(root') /\ A' = <<>>
      BY <3>2
    <3>5. e \in E
      BY DEF Entries, Abstract!Entries
    <3>6. Abstract!Insert
      BY <3>3, <3>4, <3>5 DEF Abstract!Insert
    <3> QED BY <3>6 DEF Abstract!Next
  <2>2. CASE StartPop
    <3>1. popping = None /\ popping' \in Keys /\ results' = <<>> /\ root' = root
      BY <2>2 DEF StartPop
    <3>2. popping' # None /\ Results' = {}
      BY <2>0, <3>1 DEF Results
    <3>3. M' = M /\ A' = <<>>
      BY <3>1, <3>2
    <3>4. Abstract!Call
      BY <3>3 DEF Abstract!Call
    <3> QED BY <3>4 DEF Abstract!Next
  <2>3. CASE PopOne
    <3> DEFINE e == EntryOf(PopNode(root, popping).ret)
    <3>1. /\ popping \in Keys /\ popping' = popping
          /\ e \in Contents(root) /\ Contents(root') = Contents(root) \ {e}
          /\ e \in Entries /\ results' = Append(results, e)
      BY <2>3, Turn
    <3> HIDE DEF e
    <3>2. results \in Seq(Entries) /\ popping # None
      BY <2>0, <3>1 DEF IInv
    <3>3. Results' = Results \cup {e}
      <4>1. /\ Len(results') = Len(results) + 1 /\ Len(results) \in Nat
            /\ \A i \in 1 .. Len(results') : results'[i] = IF i <= Len(results) THEN results[i] ELSE e
        BY <3>1, <3>2
      <4> QED BY <4>1 DEF Results
    <3>4. M' = M /\ A' = A
      BY <3>1, <3>2, <3>3
    <3> QED BY <3>4 DEF Abstract!vars
  <2>4. CASE EndPop
    <3>1. /\ popping \in Keys /\ popping # None /\ popping' = None /\ root' = root /\ results' = results
          /\ PopNode(root, popping).ret = NULL
      BY <2>0, <2>4 DEF EndPop
    <3>2. \A d \in Contents(root) : ~ Overlaps(d.key, popping)
      BY <2>0, <3>1, Popping DEF FirstTaken
    <3>3. Lists(results, Results) /\ \A d \in Results : Overlaps(d.key, popping)
      BY <3>1 DEF IInv, Removal
    <3>4. M = Contents(root) \cup Results /\ M' = Contents(root) /\ A' = results
      BY <3>1
    <3>5. Abstract!Found(popping) = Results
      BY <3>2, <3>3, <3>4 DEF Abstract!Found, Abstract!Overlaps, Overlaps
    <3>6. results = Abstract!Ascending(Results)
      BY <3>3, AscendingIs
    <3>7. M' = M \ Results
      BY <3>2, <3>3, <3>4
    <3>8. Abstract!Pop
      BY <3>1, <3>4, <3>5, <3>6, <3>7 DEF Abstract!Pop
    <3> QED BY <3>8 DEF Abstract!Next
  <2>5. CASE Find
    <3>1. PICK key \in Keys : results' = FindIn(root, key)
      BY <2>5 DEF Find
    <3>2. popping = None /\ popping' = None /\ root' = root
      BY <2>5 DEF Find
    <3>3. M = Contents(root) /\ M' = M /\ A' = results'
      BY <3>2
    <3>4. Abstract!Found(key) = Overlapping(Contents(root), key)
      BY <3>3 DEF Abstract!Found, Abstract!Overlaps, Overlapping, Overlaps
    <3>5. results' = Abstract!Ascending(Abstract!Found(key))
      BY <2>0, <3>1, <3>4, Finding, AscendingIs
    <3>6. Abstract!Find
      BY <3>3, <3>5 DEF Abstract!Find
    <3> QED BY <3>6 DEF Abstract!Next
  <2>6. CASE All
    <3>1. popping = None /\ popping' = None /\ root' = root /\ results' = AllIn(root)
      BY <2>6 DEF All
    <3>2. M = Contents(root) /\ M' = M /\ A' = results'
      BY <3>1
    <3>3. results' = Abstract!Ascending(M)
      BY <2>0, <3>1, <3>2, Listing, AscendingIs
    <3>4. Abstract!All
      BY <3>2, <3>3 DEF Abstract!All
    <3> QED BY <3>4 DEF Abstract!Next
  <2>7. CASE UNCHANGED vars
    BY <2>7 DEF vars, Abstract!vars, Results
  <2> QED BY <2>1, <2>2, <2>3, <2>4, <2>5, <2>6, <2>7 DEF Next
<1> QED BY <1>1, <1>2, AlwaysBalanced, PTL DEF Spec, Implements, Abstract!Spec

-----------------------------------------------------------------------------
(* Turns of pop()                                                           *)

\* There are as many nodes as entries.
LEMMA NodesCounted ==
  ASSUME NEW t \in AVL
  PROVE  Cardinality(NodesIn(t)) = Cardinality(Contents(t))
<1> DEFINE S == {n \in AVL : \A l, m \in NodesIn(n) : l.key = m.key => l = m}
<1>1. NULL \in S
  BY AVLUnfold, NodesUnfold
<1>2. ASSUME NEW n \in AVL \ {NULL}, n.left \in S, n.right \in S PROVE n \in S
  <2> SUFFICES ASSUME NEW l \in NodesIn(n), NEW m \in NodesIn(n), l.key = m.key PROVE l = m
    OBVIOUS
  <2>1. /\ n.left \in AVL /\ n.right \in AVL /\ n.key \in Keys
        /\ AllBefore(Contents(n.left), n.key) /\ AllAfter(Contents(n.right), n.key)
    BY Parts
  <2>2. NodesIn(n) = {n} \cup NodesIn(n.left) \cup NodesIn(n.right)
    BY NodesUnfold
  <2>3. /\ \A x \in NodesIn(n.left) : Before(x.key, n.key) /\ x.key \in Keys
        /\ \A x \in NodesIn(n.right) : Before(n.key, x.key) /\ x.key \in Keys
    <3>1. \A x \in NodesIn(n.left) \cup NodesIn(n.right) : x \in AVL \ {NULL} /\ x.key \in Keys
      BY <2>1, ContentsTypes, NodeTypes
    <3>2. /\ \A x \in NodesIn(n.left) : EntryOf(x) \in Contents(n.left) /\ EntryOf(x).key = x.key
          /\ \A x \in NodesIn(n.right) : EntryOf(x) \in Contents(n.right) /\ EntryOf(x).key = x.key
      BY DEF Contents, EntryOf
    <3> QED BY <2>1, <3>1, <3>2 DEF AllBefore, AllAfter
  <2>4. ~ Before(n.key, n.key)
    BY <2>1, BeforeOrders
  <2>5. \A x \in NodesIn(n.left), y \in NodesIn(n.right) : x.key # y.key
    BY <2>1, <2>3, BeforeOrders
  <2> QED BY <1>2, <2>2, <2>3, <2>4, <2>5
<1>3. AVL \subseteq S
  <2> HIDE DEF S
  <2> QED BY <1>1, <1>2, TreeInduction
<1> DEFINE b == [n \in NodesIn(t) |-> EntryOf(n)]
<1>4. b \in [NodesIn(t) -> Contents(t)] /\ \A e \in Contents(t) : \E n \in NodesIn(t) : b[n] = e
  BY DEF Contents
<1>5. \A l, m \in NodesIn(t) : b[l] = b[m] => l = m
  <2>1. \A n \in NodesIn(t) : b[n].key = n.key
    BY DEF EntryOf
  <2> HIDE DEF b
  <2> QED BY <1>3, <2>1
<1> HIDE DEF b
<1>6. b \in Bijection(NodesIn(t), Contents(t))
  BY <1>4, <1>5, Fun_IsBij
<1>7. ExistsBijection(NodesIn(t), Contents(t))
  BY <1>6, Fun_ExistsBij
<1> QED BY <1>7, ContentsTypes, FS_Bijection

\* Every turn of pop's loop that goes on makes the tree smaller, so pop returns, for every
\* set of ranges and values.
THEOREM TurnsShrink == Spec => PopShrinks
<1>1. IInv /\ [Next]_vars
        => [popping # None /\ popping' # None
              => Cardinality(NodesIn(root')) < Cardinality(NodesIn(root))]_vars
  <2> SUFFICES ASSUME IInv, Next, popping # None, popping' # None
               PROVE  Cardinality(NodesIn(root')) < Cardinality(NodesIn(root))
    OBVIOUS
  <2>1. PopOne
    BY DEF Next, Insert, StartPop, EndPop, Find, All
  <2> DEFINE e == EntryOf(PopNode(root, popping).ret)
  <2>2. root' \in AVL /\ e \in Contents(root) /\ Contents(root') = Contents(root) \ {e}
    BY <2>1, Turn
  <2> HIDE DEF e
  <2>3. root \in AVL /\ IsFiniteSet(Contents(root))
    BY ContentsTypes DEF IInv
  <2>4. Cardinality(Contents(root')) = Cardinality(Contents(root)) - 1 /\ Cardinality(Contents(root)) \in Nat
    BY <2>2, <2>3, FS_RemoveElement, FS_CardinalityType
  <2>5. Cardinality(NodesIn(root')) = Cardinality(Contents(root'))
        /\ Cardinality(NodesIn(root)) = Cardinality(Contents(root))
    BY <2>2, <2>3, NodesCounted
  <2> QED BY <2>4, <2>5
<1> QED BY <1>1, AlwaysBalanced, PTL DEF Spec, PopShrinks

=============================================================================
