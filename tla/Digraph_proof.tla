--------------------------- MODULE Digraph_proof ---------------------------
(***************************************************************************)
(* digraph computes f(x) as the union of g over the nodes x leads to, for  *)
(* every relation.                                                         *)
(*                                                                         *)
(* What is claimed of a finished component rests on what holds of the      *)
(* unfinished ones: what each place of the stack has been told by its      *)
(* successors (SeenKept), what the finished calls have told the active one *)
(* that made them (Returned), and which nodes reach each other (Connected).*)
(***************************************************************************)
EXTENDS Digraph, LeastElement

Last == Len(frames)

\* As functions, the references do not change with the state.
Reach == [x \in Nodes |-> ReachedFrom(x)]
Want == [x \in Nodes |-> Wanted(x)]

\* A node is not visited, finished, or in one place of the stack, with the
\* weight of that place or of an older one.
Stacked ==
  /\ \A p, q \in DOMAIN stack : stack[p] = stack[q] => p = q
  /\ \A p \in DOMAIN stack : weights[stack[p]] \in 1 .. p
  /\ \A x \in Nodes :
       \/ weights[x] = 0
       \/ weights[x] = -1
       \/ \E p \in DOMAIN stack : stack[p] = x

\* The call stack: each call is for the successor its caller has reached.
Calls ==
  /\ IF frames = <<>> THEN stack = <<>> ELSE frames[1].d = 1
  /\ \A i, j \in DOMAIN frames : i < j => frames[i].d < frames[j].d
  /\ \A i \in DOMAIN frames :
       /\ frames[i].d \in DOMAIN stack /\ stack[frames[i].d] = frames[i].x
       /\ frames[i].rest \subseteq r[frames[i].x]
       /\ i < Last => frames[i].rest # {} /\ First(frames[i].rest) = frames[i + 1].x

\* The successors that the loop for the node at place p has gone by.
Seen(p) ==
  {y \in r[stack[p]] : \A i \in DOMAIN frames : frames[i].d = p => y \notin frames[i].rest}

\* They are finished and their sets taken, or on the stack and their place at
\* least the weight; none of them is above the place of an active call that is
\* itself above p.
SeenKept ==
  \A p \in DOMAIN stack : \A y \in Seen(p) :
    /\ weights[y] # 0
    /\ weights[y] = -1 => f[y] \subseteq f[stack[p]]
    /\ \A q \in DOMAIN stack : stack[q] = y =>
         /\ weights[stack[p]] <= q
         /\ \A i \in DOMAIN frames : frames[i].d <= p \/ q < frames[i].d

\* The nodes whose calls have returned to call i, or to a call it made.
Within(i, p) == frames[i].d < p /\ (i < Last => p < frames[i + 1].d)

\* The weight and the set of the node at p have been merged into those of x.
PassedTo(x, p) == weights[x] <= weights[stack[p]] /\ f[stack[p]] \subseteq f[x]

\* They have been merged into the caller's, or into those of the successor that
\* the caller, back from the recursive call, merges next.
Returned ==
  \A i \in DOMAIN frames : \A p \in DOMAIN stack : Within(i, p) =>
    \/ PassedTo(frames[i].x, p)
    \/ /\ i = Last /\ frames[i].rest # {}
       /\ weights[First(frames[i].rest)] > 0
       /\ PassedTo(First(frames[i].rest), p)

\* A weight is the place of a node that is reached; what has returned to a call
\* reaches its node, and so does what is older; a call reaches what is newer.
Connected ==
  \A p \in DOMAIN stack :
    /\ stack[weights[stack[p]]] \in Reach[stack[p]]
    /\ \A i \in DOMAIN frames :
         /\ (i < Last => p < frames[i + 1].d) => frames[i].x \in Reach[stack[p]]
         /\ frames[i].d <= p => stack[p] \in Reach[frames[i].x]

Sound ==
  /\ \A x \in Nodes : f[x] \subseteq Want[x]
  /\ \A p \in DOMAIN stack : g[stack[p]] \subseteq f[stack[p]]

Final == \A x \in Nodes : weights[x] = -1 => f[x] = Want[x] /\ \A y \in r[x] : weights[y] = -1

IInv == TypeOK /\ Stacked /\ Calls /\ SeenKept /\ Returned /\ Connected /\ Sound /\ Final

-----------------------------------------------------------------------------
\* `First' picks a member: std::set has a least one.
LEMMA FirstIn ==
  ASSUME NEW S \in SUBSET Nodes, S # {}
  PROVE  First(S) \in S
<1>1. \E y \in S : \A z \in S : y <= z
  BY LeastNat, DigraphAssumption
<1> QED BY <1>1 DEF First

\* A node reaches nothing outside a set that holds it and is closed.
LEMMA ReachInduction ==
  ASSUME NEW x \in Nodes, NEW S \in SUBSET Nodes, x \in S, Closed(S)
  PROVE  Reach[x] \subseteq S
BY DEF Reach, ReachedFrom

\* To reach is reflexive and transitive and holds the relation; a node wants
\* all that the nodes it reaches want.
LEMMA ReachFacts ==
  ASSUME TypeOK
  PROVE  /\ \A x \in Nodes :
              /\ Reach[x] \subseteq Nodes /\ x \in Reach[x] /\ r[x] \subseteq Reach[x]
              /\ Want[x] \subseteq Values /\ g[x] \subseteq Want[x]
         /\ \A x, y, z \in Nodes : y \in Reach[x] /\ z \in Reach[y] => z \in Reach[x]
         /\ \A x, y \in Nodes : y \in Reach[x] => Want[y] \subseteq Want[x]
<1>1. \A x \in Nodes : Reach[x] \subseteq Nodes /\ x \in Reach[x] /\ r[x] \subseteq Reach[x]
  BY DEF TypeOK, Reach, ReachedFrom, Closed
<1>2. \A x, y, z \in Nodes : y \in Reach[x] /\ z \in Reach[y] => z \in Reach[x]
  BY DEF Reach, ReachedFrom
<1>3. \A x \in Nodes : Want[x] = UNION {g[y] : y \in Reach[x]}
  BY DEF Want, Wanted, Reach
<1>4. \A x \in Nodes : Want[x] \subseteq Values /\ g[x] \subseteq Want[x]
  <2> SUFFICES ASSUME NEW x \in Nodes
               PROVE  Want[x] \subseteq Values /\ g[x] \subseteq Want[x]
    OBVIOUS
  <2>1. \A y \in Reach[x] : g[y] \subseteq Values
    BY <1>1 DEF TypeOK
  <2>2. x \in Reach[x]
    BY <1>1
  <2> QED BY <1>3, <2>1, <2>2
<1>5. \A x, y \in Nodes : y \in Reach[x] => Want[y] \subseteq Want[x]
  <2> SUFFICES ASSUME NEW x \in Nodes, NEW y \in Nodes, y \in Reach[x]
               PROVE  Want[y] \subseteq Want[x]
    OBVIOUS
  <2>1. Reach[y] \subseteq Reach[x]
    BY <1>1, <1>2
  <2> QED BY <2>1, <1>3
<1> QED BY <1>1, <1>2, <1>4, <1>5

\* The relation and the given sets are never written.
LEMMA ReachKept ==
  ASSUME r' = r, g' = g
  PROVE  Reach' = Reach /\ Want' = Want
BY DEF Reach, Want, Wanted, ReachedFrom, Closed

-----------------------------------------------------------------------------
\* Before the first call nothing is visited and both stacks are empty.
LEMMA InitIInv == Init => IInv
<1> SUFFICES ASSUME Init PROVE IInv
  OBVIOUS
<1> USE DEF Init
<1>1. TypeOK
  BY DigraphAssumption DEF TypeOK
<1>2. Stacked /\ Calls
  BY DEF Stacked, Calls
<1>3. SeenKept /\ Returned /\ Connected
  BY DEF SeenKept, Returned, Connected
<1>4. Sound /\ Final
  BY DEF Sound, Final
<1> QED BY <1>1, <1>2, <1>3, <1>4 DEF IInv

\* What the parts of the invariant say of the two stacks, with their bounds.
LEMMA Shape ==
  ASSUME IInv
  PROVE  /\ Last \in Nat /\ DOMAIN frames = 1 .. Last
         /\ Len(stack) \in Nat /\ DOMAIN stack = 1 .. Len(stack)
         /\ \A x \in Nodes : weights[x] \in Int /\ r[x] \subseteq Nodes
         /\ \A p \in 1 .. Len(stack) : stack[p] \in Nodes /\ weights[stack[p]] \in 1 .. p
         /\ \A i \in 1 .. Last :
              /\ frames[i] \in Frame /\ frames[i].x \in Nodes /\ frames[i].rest \subseteq Nodes
              /\ frames[i].d \in 1 .. Len(stack) /\ stack[frames[i].d] = frames[i].x
              /\ \A j \in 1 .. Last : i < j => frames[i].d < frames[j].d
<1> USE DEF IInv
<1>1. Last \in Nat /\ DOMAIN frames = 1 .. Last /\ \A i \in 1 .. Last : frames[i] \in Frame
  BY DEF TypeOK, Last
<1>2. /\ Len(stack) \in Nat /\ DOMAIN stack = 1 .. Len(stack)
      /\ \A p \in 1 .. Len(stack) : stack[p] \in Nodes
      /\ \A x \in Nodes : weights[x] \in Int /\ r[x] \subseteq Nodes
  BY DEF TypeOK
<1>3. \A i \in 1 .. Last : frames[i].x \in Nodes /\ frames[i].rest \subseteq Nodes
  BY <1>1 DEF Frame
<1>4. \A p \in 1 .. Len(stack) : weights[stack[p]] \in 1 .. p
  BY <1>2 DEF Stacked
<1>5. \A i \in 1 .. Last :
        /\ frames[i].d \in 1 .. Len(stack) /\ stack[frames[i].d] = frames[i].x
        /\ \A j \in 1 .. Last : i < j => frames[i].d < frames[j].d
  BY <1>1, <1>2 DEF Calls
<1> QED BY <1>1, <1>2, <1>3, <1>4, <1>5

\* A call of traverse keeps the invariant, whoever makes it.
LEMMA EnterStep ==
  ASSUME IInv, NEW x \in Nodes, weights[x] = 0, Enter(x),
         frames # <<>> => top.rest # {} /\ x = First(top.rest)
  PROVE  IInv'
<1> DEFINE n == Last
           m == Len(stack)
<1> USE DEF IInv
<1>0. /\ r' = r /\ g' = g
      /\ Reach' = Reach /\ Want' = Want
      /\ n \in Nat /\ DOMAIN frames = 1 .. n /\ m \in Nat /\ DOMAIN stack = 1 .. m
      /\ \A y \in Nodes : weights[y] \in Int /\ r[y] \subseteq Nodes
  BY Shape, ReachKept DEF Enter
<1>1. /\ stack' \in Seq(Nodes) /\ DOMAIN stack' = 1 .. m + 1
      /\ stack'[m + 1] = x /\ \A p \in 1 .. m : stack'[p] = stack[p]
  BY <1>0 DEF Enter, TypeOK
<1>2. [x |-> x, d |-> m + 1, rest |-> r[x]] \in Frame
  BY <1>0 DEF Frame
<1>3. /\ frames' \in Seq(Frame) /\ Last' = n + 1 /\ DOMAIN frames' = 1 .. n + 1
      /\ frames'[n + 1].x = x /\ frames'[n + 1].d = m + 1 /\ frames'[n + 1].rest = r[x]
      /\ \A i \in 1 .. n : frames'[i] = frames[i]
  BY <1>0, <1>2 DEF Enter, TypeOK, Last
<1>4. /\ weights'[x] = m + 1 /\ \A y \in Nodes : y # x => weights'[y] = weights[y]
      /\ f'[x] = g[x] /\ \A y \in Nodes : y # x => f'[y] = f[y]
  BY <1>0 DEF Enter, TypeOK
<1>5. \A p \in 1 .. m : stack[p] \in Nodes /\ stack[p] # x /\ weights[stack[p]] \in 1 .. p
  BY Shape
<1>6. \A i \in 1 .. n :
        /\ frames[i].x \in Nodes /\ frames[i].d \in 1 .. m /\ stack[frames[i].d] = frames[i].x
        /\ frames[i].rest \subseteq Nodes
        /\ \A j \in 1 .. n : i < j => frames[i].d < frames[j].d
  BY Shape
<1>7. n > 0 => frames[n].rest # {} /\ x = First(frames[n].rest) /\ x \in r[frames[n].x]
  <2> SUFFICES ASSUME n > 0
               PROVE  frames[n].rest # {} /\ x = First(frames[n].rest) /\ x \in r[frames[n].x]
    OBVIOUS
  <2>1. frames[n].rest # {} /\ x = First(frames[n].rest)
    BY <1>0 DEF top, Last
  <2>2. x \in frames[n].rest
    BY <1>0, <1>6, <2>1, FirstIn
  <2> QED BY <1>0, <2>1, <2>2 DEF Calls
<1>8. n = 0 => m = 0
  BY <1>0 DEF Calls, TypeOK, Last
<1>11. TypeOK'
  BY <1>0, <1>1, <1>3 DEF TypeOK, Enter
<1>12. Stacked'
  <2>1. ASSUME NEW p \in 1 .. m + 1, NEW q \in 1 .. m + 1, stack'[p] = stack'[q]
        PROVE  p = q
    <3>1. CASE p = m + 1 /\ q = m + 1
      BY <3>1
    <3>2. CASE p \in 1 .. m /\ q \in 1 .. m
      BY <1>0, <1>1, <2>1, <3>2 DEF Stacked
    <3>3. CASE p = m + 1 /\ q \in 1 .. m
      BY <1>1, <1>5, <2>1, <3>3
    <3>4. CASE p \in 1 .. m /\ q = m + 1
      BY <1>1, <1>5, <2>1, <3>4
    <3> QED BY <1>0, <3>1, <3>2, <3>3, <3>4
  <2>2. \A p \in 1 .. m + 1 : weights'[stack'[p]] \in 1 .. p
    BY <1>0, <1>1, <1>4, <1>5 DEF Stacked
  <2>3. \A y \in Nodes : weights'[y] = 0 \/ weights'[y] = -1 \/ \E p \in 1 .. m + 1 : stack'[p] = y
    BY <1>0, <1>1, <1>4 DEF Stacked
  <2> QED BY <1>1, <2>1, <2>2, <2>3 DEF Stacked
<1>13. Calls'
  <2>1. frames' # <<>> /\ frames'[1].d = 1
    BY <1>0, <1>3, <1>8 DEF Calls
  <2>2. \A i, j \in 1 .. n + 1 : i < j => frames'[i].d < frames'[j].d
    <3> SUFFICES ASSUME NEW i \in 1 .. n + 1, NEW j \in 1 .. n + 1, i < j
                 PROVE  frames'[i].d < frames'[j].d
      OBVIOUS
    <3>1. i \in 1 .. n /\ frames'[i].d = frames[i].d /\ frames[i].d \in 1 .. m
      BY <1>0, <1>3, <1>6
    <3>2. CASE j = n + 1
      BY <1>0, <1>3, <3>1, <3>2
    <3>3. CASE j # n + 1
      BY <1>0, <1>3, <1>6, <3>1, <3>3
    <3> QED BY <3>2, <3>3
  <2>3. ASSUME NEW i \in 1 .. n + 1
        PROVE  /\ frames'[i].d \in 1 .. m + 1 /\ stack'[frames'[i].d] = frames'[i].x
               /\ frames'[i].rest \subseteq r[frames'[i].x]
               /\ i < n + 1 => frames'[i].rest # {} /\ First(frames'[i].rest) = frames'[i + 1].x
    <3>1. CASE i = n + 1
      BY <1>0, <1>1, <1>3, <3>1
    <3>2. CASE i = n
      BY <1>0, <1>1, <1>3, <1>6, <1>7, <3>2 DEF Calls
    <3>3. CASE i < n
      BY <1>0, <1>1, <1>3, <1>6, <3>3 DEF Calls, Last
    <3> QED BY <1>0, <3>1, <3>2, <3>3
  <2> QED BY <1>0, <1>1, <1>3, <2>1, <2>2, <2>3 DEF Calls, Last
<1>14. SeenKept'
  <2> SUFFICES ASSUME NEW p \in 1 .. m + 1, NEW y \in Seen(p)'
               PROVE  /\ weights'[y] # 0
                      /\ weights'[y] = -1 => f'[y] \subseteq f'[stack'[p]]
                      /\ \A q \in 1 .. m + 1 : stack'[q] = y =>
                           /\ weights'[stack'[p]] <= q
                           /\ \A i \in 1 .. n + 1 : frames'[i].d <= p \/ q < frames'[i].d
    BY <1>1, <1>3 DEF SeenKept
  <2>1. p # m + 1
    BY <1>0, <1>1, <1>3 DEF Seen
  <2>2. p \in 1 .. m /\ y \in Seen(p)
    BY <1>0, <1>1, <1>3, <2>1 DEF Seen
  <2>3. y \in Nodes /\ weights[y] # 0 /\ y # x
    <3>1. stack[p] \in Nodes /\ y \in r[stack[p]]
      BY <1>5, <2>2 DEF Seen
    <3>2. weights[y] # 0
      BY <1>0, <2>2 DEF SeenKept
    <3> QED BY <1>0, <3>1, <3>2
  <2>4. /\ stack'[p] = stack[p] /\ weights'[stack'[p]] = weights[stack[p]]
        /\ f'[stack'[p]] = f[stack[p]] /\ weights'[y] = weights[y] /\ f'[y] = f[y]
    BY <1>1, <1>4, <1>5, <2>2, <2>3
  <2>5. weights'[y] # 0 /\ (weights'[y] = -1 => f'[y] \subseteq f'[stack'[p]])
    BY <1>0, <2>2, <2>4 DEF SeenKept
  <2>6. ASSUME NEW q \in 1 .. m + 1, stack'[q] = y
        PROVE  /\ weights'[stack'[p]] <= q
               /\ \A i \in 1 .. n + 1 : frames'[i].d <= p \/ q < frames'[i].d
    <3>1. q \in 1 .. m /\ stack[q] = y
      BY <1>0, <1>1, <2>3, <2>6
    <3>2. weights[stack[p]] <= q /\ \A i \in 1 .. n : frames[i].d <= p \/ q < frames[i].d
      BY <1>0, <2>2, <3>1 DEF SeenKept
    <3>3. q < frames'[n + 1].d
      BY <1>0, <1>3, <3>1
    <3>4. \A i \in 1 .. n + 1 : i \in 1 .. n \/ i = n + 1
      BY <1>0
    <3> QED BY <1>3, <2>4, <3>2, <3>3, <3>4
  <2> QED BY <2>5, <2>6
<1>15. Returned'
  <2> SUFFICES ASSUME NEW i \in 1 .. n + 1, NEW p \in 1 .. m + 1, Within(i, p)'
               PROVE  PassedTo(frames[i].x, p)'
    BY <1>1, <1>3 DEF Returned
  <2>1. i # n + 1 /\ p \in 1 .. m /\ Within(i, p)
    BY <1>0, <1>1, <1>3, <1>6 DEF Within, Last
  <2>2. PassedTo(frames[i].x, p)
    <3>1. i \in 1 .. n
      BY <1>0, <2>1
    <3>2. ~ (i = Last /\ frames[i].rest # {} /\ weights[First(frames[i].rest)] > 0)
      BY <1>0, <1>7, <3>1
    <3> QED BY <1>0, <2>1, <3>1, <3>2 DEF Returned
  <2>3. frames[i].x # x /\ frames[i].x \in Nodes
    BY <1>0, <1>5, <1>6, <2>1
  <2>4. /\ frames'[i].x = frames[i].x /\ stack'[p] = stack[p]
        /\ stack[p] \in Nodes /\ stack[p] # x
    BY <1>0, <1>1, <1>3, <1>5, <2>1
  <2>5. /\ weights'[frames[i].x] = weights[frames[i].x] /\ weights'[stack[p]] = weights[stack[p]]
        /\ f'[frames[i].x] = f[frames[i].x] /\ f'[stack[p]] = f[stack[p]]
    BY <1>4, <2>3, <2>4
  <2> QED BY <2>2, <2>4, <2>5 DEF PassedTo
<1>16. Connected'
  <2>1. ASSUME NEW i \in 1 .. n PROVE x \in Reach[frames[i].x]
    <3>0. n \in 1 .. n /\ frames[i].d <= frames[n].d
      BY <1>0, <1>6
    <3>1. stack[frames[n].d] \in Reach[frames[i].x]
      BY <1>0, <1>6, <3>0 DEF Connected
    <3> QED BY <1>0, <1>6, <1>7, <3>0, <3>1, ReachFacts
  <2>2. ASSUME NEW p \in 1 .. m PROVE x \in Reach[stack[p]]
    <3>1. n > 0 /\ frames[n].x \in Reach[stack[p]]
      BY <1>0, <1>8 DEF Connected
    <3> QED BY <1>0, <1>5, <1>6, <1>7, <3>1, ReachFacts
  <2>3. x \in Reach[x]
    BY ReachFacts
  <2>4. ASSUME NEW p \in 1 .. m + 1
        PROVE  stack'[weights'[stack'[p]]] \in Reach[stack'[p]]
    <3>1. CASE p = m + 1
      BY <1>0, <1>1, <1>4, <2>3, <3>1
    <3>2. CASE p \in 1 .. m
      <4>1. weights[stack[p]] \in 1 .. m /\ weights'[stack'[p]] = weights[stack[p]]
        BY <1>0, <1>1, <1>4, <1>5, <3>2 DEF Stacked
      <4> QED BY <1>0, <1>1, <3>2, <4>1 DEF Connected
    <3> QED BY <1>0, <3>1, <3>2
  <2>5. ASSUME NEW p \in 1 .. m + 1, NEW i \in 1 .. n + 1, i < n + 1 => p < frames'[i + 1].d
        PROVE  frames'[i].x \in Reach[stack'[p]]
    <3>1. CASE i = n + 1
      BY <1>0, <1>1, <1>3, <2>2, <2>3, <3>1
    <3>2. CASE i = n
      <4>1. i \in 1 .. n /\ frames'[i + 1].d = m + 1 /\ frames'[i] = frames[i]
        BY <1>0, <1>3, <3>2
      <4>2. p \in 1 .. m /\ stack'[p] = stack[p]
        BY <1>0, <1>1, <2>5, <3>2, <4>1
      <4> QED BY <1>0, <3>2, <4>1, <4>2 DEF Connected
    <3>3. CASE i < n
      <4>1. i \in 1 .. n /\ i + 1 \in 1 .. n /\ frames'[i + 1] = frames[i + 1] /\ frames'[i] = frames[i]
        BY <1>0, <1>3, <3>3
      <4>2. p < frames[i + 1].d /\ frames[i + 1].d \in 1 .. m
        BY <1>0, <1>6, <2>5, <4>1
      <4>3. p \in 1 .. m /\ stack'[p] = stack[p]
        BY <1>0, <1>1, <4>2
      <4> QED BY <1>0, <4>1, <4>2, <4>3 DEF Connected
    <3> QED BY <1>0, <3>1, <3>2, <3>3
  <2>6. ASSUME NEW p \in 1 .. m + 1, NEW i \in 1 .. n + 1, frames'[i].d <= p
        PROVE  stack'[p] \in Reach[frames'[i].x]
    <3>1. CASE p = m + 1
      BY <1>0, <1>1, <1>3, <2>1, <2>3, <3>1
    <3>2. CASE p # m + 1
      <4>1. p \in 1 .. m /\ stack'[p] = stack[p]
        BY <1>0, <1>1, <3>2
      <4>2. i \in 1 .. n /\ frames'[i] = frames[i]
        BY <1>0, <1>3, <2>6, <4>1
      <4> QED BY <1>0, <2>6, <4>1, <4>2 DEF Connected
    <3> QED BY <3>1, <3>2
  <2> QED BY <1>0, <1>1, <1>3, <2>4, <2>5, <2>6 DEF Connected
<1>17. Sound'
  <2>1. \A y \in Nodes : f'[y] \subseteq Want[y]
    BY <1>0, <1>4, ReachFacts DEF Sound
  <2>2. \A p \in 1 .. m + 1 : g[stack'[p]] \subseteq f'[stack'[p]]
    BY <1>0, <1>1, <1>4, <1>5 DEF Sound
  <2> QED BY <1>0, <1>1, <2>1, <2>2 DEF Sound
<1>18. Final'
  <2> SUFFICES ASSUME NEW y \in Nodes, weights'[y] = -1
               PROVE  f'[y] = Want[y] /\ \A z \in r[y] : weights'[z] = -1
    BY <1>0 DEF Final
  <2>1. y # x /\ weights[y] = -1
    BY <1>0, <1>4
  <2>2. \A z \in r[y] : z \in Nodes /\ weights[z] = -1 /\ z # x
    BY <1>0, <2>1 DEF Final, TypeOK
  <2> QED BY <1>0, <1>4, <2>1, <2>2 DEF Final
<1> QED BY <1>11, <1>12, <1>13, <1>14, <1>15, <1>16, <1>17, <1>18

\* So does the merge of a successor.
LEMMA MergeStep ==
  ASSUME IInv, Merge
  PROVE  IInv'
<1> DEFINE n == Last
           m == Len(stack)
           x == frames[n].x
           d == frames[n].d
           y == First(frames[n].rest)
<1> USE DEF IInv
<1>0. /\ r' = r /\ g' = g /\ stack' = stack
      /\ Reach' = Reach /\ Want' = Want
      /\ n \in Nat \ {0} /\ DOMAIN frames = 1 .. n /\ m \in Nat /\ DOMAIN stack = 1 .. m
      /\ \A z \in Nodes : weights[z] \in Int /\ r[z] \subseteq Nodes
  BY Shape, ReachKept DEF Merge, TypeOK, Last
<1>1. \A p \in 1 .. m : stack[p] \in Nodes /\ weights[stack[p]] \in 1 .. p
  BY Shape
<1>2. \A i \in 1 .. n :
        /\ frames[i] \in Frame /\ frames[i].x \in Nodes /\ frames[i].rest \subseteq Nodes
        /\ frames[i].d \in 1 .. m /\ stack[frames[i].d] = frames[i].x
        /\ \A j \in 1 .. n : i < j => frames[i].d < frames[j].d
  BY Shape
<1>3. frames[n].rest # {} /\ weights[y] # 0
  BY DEF Merge, top, Last
<1>4. /\ x \in Nodes /\ d \in 1 .. m /\ stack[d] = x /\ weights[x] \in 1 .. d
      /\ y \in frames[n].rest /\ y \in r[x] /\ y \in Nodes
  <2>1. x \in Nodes /\ d \in 1 .. m /\ stack[d] = x /\ y \in frames[n].rest
    BY <1>0, <1>2, <1>3, FirstIn
  <2>2. frames[n].rest \subseteq r[x]
    BY <1>0 DEF Calls
  <2> QED BY <1>0, <1>1, <2>1, <2>2
<1>5. \A i \in 1 .. n : frames[i].d <= d /\ (i < n => frames[i].d < d)
  BY <1>0, <1>2
<1>6. weights[y] = -1 \/ \E q \in 1 .. m : stack[q] = y
  BY <1>0, <1>3, <1>4 DEF Stacked
<1>7. /\ weights' = [weights EXCEPT ![x] = Lower(@, weights[y])]
      /\ f' = [f EXCEPT ![x] = @ \cup f[y]]
      /\ frames' = [frames EXCEPT ![n] = [frames[n] EXCEPT !.rest = @ \ {y}]]
  BY DEF Merge, top, SetTop, Last
<1>8. /\ weights'[x] \in 1 .. d /\ weights'[x] <= weights[x]
      /\ weights[y] > 0 => weights'[x] <= weights[y]
      /\ weights'[x] = weights[x] \/ (weights[y] > 0 /\ weights'[x] = weights[y])
      /\ \A z \in Nodes : z # x => weights'[z] = weights[z]
  <2>1. /\ weights'[x] = Lower(weights[x], weights[y])
        /\ \A z \in Nodes : z # x => weights'[z] = weights[z]
    BY <1>4, <1>7 DEF TypeOK
  <2> QED BY <1>0, <1>4, <2>1 DEF Lower
<1>9. /\ f'[x] = f[x] \cup f[y]
      /\ \A z \in Nodes : z # x => f'[z] = f[z]
  BY <1>4, <1>7 DEF TypeOK
<1>10. /\ frames' \in Seq(Frame) /\ Last' = n /\ DOMAIN frames' = 1 .. n
       /\ \A i \in 1 .. n : i # n => frames'[i] = frames[i]
       /\ frames'[n].x = x /\ frames'[n].d = d /\ frames'[n].rest = frames[n].rest \ {y}
  <2> DEFINE t == [frames[n] EXCEPT !.rest = @ \ {y}]
  <2>1. frames[n] \in Frame /\ frames \in Seq(Frame) /\ n = Len(frames)
    BY <1>0, <1>2 DEF TypeOK, Last
  <2>2. t \in Frame /\ t.x = x /\ t.d = d /\ t.rest = frames[n].rest \ {y}
    BY <2>1 DEF Frame
  <2>3. frames' = [frames EXCEPT ![n] = t]
    BY <1>7
  <2> HIDE DEF t, x, y, d
  <2>4. frames' \in Seq(Frame) /\ Len(frames') = n /\ DOMAIN frames' = 1 .. n
    BY <1>0, <2>1, <2>2, <2>3
  <2>5. frames'[n] = t
    BY <1>0, <2>3
  <2>6. \A i \in 1 .. n : i # n => frames'[i] = frames[i]
    BY <1>0, <2>3
  <2> QED BY <2>2, <2>4, <2>5, <2>6 DEF Last
<1>11. \A i \in 1 .. n : frames'[i].x = frames[i].x /\ frames'[i].d = frames[i].d
  BY <1>10
<1>12. \A p \in 1 .. m : p # d => stack[p] # x
  BY <1>0, <1>4 DEF Stacked
<1> HIDE DEF x, d, y
<1>21. TypeOK'
  <2>1. weights' \in [Nodes -> Int] /\ f' \in [Nodes -> SUBSET Values]
    <3>1. Lower(weights[x], weights[y]) \in Int /\ f[x] \cup f[y] \in SUBSET Values
      BY <1>4 DEF Lower, TypeOK
    <3> QED BY <1>7, <3>1 DEF TypeOK
  <2> QED BY <1>0, <1>10, <2>1 DEF TypeOK
<1>22. Stacked'
  <2>1. \A p \in 1 .. m : weights'[stack[p]] \in 1 .. p
    BY <1>1, <1>4, <1>8, <1>12
  <2>2. ASSUME NEW z \in Nodes
        PROVE  weights'[z] = 0 \/ weights'[z] = -1 \/ \E p \in 1 .. m : stack[p] = z
    BY <1>0, <1>4, <1>8 DEF Stacked
  <2> QED BY <1>0, <2>1, <2>2 DEF Stacked
<1>23. Calls'
  <2>1. frames' # <<>> /\ frames'[1].d = 1
    BY <1>0, <1>10, <1>11 DEF Calls
  <2>2. ASSUME NEW i \in 1 .. n, NEW j \in 1 .. n, i < j
        PROVE  frames'[i].d < frames'[j].d
    BY <1>2, <1>11, <2>2
  <2>3. ASSUME NEW i \in 1 .. n
        PROVE  /\ frames'[i].d \in 1 .. m /\ stack[frames'[i].d] = frames'[i].x
               /\ frames'[i].rest \subseteq r[frames'[i].x]
    <3>1. frames[i].rest \subseteq r[frames[i].x]
      BY <1>0 DEF Calls
    <3>2. frames'[i].rest \subseteq frames[i].rest
      BY <1>10
    <3> QED BY <1>2, <1>11, <3>1, <3>2
  <2>4. ASSUME NEW i \in 1 .. n, i < n
        PROVE  frames'[i].rest # {} /\ First(frames'[i].rest) = frames'[i + 1].x
    <3>1. frames[i].rest # {} /\ First(frames[i].rest) = frames[i + 1].x
      BY <1>0, <2>4 DEF Calls
    <3>2. frames'[i] = frames[i] /\ frames'[i + 1].x = frames[i + 1].x
      BY <1>0, <1>10, <1>11, <2>4
    <3> QED BY <3>1, <3>2
  <2> QED BY <1>0, <1>10, <2>1, <2>2, <2>3, <2>4 DEF Calls
<1>24. SeenKept'
  <2> SUFFICES ASSUME NEW p \in 1 .. m, NEW z \in Seen(p)'
               PROVE  /\ weights'[z] # 0
                      /\ weights'[z] = -1 => f'[z] \subseteq f'[stack[p]]
                      /\ \A q \in 1 .. m : stack[q] = z =>
                           /\ weights'[stack[p]] <= q
                           /\ \A i \in 1 .. n : frames[i].d <= p \/ q < frames[i].d
    BY <1>0, <1>10, <1>11 DEF SeenKept
  <2>1. z \in r[stack[p]] /\ z \in Nodes /\ stack[p] \in Nodes
    BY <1>0, <1>1 DEF Seen
  <2>2. z \in Seen(p) \/ (p = d /\ z = y)
    <3>1. \A i \in 1 .. n : frames'[i].d = p => z \notin frames'[i].rest
      BY <1>0, <1>10 DEF Seen
    <3>2. CASE \A i \in 1 .. n : frames[i].d = p => z \notin frames[i].rest
      BY <1>0, <2>1, <3>2 DEF Seen
    <3>3. CASE \E i \in 1 .. n : frames[i].d = p /\ z \in frames[i].rest
      <4>1. PICK i \in 1 .. n : frames[i].d = p /\ z \in frames[i].rest
        BY <3>3
      <4>2. i = n /\ z \notin frames[n].rest \ {y}
        BY <1>10, <1>11, <3>1, <4>1
      <4> QED BY <4>1, <4>2 DEF d
    <3> QED BY <3>2, <3>3
  <2>3. weights'[stack[p]] <= weights[stack[p]] /\ f[stack[p]] \subseteq f'[stack[p]]
    BY <1>1, <1>4, <1>8, <1>9, <1>12, <2>1
  <2>4. CASE z \in Seen(p)
    <3>1. /\ weights[z] # 0
          /\ weights[z] = -1 => f[z] \subseteq f[stack[p]]
          /\ \A q \in 1 .. m : stack[q] = z =>
               /\ weights[stack[p]] <= q
               /\ \A i \in 1 .. n : frames[i].d <= p \/ q < frames[i].d
      BY <1>0, <2>4 DEF SeenKept
    <3>2. weights'[z] # 0 /\ (weights'[z] = -1 => weights[z] = -1 /\ f'[z] = f[z])
      BY <1>4, <1>8, <1>9, <2>1, <3>1
    <3>3. weights'[stack[p]] \in Int /\ weights[stack[p]] \in Int
      BY <1>1, <1>4, <1>8, <1>12
    <3> QED BY <2>3, <3>1, <3>2, <3>3
  <2>5. CASE p = d /\ z = y
    <3>1. stack[p] = x
      BY <1>4, <2>5
    <3>2. weights'[z] # 0 /\ (weights'[z] = -1 => f'[z] = f[z])
      BY <1>3, <1>4, <1>8, <1>9, <2>5
    <3>3. weights'[z] = -1 => f'[z] \subseteq f'[stack[p]]
      BY <1>9, <2>5, <3>1, <3>2
    <3>4. ASSUME NEW q \in 1 .. m, stack[q] = z PROVE weights'[stack[p]] <= q
      <4>1. weights[y] \in 1 .. q
        BY <1>1, <2>5, <3>4
      <4> QED BY <1>8, <3>1, <4>1
    <3>5. \A i \in 1 .. n : frames[i].d <= p
      BY <1>5, <2>5
    <3> QED BY <3>2, <3>3, <3>4, <3>5
  <2> QED BY <2>2, <2>4, <2>5
<1>25. Returned'
  <2> SUFFICES ASSUME NEW i \in 1 .. n, NEW p \in 1 .. m, Within(i, p)'
               PROVE  PassedTo(frames[i].x, p)'
    BY <1>0, <1>10, <1>11 DEF Returned
  <2>1. Within(i, p)
    <3>1. i < n => frames'[i + 1].d = frames[i + 1].d
      BY <1>0, <1>11
    <3> QED BY <1>10, <1>11, <3>1 DEF Within
  <2>2. CASE i < n
    <3>1. PassedTo(frames[i].x, p)
      BY <1>0, <2>1, <2>2 DEF Returned
    <3>2. p # d /\ frames[i].d # d
      <4>1. frames[i].d < p /\ p < frames[i + 1].d /\ i + 1 \in 1 .. n
        BY <1>0, <2>1, <2>2 DEF Within
      <4>2. frames[i + 1].d \in 1 .. m /\ frames[i].d \in 1 .. m /\ frames[i + 1].d <= d
        BY <1>2, <1>5, <4>1
      <4> QED BY <1>4, <4>1, <4>2
    <3>3. /\ stack[p] # x /\ frames[i].x # x
          /\ stack[p] \in Nodes /\ frames[i].x \in Nodes
      BY <1>1, <1>2, <1>12, <3>2
    <3> QED BY <1>0, <1>8, <1>9, <1>11, <3>1, <3>3 DEF PassedTo
  <2>3. CASE i = n
    <3>1. /\ stack[p] \in Nodes /\ stack[p] # x
          /\ weights'[stack[p]] = weights[stack[p]] /\ f'[stack[p]] = f[stack[p]]
          /\ weights[stack[p]] \in Int
      <4>1. d < p
        BY <2>1, <2>3 DEF Within, d
      <4> QED BY <1>1, <1>4, <1>8, <1>9, <1>12, <4>1
    <3>2. PassedTo(x, p) \/ (weights[y] > 0 /\ PassedTo(y, p))
      BY <1>0, <2>1, <2>3 DEF Returned, x, y
    <3>3. weights'[x] <= weights[stack[p]] /\ f[stack[p]] \subseteq f'[x]
      BY <1>0, <1>4, <1>8, <1>9, <3>1, <3>2 DEF PassedTo
    <3> QED BY <1>0, <1>11, <2>3, <3>1, <3>3 DEF PassedTo, x
  <2> QED BY <1>0, <2>2, <2>3
<1>26. Connected'
  <2>1. ASSUME NEW p \in 1 .. m
        PROVE  stack[weights'[stack[p]]] \in Reach[stack[p]]
    <3>0. stack[weights[stack[p]]] \in Reach[stack[p]]
      BY <1>0 DEF Connected
    <3>1. CASE p = d /\ weights'[x] # weights[x]
      <4>1. PICK q \in 1 .. m : stack[q] = y
        BY <1>6, <1>8, <3>1
      <4>2. weights'[x] = weights[y] /\ weights[y] \in 1 .. m
        BY <1>0, <1>1, <1>8, <3>1, <4>1
      <4>3. stack[weights[y]] \in Reach[y] /\ stack[weights[y]] \in Nodes
        BY <1>0, <1>1, <4>1, <4>2 DEF Connected
      <4> QED BY <1>0, <1>4, <3>1, <4>2, <4>3, ReachFacts
    <3>2. CASE ~ (p = d /\ weights'[x] # weights[x])
      BY <1>1, <1>4, <1>8, <1>12, <3>0, <3>2
    <3> QED BY <3>1, <3>2
  <2>2. ASSUME NEW p \in 1 .. m, NEW i \in 1 .. n
        PROVE  /\ (i < n => p < frames'[i + 1].d) => frames'[i].x \in Reach[stack[p]]
               /\ frames'[i].d <= p => stack[p] \in Reach[frames'[i].x]
    <3>1. i < n => frames'[i + 1].d = frames[i + 1].d
      BY <1>0, <1>11
    <3>2. /\ (i < n => p < frames[i + 1].d) => frames[i].x \in Reach[stack[p]]
          /\ frames[i].d <= p => stack[p] \in Reach[frames[i].x]
      BY <1>0 DEF Connected
    <3> QED BY <1>11, <3>1, <3>2
  <2> QED BY <1>0, <1>10, <2>1, <2>2 DEF Connected
<1>27. Sound'
  <2>1. f[y] \subseteq Want[x]
    <3>1. f[y] \subseteq Want[y]
      BY <1>4 DEF Sound
    <3>2. Want[y] \subseteq Want[x]
      BY <1>4, ReachFacts
    <3> QED BY <3>1, <3>2
  <2>2. \A z \in Nodes : f'[z] \subseteq Want[z]
    BY <1>4, <1>9, <2>1 DEF Sound
  <2>3. \A p \in 1 .. m : g[stack[p]] \subseteq f'[stack[p]]
    BY <1>0, <1>1, <1>9 DEF Sound
  <2> QED BY <1>0, <2>2, <2>3 DEF Sound
<1>28. Final'
  <2> SUFFICES ASSUME NEW z \in Nodes, weights'[z] = -1
               PROVE  f'[z] = Want[z] /\ \A u \in r[z] : weights'[u] = -1
    BY <1>0 DEF Final
  <2>1. z # x /\ weights[z] = -1
    BY <1>4, <1>8
  <2>2. f[z] = Want[z] /\ \A u \in r[z] : u \in Nodes /\ weights[u] = -1 /\ u # x
    BY <1>0, <1>4, <2>1 DEF Final
  <2> QED BY <1>8, <1>9, <2>1, <2>2
<1> QED BY <1>21, <1>22, <1>23, <1>24, <1>25, <1>26, <1>27, <1>28

\* So does the return of a call that leaves its node on the stack.
LEMMA ReturnStep ==
  ASSUME IInv, Return
  PROVE  IInv'
<1> DEFINE n == Last
           m == Len(stack)
           x == frames[n].x
           d == frames[n].d
<1> USE DEF IInv
<1>0. /\ r' = r /\ g' = g /\ stack' = stack /\ weights' = weights /\ f' = f
      /\ Reach' = Reach /\ Want' = Want
      /\ n \in Nat \ {0} /\ DOMAIN frames = 1 .. n /\ m \in Nat /\ DOMAIN stack = 1 .. m
  BY Shape, ReachKept DEF Return, TypeOK, Last
<1>1. \A p \in 1 .. m : stack[p] \in Nodes /\ weights[stack[p]] \in 1 .. p
  BY Shape
<1>2. \A i \in 1 .. n :
        /\ frames[i].x \in Nodes /\ frames[i].d \in 1 .. m /\ stack[frames[i].d] = frames[i].x
        /\ \A j \in 1 .. n : i < j => frames[i].d < frames[j].d
  BY Shape
<1>3. /\ frames[n].rest = {} /\ weights[x] # d
      /\ frames' = SubSeq(frames, 1, n - 1)
  BY DEF Return, top, Last
<1>4. /\ x \in Nodes /\ d \in 1 .. m /\ stack[d] = x
      /\ weights[x] \in 1 .. m /\ weights[x] < d
  <2>1. x \in Nodes /\ d \in 1 .. m /\ stack[d] = x
    BY <1>0, <1>2
  <2> QED BY <1>1, <1>3, <2>1
<1>5. n > 1
  BY <1>0, <1>4 DEF Calls
<1>6. /\ frames' \in Seq(Frame) /\ Last' = n - 1 /\ DOMAIN frames' = 1 .. n - 1
      /\ \A i \in 1 .. n - 1 : frames'[i] = frames[i]
  BY <1>0, <1>3, <1>5 DEF TypeOK, Last
<1>7. /\ n - 1 \in 1 .. n - 1 /\ n - 1 \in 1 .. n
      /\ frames[n - 1].rest # {} /\ First(frames[n - 1].rest) = x
  <2>1. n - 1 \in 1 .. n - 1 /\ n - 1 \in 1 .. n /\ n - 1 < n /\ (n - 1) + 1 = n
    BY <1>0, <1>5
  <2>2. n - 1 \in DOMAIN frames
    BY <1>0, <2>1
  <2> QED BY <2>1, <2>2 DEF Calls
<1> HIDE DEF x, d
<1>11. TypeOK' /\ Stacked' /\ Sound' /\ Final'
  <2>1. TypeOK'
    BY <1>0, <1>6 DEF TypeOK
  <2>2. Stacked'
    BY <1>0 DEF Stacked
  <2>3. Sound'
    BY <1>0 DEF Sound
  <2>4. Final'
    BY <1>0 DEF Final
  <2> QED BY <2>1, <2>2, <2>3, <2>4
<1>12. Calls'
  <2>1. frames' # <<>> /\ frames'[1].d = 1
    BY <1>0, <1>5, <1>6 DEF Calls
  <2>2. ASSUME NEW i \in 1 .. n - 1, NEW j \in 1 .. n - 1, i < j
        PROVE  frames'[i].d < frames'[j].d
    BY <1>0, <1>2, <1>6, <2>2
  <2>3. ASSUME NEW i \in 1 .. n - 1
        PROVE  /\ frames'[i].d \in 1 .. m /\ stack[frames'[i].d] = frames'[i].x
               /\ frames'[i].rest \subseteq r[frames'[i].x]
               /\ i < n - 1 => frames'[i].rest # {} /\ First(frames'[i].rest) = frames'[i + 1].x
    <3>1. i \in 1 .. n /\ i < n /\ frames'[i] = frames[i]
      BY <1>0, <1>6
    <3>2. i < n - 1 => frames'[i + 1] = frames[i + 1]
      BY <1>0, <1>6
    <3> QED BY <1>0, <3>1, <3>2 DEF Calls
  <2> QED BY <1>0, <1>6, <2>1, <2>2, <2>3 DEF Calls
<1>13. SeenKept'
  <2> SUFFICES ASSUME NEW p \in 1 .. m, NEW y \in Seen(p)'
               PROVE  /\ weights[y] # 0
                      /\ weights[y] = -1 => f[y] \subseteq f[stack[p]]
                      /\ \A q \in 1 .. m : stack[q] = y =>
                           /\ weights[stack[p]] <= q
                           /\ \A i \in 1 .. n - 1 : frames[i].d <= p \/ q < frames[i].d
    BY <1>0, <1>6 DEF SeenKept
  <2>1. \A i \in 1 .. n - 1 : frames[i].d = p => y \notin frames[i].rest
    BY <1>6 DEF Seen
  <2>2. \A i \in 1 .. n : i \in 1 .. n - 1 \/ i = n
    BY <1>0
  <2>3. y \in Seen(p)
    BY <1>0, <1>3, <2>1, <2>2 DEF Seen
  <2> QED BY <1>0, <2>2, <2>3 DEF SeenKept
<1>14. Returned'
  <2> SUFFICES ASSUME NEW i \in 1 .. n - 1, NEW p \in 1 .. m, Within(i, p)'
               PROVE  \/ PassedTo(frames[i].x, p)
                      \/ /\ i = n - 1 /\ frames[i].rest # {}
                         /\ weights[First(frames[i].rest)] > 0
                         /\ PassedTo(First(frames[i].rest), p)
    BY <1>0, <1>6 DEF Returned, PassedTo
  <2>1. /\ i \in 1 .. n /\ i < n /\ i + 1 \in 1 .. n /\ frames[i].d < p
        /\ i < n - 1 => p < frames[i + 1].d
    <3>1. i < n - 1 => frames'[i + 1] = frames[i + 1]
      BY <1>0, <1>6
    <3> QED BY <1>0, <1>6, <3>1 DEF Within
  <2>2. CASE p < frames[i + 1].d
    BY <1>0, <2>1, <2>2 DEF Returned, Within
  <2>3. CASE ~ (p < frames[i + 1].d)
    <3>1. i = n - 1 /\ frames[i + 1].d = d /\ d <= p
      BY <1>0, <1>4, <2>1, <2>3 DEF d
    <3>2. PassedTo(x, p)
      <4>1. CASE p = d
        BY <1>0, <1>1, <1>4, <4>1 DEF PassedTo
      <4>2. CASE d < p
        <5>1. n \in 1 .. n /\ Within(n, p)
          BY <1>0, <4>2 DEF Within, d
        <5> QED BY <1>0, <1>3, <5>1 DEF Returned, x
      <4> QED BY <1>4, <3>1, <4>1, <4>2
    <3>3. weights[x] > 0
      BY <1>4
    <3> QED BY <1>7, <3>1, <3>2, <3>3
  <2> QED BY <2>2, <2>3
<1>15. Connected'
  <2>1. ASSUME NEW p \in 1 .. m, NEW i \in 1 .. n - 1, i < n - 1 => p < frames[i + 1].d
        PROVE  frames[i].x \in Reach[stack[p]]
    <3>1. i \in 1 .. n /\ i < n /\ i + 1 \in 1 .. n
      BY <1>0
    <3>2. CASE p < frames[i + 1].d
      BY <1>0, <3>1, <3>2 DEF Connected
    <3>3. CASE ~ (p < frames[i + 1].d)
      <4>1. i = n - 1
        BY <1>0, <2>1, <3>3
      <4>2. x \in Reach[stack[p]]
        BY <1>0 DEF Connected, x
      <4>3. stack[weights[x]] \in Reach[x]
        BY <1>0, <1>4 DEF Connected
      <4>4. frames[i].x \in Reach[stack[weights[x]]]
        <5>1. weights[x] < frames[i + 1].d
          BY <1>0, <1>4, <4>1 DEF d
        <5> QED BY <1>0, <1>4, <3>1, <5>1 DEF Connected
      <4>5. stack[p] \in Nodes /\ stack[weights[x]] \in Nodes /\ frames[i].x \in Nodes
        BY <1>1, <1>2, <1>4, <3>1
      <4> QED BY <1>4, <4>2, <4>3, <4>4, <4>5, ReachFacts
    <3> QED BY <3>2, <3>3
  <2>2. ASSUME NEW p \in 1 .. m, NEW i \in 1 .. n - 1
        PROVE  /\ (i < n - 1 => p < frames'[i + 1].d) => frames'[i].x \in Reach[stack[p]]
               /\ frames'[i].d <= p => stack[p] \in Reach[frames'[i].x]
    <3>1. frames'[i] = frames[i] /\ (i < n - 1 => frames'[i + 1] = frames[i + 1])
      BY <1>0, <1>6
    <3>2. i \in 1 .. n
      BY <1>0
    <3>3. frames[i].d <= p => stack[p] \in Reach[frames[i].x]
      BY <1>0, <3>2 DEF Connected
    <3> QED BY <2>1, <3>1, <3>3
  <2>3. \A p \in 1 .. m : stack[weights[stack[p]]] \in Reach[stack[p]]
    BY <1>0 DEF Connected
  <2> QED BY <1>0, <1>6, <2>2, <2>3 DEF Connected
<1> QED BY <1>11, <1>12, <1>13, <1>14, <1>15

\* So does the end of a component: the call of its root pops and finishes it.
LEMMA FinishStep ==
  ASSUME IInv, FinishComponent
  PROVE  IInv'
<1> DEFINE n == Last
           m == Len(stack)
           x == frames[n].x
           d == frames[n].d
           popped == {stack[i] : i \in d .. m}
<1> USE DEF IInv
<1>0. /\ r' = r /\ g' = g
      /\ Reach' = Reach /\ Want' = Want
      /\ n \in Nat \ {0} /\ DOMAIN frames = 1 .. n /\ m \in Nat /\ DOMAIN stack = 1 .. m
      /\ \A z \in Nodes : weights[z] \in Int /\ r[z] \subseteq Nodes
  BY Shape, ReachKept DEF FinishComponent, TypeOK, Last
<1>1. \A p \in 1 .. m : stack[p] \in Nodes /\ weights[stack[p]] \in 1 .. p
  BY Shape
<1>2. \A i \in 1 .. n :
        /\ frames[i].x \in Nodes /\ frames[i].d \in 1 .. m /\ stack[frames[i].d] = frames[i].x
        /\ \A j \in 1 .. n : i < j => frames[i].d < frames[j].d
  BY Shape
<1>3. /\ frames[n].rest = {} /\ weights[x] = d
      /\ x \in Nodes /\ d \in 1 .. m /\ stack[d] = x /\ x \in popped
  <2>1. frames[n].rest = {} /\ weights[x] = d
    BY DEF FinishComponent, top, Last
  <2>2. x \in Nodes /\ d \in 1 .. m /\ stack[d] = x
    BY <1>0, <1>2
  <2> QED BY <1>0, <2>1, <2>2
<1>4. \A i \in 1 .. n : i < n => frames[i].d < d
  BY <1>0, <1>2
<1>5. \A p, q \in 1 .. m : stack[p] = stack[q] => p = q
  BY <1>0 DEF Stacked
<1>6. \A p \in 1 .. m : stack[p] \in popped <=> d <= p
  <2> SUFFICES ASSUME NEW p \in 1 .. m PROVE stack[p] \in popped <=> d <= p
    OBVIOUS
  <2>1. ASSUME stack[p] \in popped PROVE d <= p
    <3>1. PICK q \in d .. m : stack[p] = stack[q]
      BY <2>1
    <3> QED BY <1>3, <1>5, <3>1
  <2> QED BY <1>3, <2>1
<1>7. /\ weights' = [z \in Nodes |-> IF z \in popped THEN -1 ELSE weights[z]]
      /\ f' = [z \in Nodes |-> IF z \in popped THEN f[x] ELSE f[z]]
      /\ stack' = SubSeq(stack, 1, d - 1)
      /\ frames' = SubSeq(frames, 1, n - 1)
  <2> DEFINE from == CHOOSE i \in DOMAIN stack :
                       /\ stack[i] = top.x
                       /\ \A j \in DOMAIN stack : j > i => stack[j] # top.x
  <2>1. top = frames[n]
    BY DEF top, Last
  <2>2. \A i \in DOMAIN stack :
          (stack[i] = top.x /\ \A j \in DOMAIN stack : j > i => stack[j] # top.x) <=> i = d
    BY <1>0, <1>3, <1>5, <2>1
  <2>3. from = d
    BY <1>0, <1>3, <2>2
  <2> HIDE DEF from
  <2>4. /\ weights' = [z \in Nodes |-> IF z \in {stack[i] : i \in from .. Len(stack)}
                                         THEN -1 ELSE weights[z]]
        /\ f' = [z \in Nodes |-> IF z \in {stack[i] : i \in from .. Len(stack)}
                                   THEN f[top.x] ELSE f[z]]
        /\ stack' = SubSeq(stack, 1, from - 1)
        /\ frames' = SubSeq(frames, 1, Len(frames) - 1)
    BY DEF FinishComponent, from
  <2> QED BY <2>1, <2>3, <2>4 DEF Last
<1>8. /\ \A z \in popped : z \in Nodes /\ weights'[z] = -1 /\ f'[z] = f[x]
      /\ \A z \in Nodes : z \notin popped => weights'[z] = weights[z] /\ f'[z] = f[z]
  BY <1>1, <1>3, <1>7
<1>9. /\ stack' \in Seq(Nodes) /\ DOMAIN stack' = 1 .. d - 1
      /\ \A p \in 1 .. d - 1 : stack'[p] = stack[p]
  BY <1>0, <1>3, <1>7 DEF TypeOK
<1>10. /\ frames' \in Seq(Frame) /\ Last' = n - 1 /\ DOMAIN frames' = 1 .. n - 1
       /\ \A i \in 1 .. n - 1 : frames'[i] = frames[i]
  BY <1>0, <1>7 DEF TypeOK, Last
<1> HIDE DEF x, d, popped
<1>11. \A p \in 1 .. d - 1 :
         /\ p \in 1 .. m /\ p < d /\ stack[p] \in Nodes /\ stack[p] \notin popped
         /\ weights'[stack[p]] = weights[stack[p]] /\ f'[stack[p]] = f[stack[p]]
         /\ weights[stack[p]] \in 1 .. p
  BY <1>0, <1>1, <1>3, <1>6, <1>8
<1>12. \A i \in 1 .. n - 1 :
         /\ i \in 1 .. n /\ i < n /\ i + 1 \in 1 .. n
         /\ frames[i].d \in 1 .. d - 1 /\ frames[i + 1].d <= d
         /\ i < n - 1 => frames[i + 1].d \in 1 .. d - 1
  <2> SUFFICES ASSUME NEW i \in 1 .. n - 1
               PROVE  /\ i \in 1 .. n /\ i < n /\ i + 1 \in 1 .. n
                      /\ frames[i].d \in 1 .. d - 1 /\ frames[i + 1].d <= d
                      /\ i < n - 1 => frames[i + 1].d \in 1 .. d - 1
    OBVIOUS
  <2>1. i \in 1 .. n /\ i < n /\ i + 1 \in 1 .. n
    BY <1>0
  <2>2. \A j \in 1 .. n : j < n => frames[j].d \in 1 .. d - 1
    BY <1>2, <1>3, <1>4
  <2>3. i + 1 = n => frames[i + 1].d = d
    BY DEF d
  <2>4. i < n - 1 => i + 1 < n
    BY <1>0, <2>1
  <2>5. i < n - 1 \/ i + 1 = n
    BY <1>0, <2>1
  <2> QED BY <1>3, <2>1, <2>2, <2>3, <2>4, <2>5
\* The component: what has been popped has told x, and knows its successors.
<1>21. \A p \in d .. m :
         /\ p \in 1 .. m /\ d <= weights[stack[p]] /\ f[stack[p]] \subseteq f[x]
         /\ stack[p] \in popped
  <2> SUFFICES ASSUME NEW p \in d .. m
               PROVE  d <= weights[stack[p]] /\ f[stack[p]] \subseteq f[x]
    BY <1>3, <1>6
  <2>1. CASE p = d
    BY <1>3, <2>1
  <2>2. CASE p # d
    <3>1. n \in 1 .. n /\ p \in 1 .. m /\ d < p
      BY <1>0, <1>3, <2>2
    <3>2. Within(n, p)
      BY <3>1 DEF Within, d
    <3>3. PassedTo(x, p)
      BY <1>0, <1>3, <3>1, <3>2 DEF Returned, x
    <3> QED BY <1>3, <3>3 DEF PassedTo
  <2> QED BY <2>1, <2>2
<1>22. \A p \in d .. m : \A y \in r[stack[p]] :
         y \in Nodes /\ (y \in popped \/ (weights[y] = -1 /\ f[y] \subseteq f[x]))
  <2> SUFFICES ASSUME NEW p \in d .. m, NEW y \in r[stack[p]]
               PROVE  y \in Nodes /\ (y \in popped \/ (weights[y] = -1 /\ f[y] \subseteq f[x]))
    OBVIOUS
  <2>1. y \in Nodes /\ p \in 1 .. m
    BY <1>0, <1>1, <1>21
  <2>2. y \in Seen(p)
    <3> SUFFICES ASSUME NEW i \in 1 .. n, frames[i].d = p PROVE frames[i].rest = {}
      BY <1>0 DEF Seen
    <3>1. ~ (i < n)
      BY <1>2, <1>3, <1>4
    <3> QED BY <1>0, <1>3, <3>1
  <2>3. CASE weights[y] = -1
    BY <1>0, <1>21, <2>1, <2>2, <2>3 DEF SeenKept
  <2>4. CASE weights[y] # -1
    <3>1. PICK q \in 1 .. m : stack[q] = y
      BY <1>0, <2>1, <2>2, <2>4 DEF SeenKept, Stacked
    <3>2. weights[stack[p]] <= q
      BY <1>0, <2>1, <2>2, <3>1 DEF SeenKept
    <3>3. d <= q
      <4>1. weights[stack[p]] \in Int /\ d \in Int
        BY <1>1, <1>3, <2>1
      <4> QED BY <1>21, <3>2, <4>1
    <3> QED BY <1>6, <2>1, <3>1, <3>3
  <2> QED BY <2>3, <2>4
<1>23. \A z \in popped : z \in Nodes /\ z \in Reach[x] /\ x \in Reach[z] /\ Want[z] = Want[x]
  <2> SUFFICES ASSUME NEW p \in d .. m
               PROVE  /\ stack[p] \in Nodes /\ stack[p] \in Reach[x] /\ x \in Reach[stack[p]]
                      /\ Want[stack[p]] = Want[x]
    BY DEF popped
  <2>1. n \in 1 .. n /\ p \in 1 .. m /\ stack[p] \in Nodes /\ d <= p
    BY <1>0, <1>1, <1>21
  <2>2. stack[p] \in Reach[x] /\ x \in Reach[stack[p]]
    BY <1>0, <2>1 DEF Connected, x, d
  <2>3. Want[stack[p]] \subseteq Want[x] /\ Want[x] \subseteq Want[stack[p]]
    <3>1. \A u, v \in Nodes : v \in Reach[u] => Want[v] \subseteq Want[u]
      BY ReachFacts
    <3> QED BY <1>3, <2>1, <2>2, <3>1
  <2> QED BY <2>1, <2>2, <2>3
<1>24. f[x] = Want[x]
  <2> DEFINE T == {y \in Nodes : y \in popped \/ (weights[y] = -1 /\ f[y] \subseteq f[x])}
  <2>1. Closed(T)
    <3> SUFFICES ASSUME NEW y \in T, NEW z \in r[y] PROVE z \in T
      BY DEF Closed
    <3>1. CASE y \in popped
      BY <1>22, <3>1 DEF popped
    <3>2. CASE weights[y] = -1 /\ f[y] \subseteq f[x]
      <4>1. f[y] = Want[y] /\ weights[z] = -1 /\ z \in Nodes
        BY <1>0, <3>2 DEF Final
      <4>2. f[z] = Want[z] /\ Want[z] \subseteq Want[y]
        BY <4>1, ReachFacts DEF Final
      <4> QED BY <3>2, <4>1, <4>2
    <3> QED BY <3>1, <3>2
  <2>2. Reach[x] \subseteq T
    BY <1>3, <2>1, ReachInduction
  <2>3. \A y \in T : g[y] \subseteq f[x]
    <3> SUFFICES ASSUME NEW y \in T PROVE g[y] \subseteq f[x]
      OBVIOUS
    <3>1. CASE y \in popped
      BY <1>0, <1>21, <3>1 DEF Sound, popped
    <3>2. CASE weights[y] = -1 /\ f[y] \subseteq f[x]
      BY <3>2, ReachFacts DEF Final
    <3> QED BY <3>1, <3>2
  <2>4. Want[x] = UNION {g[y] : y \in Reach[x]}
    BY <1>3 DEF Want, Wanted, Reach
  <2> HIDE DEF T
  <2>5. Want[x] \subseteq f[x]
    BY <2>2, <2>3, <2>4
  <2> QED BY <1>3, <2>5 DEF Sound
\* The invariant after the step.
<1>31. TypeOK'
  <2>1. weights' \in [Nodes -> Int] /\ f' \in [Nodes -> SUBSET Values]
    BY <1>3, <1>7 DEF TypeOK
  <2> QED BY <1>0, <1>9, <1>10, <2>1 DEF TypeOK
<1>32. Stacked'
  <2>1. ASSUME NEW z \in Nodes
        PROVE  weights'[z] = 0 \/ weights'[z] = -1 \/ \E p \in 1 .. d - 1 : stack'[p] = z
    <3>1. CASE z \in popped
      BY <1>8, <3>1
    <3>2. CASE z \notin popped /\ \E p \in 1 .. m : stack[p] = z
      <4>1. PICK p \in 1 .. m : stack[p] = z
        BY <3>2
      <4>2. p \in 1 .. d - 1
        BY <1>3, <1>6, <3>2, <4>1
      <4> QED BY <1>9, <4>1, <4>2
    <3>3. CASE z \notin popped /\ ~ \E p \in 1 .. m : stack[p] = z
      BY <1>0, <1>8, <3>3 DEF Stacked
    <3> QED BY <3>1, <3>2, <3>3
  <2>2. \A p, q \in 1 .. d - 1 : stack'[p] = stack'[q] => p = q
    BY <1>5, <1>9, <1>11
  <2>3. \A p \in 1 .. d - 1 : weights'[stack'[p]] \in 1 .. p
    BY <1>9, <1>11
  <2> QED BY <1>9, <2>1, <2>2, <2>3 DEF Stacked
<1>33. Calls'
  <2>1. IF frames' = <<>> THEN stack' = <<>> ELSE frames'[1].d = 1
    <3>1. frames[1].d = 1
      BY <1>0 DEF Calls
    <3>2. CASE n = 1
      <4>1. d = 1
        BY <3>1, <3>2 DEF d
      <4> QED BY <1>0, <1>7, <1>9, <1>10, <3>2, <4>1
    <3>3. CASE n > 1
      BY <1>0, <1>10, <3>1, <3>3
    <3> QED BY <1>0, <3>2, <3>3
  <2>2. ASSUME NEW i \in 1 .. n - 1, NEW j \in 1 .. n - 1, i < j
        PROVE  frames'[i].d < frames'[j].d
    BY <1>2, <1>10, <1>12, <2>2
  <2>3. ASSUME NEW i \in 1 .. n - 1
        PROVE  /\ frames'[i].d \in 1 .. d - 1 /\ stack'[frames'[i].d] = frames'[i].x
               /\ frames'[i].rest \subseteq r[frames'[i].x]
               /\ i < n - 1 => frames'[i].rest # {} /\ First(frames'[i].rest) = frames'[i + 1].x
    <3>1. i < n - 1 => frames'[i + 1] = frames[i + 1]
      BY <1>0, <1>10
    <3>2. /\ frames[i].rest \subseteq r[frames[i].x]
          /\ frames[i].rest # {} /\ First(frames[i].rest) = frames[i + 1].x
      BY <1>0, <1>12 DEF Calls
    <3>3. stack'[frames[i].d] = frames[i].x
      BY <1>2, <1>9, <1>12
    <3> QED BY <1>10, <1>12, <3>1, <3>2, <3>3
  <2> QED BY <1>0, <1>9, <1>10, <2>1, <2>2, <2>3 DEF Calls
<1>34. SeenKept'
  <2> SUFFICES ASSUME NEW p \in 1 .. d - 1, NEW y \in Seen(p)'
               PROVE  /\ weights'[y] # 0
                      /\ weights'[y] = -1 => f'[y] \subseteq f[stack[p]]
                      /\ \A q \in 1 .. d - 1 : stack[q] = y =>
                           /\ weights[stack[p]] <= q
                           /\ \A i \in 1 .. n - 1 : frames[i].d <= p \/ q < frames[i].d
    <3>1. \A p \in 1 .. d - 1 : stack'[p] = stack[p] /\ weights'[stack'[p]] = weights[stack[p]]
                                /\ f'[stack'[p]] = f[stack[p]]
      BY <1>9, <1>11
    <3> QED BY <1>9, <1>10, <3>1 DEF SeenKept
  <2>1. y \in r[stack[p]] /\ \A i \in 1 .. n - 1 : frames[i].d = p => y \notin frames[i].rest
    BY <1>0, <1>9, <1>10 DEF Seen
  <2>2. \A i \in 1 .. n : i \in 1 .. n - 1 \/ (i = n /\ frames[i].d # p)
    BY <1>0, <1>3 DEF d
  <2>3. y \in Seen(p) /\ y \in Nodes
    BY <1>0, <1>11, <2>1, <2>2 DEF Seen
  <2>4. y \notin popped
    <3> SUFFICES ASSUME NEW q \in d .. m, stack[q] = y PROVE FALSE
      BY DEF popped
    <3>1. n \in 1 .. n /\ q \in 1 .. m /\ p \in 1 .. m
      BY <1>0, <1>11, <1>21
    <3>2. d <= p \/ q < d
      BY <1>0, <2>3, <3>1 DEF SeenKept, d
    <3> QED BY <1>3, <3>2
  <2>5. weights'[y] = weights[y] /\ f'[y] = f[y]
    BY <1>8, <2>3, <2>4
  <2> QED BY <1>0, <1>11, <1>12, <2>3, <2>5 DEF SeenKept
<1>35. Returned'
  <2> SUFFICES ASSUME NEW i \in 1 .. n - 1, NEW p \in 1 .. d - 1, Within(i, p)'
               PROVE  PassedTo(frames[i].x, p)'
    BY <1>9, <1>10 DEF Returned, PassedTo
  <2>1. Within(i, p)
    <3>1. frames[i].d < p /\ (i < n - 1 => p < frames[i + 1].d)
      <4>1. i < n - 1 => frames'[i + 1] = frames[i + 1]
        BY <1>0, <1>10
      <4> QED BY <1>10, <4>1 DEF Within
    <3>2. i = n - 1 => frames[i + 1].d = d
      BY <1>0 DEF d
    <3> QED BY <1>0, <1>11, <3>1, <3>2 DEF Within
  <2>2. PassedTo(frames[i].x, p)
    <3>1. i \in 1 .. n /\ i # n /\ p \in 1 .. m
      BY <1>0, <1>11
    <3> QED BY <1>0, <2>1, <3>1 DEF Returned
  <2>3. /\ weights'[frames[i].x] = weights[frames[i].x] /\ f'[frames[i].x] = f[frames[i].x]
    BY <1>2, <1>11, <1>12
  <2> QED BY <1>9, <1>10, <1>11, <2>2, <2>3 DEF PassedTo
<1>36. Connected'
  <2>1. ASSUME NEW p \in 1 .. d - 1
        PROVE  stack'[weights'[stack'[p]]] \in Reach[stack'[p]]
    <3>1. weights[stack[p]] \in 1 .. d - 1
      BY <1>3, <1>11
    <3> QED BY <1>0, <1>9, <1>11, <3>1 DEF Connected
  <2>2. ASSUME NEW p \in 1 .. d - 1, NEW i \in 1 .. n - 1
        PROVE  /\ (i < n - 1 => p < frames'[i + 1].d) => frames'[i].x \in Reach[stack'[p]]
               /\ frames'[i].d <= p => stack'[p] \in Reach[frames'[i].x]
    <3>1. frames'[i] = frames[i] /\ (i < n - 1 => frames'[i + 1] = frames[i + 1])
      BY <1>0, <1>10
    <3>2. i = n - 1 => p < frames[i + 1].d
      BY <1>0, <1>11 DEF d
    <3>3. /\ (i < n => p < frames[i + 1].d) => frames[i].x \in Reach[stack[p]]
          /\ frames[i].d <= p => stack[p] \in Reach[frames[i].x]
      BY <1>0, <1>11, <1>12 DEF Connected
    <3> QED BY <1>0, <1>9, <3>1, <3>2, <3>3
  <2> QED BY <1>0, <1>9, <1>10, <2>1, <2>2 DEF Connected
<1>37. Sound'
  <2>1. \A z \in Nodes : f'[z] \subseteq Want[z]
    BY <1>8, <1>23, <1>24 DEF Sound
  <2>2. \A p \in 1 .. d - 1 : g[stack'[p]] \subseteq f'[stack'[p]]
    BY <1>0, <1>9, <1>11 DEF Sound
  <2> QED BY <1>0, <1>9, <2>1, <2>2 DEF Sound
<1>38. Final'
  <2> SUFFICES ASSUME NEW z \in Nodes, weights'[z] = -1
               PROVE  f'[z] = Want[z] /\ \A u \in r[z] : weights'[u] = -1
    BY <1>0 DEF Final
  <2>1. CASE z \in popped
    <3>1. f'[z] = Want[z]
      BY <1>8, <1>23, <1>24, <2>1
    <3>2. \A u \in r[z] : u \in Nodes /\ (u \in popped \/ weights[u] = -1)
      BY <1>22, <2>1 DEF popped
    <3> QED BY <1>8, <3>1, <3>2
  <2>2. CASE z \notin popped
    <3>1. weights[z] = -1 /\ f'[z] = f[z]
      BY <1>8, <2>2
    <3>2. f[z] = Want[z] /\ \A u \in r[z] : u \in Nodes /\ weights[u] = -1
      BY <1>0, <3>1 DEF Final
    <3> QED BY <1>8, <3>1, <3>2
  <2> QED BY <2>1, <2>2
<1> QED BY <1>31, <1>32, <1>33, <1>34, <1>35, <1>36, <1>37, <1>38

\* Every step keeps the invariant.
LEMMA NextIInv == IInv /\ [Next]_vars => IInv'
<1> SUFFICES ASSUME IInv, [Next]_vars PROVE IInv'
  OBVIOUS
<1>1. ASSUME NEW x \in Nodes, Root(x) PROVE IInv'
  BY <1>1, EnterStep DEF Root
<1>2. ASSUME Descend PROVE IInv'
  <2>1. First(top.rest) \in Nodes
    <3>1. Last \in 1 .. Last /\ top = frames[Last]
      BY <1>2, Shape DEF Descend, top, Last, IInv, TypeOK
    <3>2. top.rest \in SUBSET Nodes /\ top.rest # {}
      BY <1>2, <3>1, Shape DEF Descend
    <3> QED BY <3>2, FirstIn
  <2> QED BY <1>2, <2>1, EnterStep DEF Descend
<1>3. ASSUME Merge PROVE IInv'
  BY <1>3, MergeStep
<1>4. ASSUME FinishComponent PROVE IInv'
  BY <1>4, FinishStep
<1>5. ASSUME Return PROVE IInv'
  BY <1>5, ReturnStep
<1>6. CASE UNCHANGED vars
  <2>1. r' = r /\ g' = g /\ weights' = weights /\ f' = f /\ stack' = stack /\ frames' = frames
    BY <1>6 DEF vars
  <2>2. Reach' = Reach /\ Want' = Want
    BY <2>1, ReachKept
  <2>3. TypeOK' /\ Stacked' /\ Calls'
    BY <2>1 DEF IInv, TypeOK, Stacked, Calls, Last
  <2>4. SeenKept' /\ Returned'
    BY <2>1 DEF IInv, SeenKept, Seen, Returned, Within, PassedTo, Last
  <2>5. Connected' /\ Sound' /\ Final'
    BY <2>1, <2>2 DEF IInv, Connected, Sound, Final, Last
  <2> QED BY <2>3, <2>4, <2>5 DEF IInv
<1> QED BY <1>1, <1>2, <1>3, <1>4, <1>5, <1>6 DEF Next

\* It holds throughout: the two theorems below follow from it.
THEOREM DigraphInvariant == Spec => []IInv
<1> QED BY InitIInv, NextIInv, PTL DEF Spec

-----------------------------------------------------------------------------
\* The assertions of traverse's loop never fail, for any relation: each active
\* call is for a node that is still where the call put it on the stack.
THEOREM ActiveCallsOnStack == Spec => []ActiveOnStack
<1>1. IInv => ActiveOnStack
  <2> SUFFICES ASSUME IInv PROVE ActiveOnStack
    OBVIOUS
  <2>1. \A i \in 1 .. Last :
          /\ frames[i].d \in DOMAIN stack /\ stack[frames[i].d] = frames[i].x
          /\ weights[stack[frames[i].d]] > 0
    BY Shape
  <2> QED BY <2>1, Shape DEF ActiveOnStack, IInv
<1> QED BY <1>1, DigraphInvariant, PTL

\* traverse is right for every relation, cycles included, and for every order
\* of the nodes: the set of a node is the union of g over all that it reaches
\* from the moment its component is popped, and digraph leaves no node out.
THEOREM DigraphIsClosure == Spec => []FinishedIsWanted
<1>1. IInv => FinishedIsWanted
  <2> SUFFICES ASSUME IInv PROVE FinishedIsWanted
    OBVIOUS
  <2>1. \A x \in Nodes : weights[x] = -1 => f[x] = Wanted(x)
    BY DEF IInv, Final, Want
  <2>2. ASSUME Done PROVE \A x \in Nodes : weights[x] = -1
    <3>1. stack = <<>>
      BY <2>2 DEF Done, IInv, Calls
    <3>2. DOMAIN stack = {}
      BY <3>1, Shape
    <3> QED BY <2>2, <3>2 DEF Done, IInv, Stacked
  <2> QED BY <2>1, <2>2 DEF FinishedIsWanted
<1> QED BY <1>1, DigraphInvariant, PTL
=============================================================================
