------------------------------ MODULE Digraph ------------------------------
(***************************************************************************)
(* Parser::digraph and Parser::traverse: given a relation r over nodes and *)
(* a set g(x) for each node, f(x) is to be the union of g over the nodes   *)
(* that r leads to from x.  One traversal, in the manner of Tarjan's       *)
(* strongly connected components, computes all of them.                    *)
(*                                                                         *)
(* `traverse' is recursive: `frames' is the call stack, each frame with    *)
(* the locals x and d and the successors its for loop has not reached.     *)
(* The parser generator runs it twice, for the reads and the follow sets.  *)
(***************************************************************************)
EXTENDS Integers, Sequences

CONSTANTS
  Nodes,    \* the nodes, named by numbers: std::set visits them in order
  Values,   \* members of the sets
  Relations,\* the relations r to consider
  Given     \* the functions g to consider

ASSUME DigraphAssumption ==
  /\ Nodes \subseteq Nat
  /\ Relations \subseteq [Nodes -> SUBSET Nodes]
  /\ Given \subseteq [Nodes -> SUBSET Values]

VARIABLES
  r, g,     \* the relation and the given sets: parameters, never written
  weights,  \* 0: not visited; d > 0: on `stack'; -1: component finished
  f,        \* the sets computed
  stack,    \* nodes of unfinished components, oldest first
  frames    \* active calls of traverse, outermost first

vars == <<r, g, weights, f, stack, frames>>

Frame == [x : Nodes, d : Nat \ {0}, rest : SUBSET Nodes]

TypeOK ==
  /\ r \in [Nodes -> SUBSET Nodes]
  /\ g \in [Nodes -> SUBSET Values]
  /\ weights \in [Nodes -> Int]
  /\ f \in [Nodes -> SUBSET Values]
  /\ stack \in Seq(Nodes)
  /\ frames \in Seq(Frame)

Init ==
  /\ r \in Relations
  /\ g \in Given
  /\ weights = [x \in Nodes |-> 0]
  /\ f = [x \in Nodes |-> {}]
  /\ stack = <<>>
  /\ frames = <<>>

top == frames[Len(frames)]
SetTop(frame) == [frames EXCEPT ![Len(frames)] = frame]

First(S) == CHOOSE y \in S : \A z \in S : y <= z

\* A call of traverse up to its loop.
Enter(x) ==
  LET d == Len(stack) + 1
  IN  /\ stack' = Append(stack, x)
      /\ weights' = [weights EXCEPT ![x] = d]
      /\ f' = [f EXCEPT ![x] = g[x]]
      /\ frames' = Append(frames, [x |-> x, d |-> d, rest |-> r[x]])
      /\ UNCHANGED <<r, g>>

\* digraph's loop.  The order of its vector of nodes is not related to the
\* order in which the sets are visited: any node may be next.
Root(x) ==
  /\ frames = <<>>
  /\ weights[x] = 0
  /\ Enter(x)

\* A fault: the recursive call is made for finished nodes too.
DescendFinished ==
  /\ frames # <<>> /\ top.rest # {}
  /\ weights[First(top.rest)] <= 0
  /\ Enter(First(top.rest))

\* The next successor has not been visited: the recursive call.
Descend ==
  /\ frames # <<>> /\ top.rest # {}
  /\ weights[First(top.rest)] = 0
  /\ Enter(First(top.rest))

\* A fault: the lower weight of a successor is ignored.
LowerNever(wx, wy) == wx

Lower(wx, wy) == IF wy > 0 /\ wy < wx THEN wy ELSE wx

\* The rest of the loop body, after the recursive call if there was one.
Merge ==
  /\ frames # <<>> /\ top.rest # {}
  /\ LET x == top.x
         y == First(top.rest)
     IN  /\ weights[y] # 0
         /\ weights' = [weights EXCEPT ![x] = Lower(@, weights[y])]
         /\ f' = [f EXCEPT ![x] = @ \cup f[y]]
         /\ frames' = SetTop([top EXCEPT !.rest = @ \ {y}])
  /\ UNCHANGED <<r, g, stack>>

\* A fault: the whole stack is popped.
FinishAll ==
  /\ frames # <<>> /\ top.rest = {}
  /\ weights[top.x] = top.d
  /\ weights' = [z \in Nodes |-> IF \E i \in DOMAIN stack : stack[i] = z
                                  THEN -1 ELSE weights[z]]
  /\ f' = [z \in Nodes |-> IF \E i \in DOMAIN stack : stack[i] = z
                            THEN f[top.x] ELSE f[z]]
  /\ stack' = <<>>
  /\ frames' = SubSeq(frames, 1, Len(frames) - 1)
  /\ UNCHANGED <<r, g>>

\* After the loop: x is the root of a component, which is popped down to x.
FinishComponent ==
  /\ frames # <<>> /\ top.rest = {}
  /\ weights[top.x] = top.d
  /\ LET from == CHOOSE i \in DOMAIN stack :
                   /\ stack[i] = top.x
                   /\ \A j \in DOMAIN stack : j > i => stack[j] # top.x
         popped == {stack[i] : i \in from .. Len(stack)}
     IN  /\ weights' = [z \in Nodes |-> IF z \in popped THEN -1 ELSE weights[z]]
         /\ f' = [z \in Nodes |-> IF z \in popped THEN f[top.x] ELSE f[z]]
         /\ stack' = SubSeq(stack, 1, from - 1)
  /\ frames' = SubSeq(frames, 1, Len(frames) - 1)
  /\ UNCHANGED <<r, g>>

\* After the loop: x belongs to the component of an older node on the stack.
Return ==
  /\ frames # <<>> /\ top.rest = {}
  /\ weights[top.x] # top.d
  /\ frames' = SubSeq(frames, 1, Len(frames) - 1)
  /\ UNCHANGED <<r, g, weights, f, stack>>

Next ==
  \/ \E x \in Nodes : Root(x)
  \/ Descend \/ Merge \/ FinishComponent \/ Return

Spec == Init /\ [][Next]_vars
FairSpec == Spec /\ WF_vars(Next)

-----------------------------------------------------------------------------
(* Properties                                                               *)

\* The nodes r leads to from x, in any number of steps: those in every set that
\* holds x and all the successors of its members.
Closed(S) == \A y \in S : r[y] \subseteq S
ReachedFrom(x) == {y \in Nodes : \A S \in SUBSET Nodes : x \in S /\ Closed(S) => y \in S}

Wanted(x) == UNION {g[y] : y \in ReachedFrom(x)}

Done == frames = <<>> /\ \A x \in Nodes : weights[x] # 0

\* As soon as the component of a node is popped, and not only at the end, its
\* set is the union of g over all the nodes it reaches: later calls read it
\* as final.  When digraph returns that holds of every node.
FinishedIsWanted ==
  /\ \A x \in Nodes : weights[x] = -1 => f[x] = Wanted(x)
  /\ Done => \A x \in Nodes : weights[x] = -1

\* The assertions in traverse's loop: finishing a component inside a recursive
\* call never takes a node whose own call is still active, and each active
\* node is where its call put it on the stack.
ActiveOnStack ==
  /\ TypeOK
  /\ \A i \in DOMAIN frames :
       /\ weights[frames[i].x] > 0
       /\ frames[i].d \in DOMAIN stack
       /\ stack[frames[i].d] = frames[i].x

\* digraph returns, whatever the relation: cycles do not keep it going.
DigraphTerminates == <>Done
=============================================================================
