----------------------------- MODULE MCDigraph -----------------------------
(***************************************************************************)
(* Every relation over the nodes in which only node 1 may be its own       *)
(* successor (a successor that is the node itself changes nothing).  With  *)
(* a set of its own for each node, f tells apart any two sets of nodes.    *)
(***************************************************************************)
EXTENDS Digraph

CONSTANT N

MCNodes == 1 .. N
MCRelations ==
  {q \in [MCNodes -> SUBSET MCNodes] : \A x \in 2 .. N : x \notin q[x]}
MCGiven == {[x \in 1 .. N |-> {x}]}
=============================================================================
