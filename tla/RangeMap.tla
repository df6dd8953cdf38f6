------------------------------ MODULE RangeMap ------------------------------
(***************************************************************************)
(* What an interval tree promises: a map from ranges, which may overlap,   *)
(* to values.  A search yields what overlaps a range, in ascending order,  *)
(* and a removal yields and removes it.                                    *)
(***************************************************************************)
EXTENDS CharRange, Sequences, FiniteSets

CONSTANTS
  Keys,      \* the ranges a client inserts and asks for
  ValuesOf   \* the values it inserts at each of them

VARIABLES
  map,      \* set of [key, value]
  answer    \* what the last call returned

vars == <<map, answer>>

Entries == UNION {[key : {k}, value : ValuesOf[k]] : k \in Keys}

\* A set of entries in ascending order of their keys.
Ascending(entries) ==
  LET places == 1 .. Cardinality(entries)
      sorted == [i \in places |->
                   CHOOSE e \in entries :
                     Cardinality({d \in entries : Before(d.key, e.key)}) = i - 1]
  IN  sorted

Found(key) == {e \in map : Overlaps(e.key, key)}

Init == map = {} /\ answer = <<>>

\* A call is made, the last answer is forgotten.
Call == answer' = <<>> /\ UNCHANGED map

Insert ==
  /\ \E e \in Entries : map' = {d \in map : d.key # e.key} \cup {e}
  /\ answer' = <<>>

Pop ==
  \E key \in Keys :
    /\ map' = map \ Found(key)
    /\ answer' = Ascending(Found(key))

Find == \E key \in Keys : answer' = Ascending(Found(key)) /\ UNCHANGED map

All == answer' = Ascending(map) /\ UNCHANGED map

Next == Call \/ Insert \/ Pop \/ Find \/ All

Spec == Init /\ [][Next]_vars
=============================================================================
