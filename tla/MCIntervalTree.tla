--------------------------- MODULE MCIntervalTree ---------------------------
(***************************************************************************)
(* Instance of IntervalTree: eight ranges over four points.                *)
(***************************************************************************)
EXTENDS IntervalTree

MCKeys == CharRanges \ {<<1, 3>>, <<0, 2>>}
MCValuesOf == [k \in MCKeys |-> IF k = <<1, 2>> THEN {1, 2} ELSE {1}]
=============================================================================
