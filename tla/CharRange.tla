----------------------------- MODULE CharRange -----------------------------
(***************************************************************************)
(* Code points and ranges of them, <<first, last>>.  Code points are UInts *)
(* (global.h): adding one to the last of them gives 0.                     *)
(***************************************************************************)
EXTENDS Integers

CONSTANT Width   \* 2^32 in the code

ASSUME WidthAssumption == Width \in Nat \ {0}

UNICODE_MAX == Width - 1
Char == 0 .. UNICODE_MAX
Plus1(c) == (c + 1) % Width

CharRanges == {r \in Char \X Char : r[1] <= r[2]}

Holds(r, c) == r[1] <= c /\ c <= r[2]
Overlaps(r, s) == r[1] <= s[2] /\ s[1] <= r[2]

\* operator< of std::pair
Before(r, s) == r[1] < s[1] \/ (r[1] = s[1] /\ r[2] < s[2])
=============================================================================
