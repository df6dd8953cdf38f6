---------------------------- MODULE RegexRanges ----------------------------
(***************************************************************************)
(* Groups of a regex, [a-z] or [^a-z] (RegexASTGroup): a client adds       *)
(* ranges one by one, flatten turns them into ranges in ascending order.   *)
(* And the ranges of an NFA state, to which further ones are added         *)
(* (RegexNFAState): one range per character below OPTIMIZED_CHARS, where   *)
(* the code has an array of lists, and ranges of the interval tree above.  *)
(* Lists of states are sets.                                               *)
(***************************************************************************)
EXTENDS CharRange, Sequences, FiniteSets, Functions

CONSTANTS
  Ranges,          \* the ranges a client adds
  MaxRanges,       \* bound: ranges in one group
  OPTIMIZED_CHARS  \* 128 in the code

ASSUME GroupAssumption ==
  Ranges \subseteq CharRanges /\ MaxRanges \in Nat /\ OPTIMIZED_CHARS \in Nat \ {0}

-----------------------------------------------------------------------------
(* RegexASTGroup                                                            *)

VARIABLE
  group       \* [negate, span]

GroupInit == \E negate \in BOOLEAN : group = [negate |-> negate, span |-> <<>>]

AddRange ==
  /\ Len(group.span) < MaxRanges
  /\ \E r \in Ranges : group' = [group EXCEPT !.span = <<r>> \o @]

GroupSpec == GroupInit /\ [][AddRange]_group

-----------------------------------------------------------------------------
\* std::sort.  Equal ranges keep any order.
Sorted(s) ==
  LET InOrder(p) == \A i, j \in DOMAIN s : i < j => ~ Before(s[p[j]], s[p[i]])
      order == CHOOSE p \in Bijection(DOMAIN s, DOMAIN s) : InOrder(p)
  IN  [i \in DOMAIN s |-> s[order[i]]]

\* Mutant: the end of the later range, though it may lie within the current one.
JoinedToLater(acc, r) ==
  IF r[1] <= Plus1(acc.current[2])
  THEN [acc EXCEPT !.current[2] = r[2]]
  ELSE [ranges |-> Append(acc.ranges, acc.current), current |-> r]

\* Joins a range to the current one if it begins in it or right behind it.
Joined(acc, r) ==
  IF r[1] <= Plus1(acc.current[2])
  THEN [acc EXCEPT !.current[2] = IF r[2] > @ THEN r[2] ELSE @]
  ELSE [ranges |-> Append(acc.ranges, acc.current), current |-> r]

Merge(src) ==
  LET all[i \in 1 .. Len(src)] ==
        IF i = 1 THEN [ranges |-> <<>>, current |-> src[1]] ELSE Joined(all[i - 1], src[i])
      end == all[Len(src)]
  IN  Append(end.ranges, end.current)

\* Adds the gap before a range.
Skipped(acc, r) ==
  [ranges |-> IF r[1] > 0 THEN Append(acc.ranges, <<acc.lower, r[1] - 1>>) ELSE acc.ranges,
   lower  |-> Plus1(r[2])]

Complement(src) ==
  LET all[i \in 0 .. Len(src)] ==
        IF i = 0 THEN [ranges |-> <<>>, lower |-> 0] ELSE Skipped(all[i - 1], src[i])
      end == all[Len(src)]
  IN  IF end.lower > 0 THEN Append(end.ranges, <<end.lower, UNICODE_MAX>>) ELSE end.ranges

Flatten(g) ==
  LET merged == Merge(Sorted(g.span))
  IN  IF g.span = <<>> THEN <<>>
      ELSE IF g.negate THEN Complement(merged) ELSE merged

-----------------------------------------------------------------------------
(* RegexNFAState::add                                                       *)

\* IntervalTree::insert
Inserted(tree, range, states) ==
  {e \in tree : e.range # range} \cup {[range |-> range, states |-> states]}

\* What is in an array's list, or behind a range of the tree.
StatesAt(tree, range) == UNION {e.states : e \in {e \in tree : e.range = range}}

\* Mutant: what both share is taken to end where the old range ends.
SplitPastEnd(acc, range, s, e) ==
  LET a == e.range[1]
      b == e.range[2]
      last == acc.last
      shared == Inserted(acc.tree, <<IF a > last THEN a ELSE last, b>>, e.states \cup {s})
      before == IF a < last THEN Inserted(shared, <<a, last - 1>>, e.states)
                ELSE IF a > last THEN Inserted(shared, <<last, a - 1>>, {s})
                ELSE shared
  IN  [tree |-> IF b > range[2] THEN Inserted(before, <<range[2] + 1, b>>, e.states) ELSE before,
       last |-> Plus1(b)]

\* A range of the tree that overlaps the new one is split: what both share, what
\* comes before, and what comes after.  `last' is where the rest of the new one begins.
Split(acc, range, s, e) ==
  LET a == e.range[1]
      b == e.range[2]
      last == acc.last
      upto == IF b < range[2] THEN b ELSE range[2]
      shared == Inserted(acc.tree, <<IF a > last THEN a ELSE last, upto>>, e.states \cup {s})
      before == IF a < last THEN Inserted(shared, <<a, last - 1>>, e.states)
                ELSE IF a > last THEN Inserted(shared, <<last, a - 1>>, {s})
                ELSE shared
  IN  [tree |-> IF b > range[2] THEN Inserted(before, <<range[2] + 1, b>>, e.states) ELSE before,
       last |-> Plus1(b)]

\* IntervalTree::pop yields what overlaps in ascending order.
First(es) == CHOOSE e \in es : \A d \in es \ {e} : Before(e.range, d.range)

AddUnicode(tree, range, s) ==
  LET overlaps == {e \in tree : Overlaps(e.range, range)}
      n == Cardinality(overlaps)
      \* after i of the overlaps, those left
      left[i \in 0 .. n] == IF i = 0 THEN overlaps ELSE left[i - 1] \ {First(left[i - 1])}
      split[i \in 0 .. n] ==
        IF i = 0 THEN [tree |-> tree \ overlaps, last |-> range[1]]
        ELSE Split(split[i - 1], range, s, First(left[i - 1]))
      end == split[n]
  IN  IF end.last # 0 /\ end.last <= range[2]
      THEN Inserted(end.tree, <<end.last, range[2]>>, {s})
      ELSE end.tree

AddAscii(tree, range, s) ==
  LET chars == {c \in 0 .. OPTIMIZED_CHARS - 1 : Holds(range, c)}
  IN  {e \in tree : ~ \E c \in chars : e.range = <<c, c>>}
        \cup {[range |-> <<c, c>>, states |-> StatesAt(tree, <<c, c>>) \cup {s}] : c \in chars}

Added(tree, range, s) ==
  LET ascii == AddAscii(tree, range, s)
      last == IF range[1] < OPTIMIZED_CHARS THEN OPTIMIZED_CHARS ELSE range[1]
  IN  IF last > range[2] THEN ascii ELSE AddUnicode(ascii, <<last, range[2]>>, s)

-----------------------------------------------------------------------------
(* What groups and added ranges mean                                        *)

\* The code points a group lists, or those it does not list.
Denoted(g) ==
  LET listed == {c \in Char : \E i \in DOMAIN g.span : Holds(g.span[i], c)}
  IN  IF g.negate THEN Char \ listed ELSE listed

\* A group's ranges are those code points it denotes (flatten, merge, complement), in
\* ascending order with gaps between them, unless one of the ranges it was given ends
\* at UNICODE_MAX: behind it, adding one gives 0, and nothing can be joined to it.
GroupExact ==
  LET flat == Flatten(group)
      overflows == \E i, j \in DOMAIN group.span :
                      i # j /\ group.span[i][2] = UNICODE_MAX /\ ~Before(group.span[j], group.span[i])
      exact == /\ \A c \in Char : c \in Denoted(group) <=> \E i \in DOMAIN flat : Holds(flat[i], c)
               /\ \A i \in 2 .. Len(flat) : flat[i - 1][2] + 1 < flat[i][1]
  IN  group.span = <<>> \/ overflows \/ exact

\* No two ranges of a state overlap: find() yields one of them at most.
Apart(tree) == \A d, e \in tree : d = e \/ ~ Overlaps(d.range, e.range)
=============================================================================
