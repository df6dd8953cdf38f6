--------------------------- MODULE Automata_proof ---------------------------
(***************************************************************************)
(* From ranges to a DFA, for any code points, ranges and NFAs.             *)
(*                                                                         *)
(* Groups: the ranges that std::sort yields ascend; merge has, after i of  *)
(* them, ranges with gaps between them that hold what the first i hold;    *)
(* complement has the gaps before and between the first i.                 *)
(*                                                                         *)
(* RegexNFAState::add: while it splits the ranges that the new one         *)
(* overlaps, the new one leads to its state up to where the rest begins,   *)
(* and nothing overlaps the rest but the ranges still to be split.         *)
(*                                                                         *)
(* to_dfa gives every set of NFA states the right successors.  The         *)
(* invariant says what is true in the middle of a state: the ranges        *)
(* followed so far and those pending are together the ranges of the set,   *)
(* and no two of those followed overlap.  So once nothing is pending, a    *)
(* character lies in one range at most, and the states behind that range   *)
(* are all the states the character leads to.                              *)
(***************************************************************************)
EXTENDS RegexRanges, SubsetConstruction, LeastElement

-----------------------------------------------------------------------------
(* Ranges in order                                                          *)

\* A range's bounds are code points, in order.
LEMMA RangeType ==
  ASSUME NEW r \in CharRanges
  PROVE  /\ r = <<r[1], r[2]>>
         /\ r[1] \in Int /\ r[2] \in Int /\ 0 <= r[1] /\ r[1] <= r[2] /\ r[2] <= UNICODE_MAX
         /\ r[1] \in Char /\ r[2] \in Char
BY WidthAssumption DEF CharRanges, Char, UNICODE_MAX

\* The order in which std::pairs are sorted.
LEMMA BeforeIsTotal ==
  ASSUME NEW r \in CharRanges, NEW t \in CharRanges, NEW u \in CharRanges
  PROVE  /\ Before(r, t) /\ ~ Before(u, t) => ~ Before(u, r)
         /\ ~ Before(t, r) => r[1] <= t[1]
         /\ Before(r, t) => ~ Before(t, r)
BY RangeType, Z3 DEF Before

\* The places of the first m ranges, in an order in which the ranges ascend.
Orders(p, s, m) ==
  /\ p \in [1 .. m -> 1 .. m]
  /\ \A i, j \in 1 .. m : p[i] = p[j] => i = j
  /\ \A i \in 1 .. m : \E j \in 1 .. m : p[j] = i
  /\ \A i, j \in 1 .. m : i < j => ~ Before(s[p[j]], s[p[i]])

\* One more range is put in front of the first one it is before.
LEMMA OrderGrows ==
  ASSUME NEW s \in Seq(CharRanges), NEW m \in 1 .. Len(s), NEW p, Orders(p, s, m - 1)
  PROVE  \E q : Orders(q, s, m)
<1> DEFINE K == {j \in 1 .. m : j = m \/ Before(s[m], s[p[j]])}
<1>1. m \in Nat /\ m >= 1 /\ \A i \in 1 .. m : s[i] \in CharRanges
  OBVIOUS
<1>2. PICK k \in K : \A j \in K : k <= j
  <2>1. K \subseteq Nat /\ m \in K
    BY <1>1
  <2> HIDE DEF K
  <2> QED BY <2>1, LeastNat
<1>3. /\ k \in 1 .. m
      /\ k = m \/ Before(s[m], s[p[k]])
      /\ \A j \in 1 .. m - 1 : j < k => ~ Before(s[m], s[p[j]])
  BY <1>2, <1>1
<1> HIDE DEF K
<1> DEFINE q == [j \in 1 .. m |-> IF j < k THEN p[j] ELSE IF j = k THEN m ELSE p[j - 1]]
<1>4. /\ p \in [1 .. m - 1 -> 1 .. m - 1]
      /\ \A i, j \in 1 .. m - 1 : p[i] = p[j] => i = j
      /\ \A i \in 1 .. m - 1 : \E j \in 1 .. m - 1 : p[j] = i
      /\ \A i, j \in 1 .. m - 1 : i < j => ~ Before(s[p[j]], s[p[i]])
  BY DEF Orders
<1>5. \A j \in 1 .. m : /\ j < k => q[j] = p[j] /\ j \in 1 .. m - 1
                        /\ j = k => q[j] = m
                        /\ j > k => q[j] = p[j - 1] /\ j - 1 \in 1 .. m - 1
  BY <1>1, <1>3
<1>6. q = [j \in 1 .. m |-> q[j]]
  OBVIOUS
<1> HIDE DEF q
<1>7. \A j \in 1 .. m : q[j] \in 1 .. m
  <2> SUFFICES ASSUME NEW j \in 1 .. m PROVE q[j] \in 1 .. m
    BY Zenon
  <2>1. \A l \in 1 .. m - 1 : p[l] \in 1 .. m
    BY <1>1, <1>4
  <2>2. CASE j < k
    BY <2>1, <2>2, <1>5
  <2>3. CASE j = k
    BY <2>3, <1>1, <1>5
  <2>4. CASE j > k
    BY <2>1, <2>4, <1>5
  <2> QED BY <2>2, <2>3, <2>4, <1>1, <1>3
<1>8. ASSUME NEW i \in 1 .. m, NEW j \in 1 .. m, q[i] = q[j]
      PROVE  i = j
  <2>1. \A l \in 1 .. m - 1 : p[l] # m
    BY <1>1, <1>4
  <2>2. CASE i < k /\ j < k
    BY <2>2, <1>8, <1>4, <1>5
  <2>3. CASE i < k /\ j > k
    <3>1. q[i] = p[i] /\ i \in 1 .. m - 1 /\ q[j] = p[j - 1] /\ j - 1 \in 1 .. m - 1
      BY <2>3, <1>5
    <3>2. i = j - 1
      BY <3>1, <1>4, <1>8
    <3> QED BY <3>2, <2>3, <1>1, <1>3
  <2>4. CASE i > k /\ j < k
    <3>1. q[i] = p[i - 1] /\ i - 1 \in 1 .. m - 1 /\ q[j] = p[j] /\ j \in 1 .. m - 1
      BY <2>4, <1>5
    <3>2. i - 1 = j
      BY <3>1, <1>4, <1>8
    <3> QED BY <3>2, <2>4, <1>1, <1>3
  <2>5. CASE i > k /\ j > k
    <3>1. q[i] = p[i - 1] /\ i - 1 \in 1 .. m - 1 /\ q[j] = p[j - 1] /\ j - 1 \in 1 .. m - 1
      BY <2>5, <1>5
    <3>2. i - 1 = j - 1
      BY <3>1, <1>4, <1>8
    <3> QED BY <3>2, <1>1
  <2>6. CASE i = k \/ j = k
    BY <2>6, <2>1, <1>8, <1>1, <1>3, <1>5
  <2> QED BY <2>2, <2>3, <2>4, <2>5, <2>6, <1>1, <1>3
<1>9. ASSUME NEW i \in 1 .. m
      PROVE  \E j \in 1 .. m : q[j] = i
  <2>1. CASE i = m
    BY <2>1, <1>3, <1>5
  <2>2. CASE i # m
    <3>1. i \in 1 .. m - 1
      BY <2>2, <1>1
    <3>2. PICK l \in 1 .. m - 1 : p[l] = i
      BY <3>1, <1>4
    <3>3. CASE l < k
      BY <3>2, <3>3, <1>1, <1>5
    <3>4. CASE l >= k
      <4>1. l + 1 \in 1 .. m /\ l + 1 > k /\ (l + 1) - 1 = l
        BY <3>4, <1>1, <1>3
      <4> QED BY <3>2, <4>1, <1>5
    <3> QED BY <3>3, <3>4, <1>1, <1>3
  <2> QED BY <2>1, <2>2
<1>10. ASSUME NEW i \in 1 .. m, NEW j \in 1 .. m, i < j
       PROVE  ~ Before(s[q[j]], s[q[i]])
  <2>0. ASSUME NEW l \in 1 .. m - 1 PROVE p[l] \in 1 .. m /\ s[p[l]] \in CharRanges
    <3>1. p[l] \in 1 .. m - 1
      BY <1>4
    <3>2. p[l] \in 1 .. m
      BY <3>1, <1>1
    <3> QED BY <3>2, <1>1
  <2>1. CASE j < k
    <3>1. q[i] = p[i] /\ q[j] = p[j] /\ i \in 1 .. m - 1 /\ j \in 1 .. m - 1
      BY <2>1, <1>10, <1>1, <1>3, <1>5
    <3> QED BY <3>1, <1>4, <1>10
  <2>2. CASE j = k
    BY <2>2, <1>10, <1>1, <1>3, <1>4, <1>5
  <2>3. CASE j > k /\ i < k
    <3>1. i \in 1 .. m - 1 /\ j - 1 \in 1 .. m - 1 /\ i < j - 1
      BY <2>3, <1>1, <1>3
    <3> QED BY <3>1, <2>3, <1>4, <1>5
  <2>4. CASE i = k
    <3>1. k # m /\ k \in 1 .. m - 1 /\ j - 1 \in 1 .. m - 1 /\ (k = j - 1 \/ k < j - 1)
      BY <2>4, <1>10, <1>1, <1>3
    <3>2. Before(s[m], s[p[k]]) /\ ~ Before(s[p[j - 1]], s[p[k]]) 
      <4>1. ~ Before(s[p[k]], s[p[k]])
        BY <2>0, <3>1, BeforeIsTotal
      <4> QED BY <3>1, <4>1, <1>3, <1>4
    <3>3. s[m] \in CharRanges /\ s[p[k]] \in CharRanges /\ s[p[j - 1]] \in CharRanges
      BY <1>1, <2>0, <3>1
    <3>4. ~ Before(s[p[j - 1]], s[m])
      BY <3>2, <3>3, BeforeIsTotal
    <3> QED BY <3>4, <2>4, <1>10, <1>1, <1>3, <1>5
  <2>5. CASE i > k
    <3>1. i - 1 \in 1 .. m - 1 /\ j - 1 \in 1 .. m - 1 /\ i - 1 < j - 1
      BY <2>5, <1>10, <1>1, <1>3
    <3>2. q[i] = p[i - 1] /\ q[j] = p[j - 1]
      BY <2>5, <1>10, <1>1, <1>3, <1>5
    <3> QED BY <3>1, <3>2, <1>4
  <2> QED BY <2>1, <2>2, <2>3, <2>4, <2>5, <1>1, <1>3
<1> QED BY <1>6, <1>7, <1>8, <1>9, <1>10 DEF Orders

\* Any ranges can be sorted.
LEMMA OrderExists ==
  ASSUME NEW s \in Seq(CharRanges)
  PROVE  \E p : Orders(p, s, Len(s))
<1> DEFINE S == {m \in 0 .. Len(s) : \E p : Orders(p, s, m)}
<1>1. 0 \in S
  <2>1. 1 .. 0 = {}
    OBVIOUS
  <2>2. Orders([i \in 1 .. 0 |-> i], s, 0)
    BY <2>1 DEF Orders
  <2> QED BY <2>2
<1>2. ASSUME NEW n \in 1 .. Len(s), n - 1 \in S
      PROVE  n \in S
  BY <1>2, OrderGrows
<1>3. Len(s) \in S
  <2> HIDE DEF S
  <2>0. Len(s) \in Nat
    OBVIOUS
  <2>1. 0 .. Len(s) \subseteq S
    BY <2>0, <1>1, <1>2, UpTo, Zenon
  <2> QED BY <2>0, <2>1
<1> QED BY <1>3

\* What std::sort yields: the same ranges, in ascending order.
LEMMA SortedIsSorted ==
  ASSUME NEW s \in Seq(CharRanges)
  PROVE  \E p : Orders(p, s, Len(s)) /\ Sorted(s) = [i \in 1 .. Len(s) |-> s[p[i]]]
<1> DEFINE InOrder(p) == \A i, j \in DOMAIN s : i < j => ~ Before(s[p[j]], s[p[i]])
           order == CHOOSE p \in Bijection(DOMAIN s, DOMAIN s) : InOrder(p)
<1>1. DOMAIN s = 1 .. Len(s)
  OBVIOUS
<1>2. PICK q : Orders(q, s, Len(s))
  BY OrderExists
<1>3. q \in Bijection(DOMAIN s, DOMAIN s) /\ InOrder(q)
  BY <1>1, <1>2 DEF Orders, Bijection, Injection, Surjection, IsInjective
<1>4. order \in Bijection(DOMAIN s, DOMAIN s) /\ InOrder(order)
  <2> HIDE DEF InOrder
  <2> QED BY <1>3
<1>5. Sorted(s) = [i \in 1 .. Len(s) |-> s[order[i]]]
  BY <1>1 DEF Sorted
<1> HIDE DEF order
<1>6. Orders(order, s, Len(s))
  BY <1>1, <1>4 DEF Orders, Bijection, Injection, Surjection, IsInjective
<1> QED BY <1>5, <1>6

-----------------------------------------------------------------------------
(* Merge                                                                    *)

\* The code points that a sequence of ranges holds.
Lists(s, c) == \E i \in 1 .. Len(s) : Holds(s[i], c)

\* Ranges in ascending order with gaps between them.
Spaced(s) == \A i \in 2 .. Len(s) : s[i - 1][2] + 1 < s[i][1]

\* What a sequence of ranges holds with one more ...
LEMMA AppendLists ==
  ASSUME NEW s \in Seq(CharRanges), NEW r \in CharRanges, NEW c
  PROVE  Lists(Append(s, r), c) <=> Lists(s, c) \/ Holds(r, c)
<1>1. Len(Append(s, r)) = Len(s) + 1 /\ Append(s, r)[Len(s) + 1] = r
  OBVIOUS
<1>2. \A i \in 1 .. Len(s) : Append(s, r)[i] = s[i]
  OBVIOUS
<1>3. \A i \in 1 .. Len(s) + 1 : i = Len(s) + 1 \/ i \in 1 .. Len(s)
  OBVIOUS
<1>4. \A i \in 1 .. Len(s) : i \in 1 .. Len(s) + 1
  OBVIOUS
<1>5. Len(s) + 1 \in 1 .. Len(s) + 1
  OBVIOUS
<1> QED BY <1>1, <1>2, <1>3, <1>4, <1>5 DEF Lists

\* ... and when there are gaps between all of them.
LEMMA AppendSpaced ==
  ASSUME NEW s \in Seq(CharRanges), NEW r \in CharRanges
  PROVE  Spaced(Append(s, r)) <=> Spaced(s) /\ (s # <<>> => s[Len(s)][2] + 1 < r[1])
<1>1. Len(Append(s, r)) = Len(s) + 1 /\ Append(s, r)[Len(s) + 1] = r /\ Len(s) \in Nat
  OBVIOUS
<1>2. \A i \in 1 .. Len(s) : Append(s, r)[i] = s[i]
  OBVIOUS
<1>3. s # <<>> <=> Len(s) >= 1
  OBVIOUS
<1> DEFINE a == Append(s, r)
<1> HIDE DEF a
<1>4. ASSUME Spaced(a) PROVE Spaced(s) /\ (s # <<>> => s[Len(s)][2] + 1 < r[1])
  <2>1. ASSUME NEW i \in 2 .. Len(s) PROVE s[i - 1][2] + 1 < s[i][1]
    <3>1. i \in 2 .. Len(s) + 1 /\ i \in 1 .. Len(s) /\ i - 1 \in 1 .. Len(s)
      BY <1>1
    <3> QED BY <3>1, <1>1, <1>2, <1>4 DEF Spaced, a
  <2>2. ASSUME s # <<>> PROVE s[Len(s)][2] + 1 < r[1]
    <3>1. Len(s) + 1 \in 2 .. Len(s) + 1 /\ Len(s) \in 1 .. Len(s) /\ (Len(s) + 1) - 1 = Len(s)
      BY <2>2, <1>1, <1>3
    <3> QED BY <3>1, <1>1, <1>2, <1>4 DEF Spaced, a
  <2> QED BY <2>1, <2>2 DEF Spaced
<1>5. ASSUME Spaced(s), s # <<>> => s[Len(s)][2] + 1 < r[1] PROVE Spaced(a)
  <2>1. ASSUME NEW i \in 2 .. Len(s) + 1 PROVE a[i - 1][2] + 1 < a[i][1]
    <3>1. CASE i = Len(s) + 1
      <4>1. Len(s) \in 1 .. Len(s) /\ i - 1 = Len(s) /\ s # <<>>
        BY <3>1, <1>1, <1>3
      <4> QED BY <4>1, <3>1, <1>1, <1>2, <1>5 DEF a
    <3>2. CASE i # Len(s) + 1
      <4>1. i \in 2 .. Len(s) /\ i \in 1 .. Len(s) /\ i - 1 \in 1 .. Len(s)
        BY <3>2, <1>1
      <4> QED BY <4>1, <1>2, <1>5 DEF Spaced, a
    <3> QED BY <3>1, <3>2
  <2>2. Len(a) = Len(s) + 1
    BY <1>1 DEF a
  <2> QED BY <2>1, <2>2 DEF Spaced
<1> QED BY <1>4, <1>5 DEF a

\* Adding one wraps at the last code point only.
LEMMA PlusOne ==
  ASSUME NEW c \in Char
  PROVE  /\ c < UNICODE_MAX => Plus1(c) = c + 1
         /\ c = UNICODE_MAX => Plus1(c) = 0
BY WidthAssumption, Z3 DEF Plus1, Char, UNICODE_MAX

\* Ranges that std::sort yields, only the last of which may end at UNICODE_MAX.
Ascending(s) ==
  /\ \A i, j \in 1 .. Len(s) : i < j => s[i][1] <= s[j][1]
  /\ \A i, j \in 1 .. Len(s) : i < j => s[i][2] < UNICODE_MAX

\* merge's two variables: the ranges that are done, and the current one.
Accs == [ranges : Seq(CharRanges), current : CharRanges]

\* What merge has made of the first i ranges.
Merged(acc, s, i) ==
  LET listed == Append(acc.ranges, acc.current)
  IN  /\ \A c \in Char : Lists(listed, c) <=> \E k \in 1 .. i : Holds(s[k], c)
      /\ Spaced(listed)
      /\ acc.current[1] <= s[i][1]
      /\ (\A k \in 1 .. i : s[k][2] < UNICODE_MAX) => acc.current[2] < UNICODE_MAX

\* They keep their types.
LEMMA JoinedType ==
  ASSUME NEW acc \in Accs, NEW r \in CharRanges
  PROVE  Joined(acc, r) \in Accs
<1>1. acc.ranges \in Seq(CharRanges) /\ acc.current \in CharRanges
  BY DEF Accs
<1>2. CASE r[1] <= Plus1(acc.current[2])
  <2> DEFINE last == IF r[2] > acc.current[2] THEN r[2] ELSE acc.current[2]
  <2>1. Joined(acc, r) = [ranges |-> acc.ranges, current |-> <<acc.current[1], last>>]
    <3>1. /\ acc = [ranges |-> acc.ranges, current |-> acc.current]
          /\ acc.current = <<acc.current[1], acc.current[2]>>
      BY <1>1, RangeType DEF Accs
    <3>2. [acc EXCEPT !.current[2] = last] = [ranges |-> acc.ranges, current |-> <<acc.current[1], last>>]
      BY <3>1
    <3> QED BY <1>2, <3>2 DEF Joined
  <2>2. <<acc.current[1], last>> \in CharRanges
    BY <1>1, RangeType DEF CharRanges
  <2> QED BY <1>1, <2>1, <2>2 DEF Accs
<1>3. CASE ~ (r[1] <= Plus1(acc.current[2]))
  <2>1. Joined(acc, r) = [ranges |-> Append(acc.ranges, acc.current), current |-> r]
    BY <1>3 DEF Joined
  <2> QED BY <1>1, <2>1 DEF Accs
<1> QED BY <1>2, <1>3

\* One more range, not the first.
LEMMA JoinedMerged ==
  ASSUME NEW s \in Seq(CharRanges), Ascending(s), NEW i \in 2 .. Len(s),
         NEW acc \in Accs, Merged(acc, s, i - 1)
  PROVE  Merged(Joined(acc, s[i]), s, i)
<1> DEFINE r == s[i]
           f == acc.current[1]
           l == acc.current[2]
           old == Append(acc.ranges, acc.current)
<1>1. /\ r \in CharRanges /\ i \in 1 .. Len(s) /\ i - 1 \in 1 .. Len(s) /\ s[i - 1] \in CharRanges
      /\ acc.ranges \in Seq(CharRanges) /\ acc.current \in CharRanges
  BY DEF Accs
<1>10. /\ r[1] \in Int /\ r[2] \in Int /\ 0 <= r[1] /\ r[1] <= r[2] /\ r[2] <= UNICODE_MAX
       /\ r[1] \in Char /\ r[2] \in Char
       /\ f \in Int /\ l \in Int /\ 0 <= f /\ f <= l /\ l <= UNICODE_MAX /\ f \in Char /\ l \in Char
       /\ acc.current = <<f, l>> /\ s[i - 1][1] \in Int
  <2> HIDE DEF r
  <2> QED BY <1>1, RangeType
<1>2. \A k \in 1 .. i - 1 : s[k][2] < UNICODE_MAX
  <2>1. \A k \in 1 .. i - 1 : k \in 1 .. Len(s) /\ k < i
    OBVIOUS
  <2> QED BY <1>1, <2>1 DEF Ascending
<1>3. l < UNICODE_MAX /\ Plus1(l) = l + 1
  BY <1>1, <1>2, RangeType, PlusOne DEF Merged
<1>4. f <= r[1]
  <2>1. s[i - 1][1] <= r[1]
    BY <1>1 DEF Ascending
  <2>2. f <= s[i - 1][1]
    BY DEF Merged
  <2> HIDE DEF f, r
  <2> QED BY <2>1, <2>2, <1>10
<1>5. \A c : (\E k \in 1 .. i : Holds(s[k], c)) <=> (\E k \in 1 .. i - 1 : Holds(s[k], c)) \/ Holds(r, c)
  <2>1. \A k \in 1 .. i : k = i \/ k \in 1 .. i - 1
    OBVIOUS
  <2>2. i \in 1 .. i /\ \A k \in 1 .. i - 1 : k \in 1 .. i
    OBVIOUS
  <2> QED BY <2>1, <2>2
<1>6. \A c \in Char : (Lists(acc.ranges, c) \/ Holds(acc.current, c)) <=> \E k \in 1 .. i - 1 : Holds(s[k], c)
  BY <1>1, AppendLists DEF Merged
<1>7. Spaced(acc.ranges) /\ (acc.ranges # <<>> => acc.ranges[Len(acc.ranges)][2] + 1 < f)
  BY <1>1, AppendSpaced DEF Merged
<1>8. CASE r[1] <= l + 1
  <2> DEFINE last == IF r[2] > l THEN r[2] ELSE l
             cur == <<f, last>>
  <2>1. Joined(acc, r) = [ranges |-> acc.ranges, current |-> cur]
    <3>1. /\ acc = [ranges |-> acc.ranges, current |-> acc.current]
          /\ acc.current = <<acc.current[1], acc.current[2]>>
      BY <1>1, RangeType DEF Accs
    <3>2. [acc EXCEPT !.current[2] = last] = [ranges |-> acc.ranges, current |-> cur]
      BY <3>1
    <3> QED BY <1>3, <1>8, <3>2 DEF Joined
  <2>2. cur \in CharRanges
    <3> HIDE DEF r, f, l
    <3>1. last \in Char /\ f <= last
      BY <1>10
    <3> QED BY <3>1, <1>10 DEF CharRanges
  <2>3. \A c \in Char : Holds(cur, c) <=> Holds(acc.current, c) \/ Holds(r, c)
    <3>1. acc.current[1] = f /\ acc.current[2] = l
      OBVIOUS
    <3> HIDE DEF r, f, l
    <3>2. \A c \in Char : c \in Int
      BY WidthAssumption DEF Char
    <3> QED BY <1>10, <1>4, <1>8, <3>1, <3>2 DEF Holds
  <2>4. \A c \in Char : Lists(Append(acc.ranges, cur), c) <=> \E k \in 1 .. i : Holds(s[k], c)
    <3> HIDE DEF cur, r
    <3> SUFFICES ASSUME NEW c \in Char
                 PROVE  Lists(Append(acc.ranges, cur), c) <=> \E k \in 1 .. i : Holds(s[k], c)
      OBVIOUS
    <3>1. Lists(Append(acc.ranges, cur), c) <=> Lists(acc.ranges, c) \/ Holds(cur, c)
      BY <1>1, <2>2, AppendLists
    <3> QED BY <3>1, <1>5, <1>6, <2>3
  <2>5. Spaced(Append(acc.ranges, cur))
    BY <1>1, <1>7, <2>2, AppendSpaced
  <2>6. (\A k \in 1 .. i : s[k][2] < UNICODE_MAX) => cur[2] < UNICODE_MAX
    BY <1>1, <1>3
  <2> HIDE DEF cur
  <2> QED BY <2>1, <2>4, <2>5, <2>6, <1>4 DEF Merged, cur
<1>9. CASE ~ (r[1] <= l + 1)
  <2>1. Joined(acc, r) = [ranges |-> old, current |-> r]
    BY <1>3, <1>9 DEF Joined
  <2>2. old \in Seq(CharRanges) /\ old # <<>> /\ old[Len(old)] = acc.current
    BY <1>1
  <2>3. \A c \in Char : Lists(Append(old, r), c) <=> \E k \in 1 .. i : Holds(s[k], c)
    BY <1>1, <1>5, <1>6, <2>2, AppendLists
  <2>4. Spaced(Append(old, r))
    <3>1. Spaced(old)
      BY DEF Merged
    <3>2. l + 1 < r[1]
      <4> HIDE DEF r, l, f
      <4> QED BY <1>9, <1>10
    <3> HIDE DEF old
    <3> QED BY <1>1, <2>2, <3>1, <3>2, AppendSpaced
  <2>5. (\A k \in 1 .. i : s[k][2] < UNICODE_MAX) => r[2] < UNICODE_MAX
    BY <1>1
  <2>6. r[1] <= s[i][1]
    BY <1>10
  <2> HIDE DEF old, r
  <2> QED BY <2>1, <2>3, <2>4, <2>5, <2>6 DEF Merged, r
<1> QED BY <1>1, <1>8, <1>9, RangeType

\* merge: the ranges in ascending order, with gaps between them, that hold what
\* the sorted ranges hold.
LEMMA MergeIsExact ==
  ASSUME NEW s \in Seq(CharRanges), s # <<>>, Ascending(s)
  PROVE  /\ Merge(s) \in Seq(CharRanges) /\ Merge(s) # <<>>
         /\ \A c \in Char : Lists(Merge(s), c) <=> Lists(s, c)
         /\ Spaced(Merge(s))
<1> DEFINE n == Len(s)
           Next(f, i) == IF i = 1 THEN [ranges |-> <<>>, current |-> s[1]] ELSE Joined(f[i - 1], s[i])
           IsAll(f) == f = [i \in 1 .. n |-> Next(f, i)]
           all == CHOOSE f : IsAll(f)
<1>1. n \in Nat /\ n >= 1 /\ \A i \in 1 .. n : s[i] \in CharRanges
  OBVIOUS
<1> DEFINE first == [ranges |-> <<>>, current |-> s[1]]
<1>2. first \in Accs
  BY <1>1 DEF Accs
<1>3. \E f : IsAll(f)
  <2> DEFINE F == [i \in 1 .. n - 1 |-> [acc \in Accs |-> Joined(acc, s[i + 1])]]
             D == [i \in 0 .. n - 1 |-> Accs]
  <2>1. Leads(F, D, n - 1)
    <3> SUFFICES ASSUME NEW i \in 1 .. n - 1, NEW x \in D[i - 1] PROVE F[i][x] \in D[i]
      BY DEF Leads
    <3>1. i - 1 \in 0 .. n - 1 /\ i \in 0 .. n - 1 /\ i + 1 \in 1 .. n
      BY <1>1
    <3>2. x \in Accs /\ F[i][x] = Joined(x, s[i + 1])
      BY <3>1
    <3> QED BY <1>1, <3>1, <3>2, JoinedType
  <2>2. n - 1 \in Nat /\ first \in D[0]
    BY <1>1, <1>2
  <2> HIDE DEF F, D, n, first
  <2>3. PICK g : Iterates(g, first, F, D, n - 1)
    BY <2>1, <2>2, Iteration
  <2> DEFINE f == [i \in 1 .. n |-> g[i - 1]]
  <2>4. ASSUME NEW i \in 1 .. n PROVE f[i] = Next(f, i)
    <3>1. CASE i = 1
      BY <3>1, <2>3 DEF Iterates, first
    <3>2. CASE i # 1
      <4>1. i - 1 \in 1 .. n - 1 /\ i - 1 \in 1 .. n /\ (i - 1) + 1 = i
        BY <1>1, <3>2
      <4>2. g[(i - 1) - 1] \in D[(i - 1) - 1] /\ g[i - 1] = F[i - 1][g[(i - 1) - 1]]
        BY <2>3, <4>1 DEF Iterates
      <4>3. (i - 1) - 1 \in 0 .. n - 1
        BY <1>1, <3>2
      <4>4. F[i - 1][g[(i - 1) - 1]] = Joined(g[(i - 1) - 1], s[i])
        BY <4>1, <4>2, <4>3 DEF F, D
      <4>5. f[i] = g[i - 1] /\ f[i - 1] = g[(i - 1) - 1]
        BY <4>1
      <4> QED BY <3>2, <4>2, <4>4, <4>5
    <3> QED BY <3>1, <3>2
  <2>5. f = [i \in 1 .. n |-> f[i]]
    OBVIOUS
  <2> HIDE DEF f, Next
  <2>6. f = [i \in 1 .. n |-> Next(f, i)]
    BY <2>4, <2>5
  <2> QED BY <2>6
<1>4. IsAll(all)
  <2> HIDE DEF IsAll
  <2> QED BY <1>3
<1>5. Merge(s) = Append(all[n].ranges, all[n].current)
  BY DEF Merge
<1> HIDE DEF all
<1>6. all[1] = first /\ \A i \in 2 .. n : all[i] = Joined(all[i - 1], s[i])
  <2>1. \A i \in 1 .. n : all[i] = Next(all, i)
    <3> HIDE DEF Next
    <3> QED BY <1>4
  <2>2. 1 \in 1 .. n /\ \A i \in 2 .. n : i \in 1 .. n /\ i # 1
    BY <1>1
  <2> QED BY <2>1, <2>2
<1> DEFINE S == {k \in 0 .. n - 1 : all[k + 1] \in Accs /\ Merged(all[k + 1], s, k + 1)}
<1>7. 0 \in S
  <2>0. s[1] \in CharRanges /\ <<>> \in Seq(CharRanges) /\ 1 .. 1 = {1}
    BY <1>1
  <2>1. \A c \in Char : Lists(Append(<<>>, s[1]), c) <=> \E k \in 1 .. 1 : Holds(s[k], c)
    <3>1. \A c : ~ Lists(<<>>, c)
      BY DEF Lists
    <3> QED BY <2>0, <3>1, AppendLists
  <2>2. Spaced(Append(<<>>, s[1]))
    <3>1. Spaced(<<>>)
      BY DEF Spaced
    <3> QED BY <2>0, <3>1, AppendSpaced
  <2>3. Merged(first, s, 1)
    <3>1. s[1][1] <= s[1][1]
      BY <2>0, RangeType
    <3> QED BY <2>0, <2>1, <2>2, <3>1 DEF Merged
  <2> HIDE DEF first
  <2> QED BY <1>1, <1>2, <1>6, <2>3
<1>8. ASSUME NEW k \in 1 .. n - 1, k - 1 \in S
      PROVE  k \in S
  <2>1. all[k] \in Accs /\ Merged(all[k], s, k)
    BY <1>8
  <2>2. k + 1 \in 2 .. n /\ (k + 1) - 1 = k /\ k \in 0 .. n - 1
    BY <1>1
  <2>3. all[k + 1] = Joined(all[k], s[k + 1])
    BY <1>6, <2>2
  <2>4. s[k + 1] \in CharRanges
    BY <1>1, <2>2
  <2>5. Merged(Joined(all[k], s[k + 1]), s, k + 1)
    BY <2>1, <2>2, JoinedMerged
  <2> QED BY <2>1, <2>2, <2>3, <2>4, <2>5, JoinedType
<1>9. n - 1 \in S
  <2> HIDE DEF S
  <2>0. n - 1 \in Nat
    BY <1>1
  <2> HIDE DEF n
  <2>1. 0 .. n - 1 \subseteq S
    BY <2>0, <1>7, <1>8, UpTo, Zenon
  <2> QED BY <2>0, <2>1
<1>10. all[n] \in Accs /\ Merged(all[n], s, n)
  BY <1>1, <1>9
<1>11. Merge(s) \in Seq(CharRanges) /\ Merge(s) # <<>>
  BY <1>5, <1>10 DEF Accs
<1> QED BY <1>5, <1>10, <1>11 DEF Merged, Lists

-----------------------------------------------------------------------------
(* Complement                                                               *)

\* complement's: the gaps found, and where the next one begins.
Gaps == [ranges : Seq(CharRanges), lower : Char]

\* What lies behind the first i ranges begins here; it may be nothing.
Behind(s, i) == IF i = 0 THEN 0 ELSE s[i][2] + 1

\* What complement has made of the first i ranges: the gaps before and between them.
Complemented(acc, s, i) ==
  /\ acc.lower = Behind(s, i) % Width
  /\ \A c \in Char : Lists(acc.ranges, c) <=> c < Behind(s, i) /\ \A k \in 1 .. i : ~ Holds(s[k], c)
  /\ \A k \in 1 .. i : s[k][2] < Behind(s, i)
  /\ Spaced(acc.ranges)
  /\ acc.ranges # <<>> => acc.ranges[Len(acc.ranges)][2] + 1 < Behind(s, i)

\* One more range.
LEMMA SkippedComplemented ==
  ASSUME NEW s \in Seq(CharRanges), Spaced(s), NEW i \in 1 .. Len(s),
         NEW acc \in Gaps, Complemented(acc, s, i - 1)
  PROVE  Skipped(acc, s[i]) \in Gaps /\ Complemented(Skipped(acc, s[i]), s, i)
<1> DEFINE f == s[i][1]
           l == s[i][2]
           b == Behind(s, i - 1)
<1>1. /\ s[i] \in CharRanges /\ acc.ranges \in Seq(CharRanges) /\ acc.lower \in Char
      /\ s[i] = <<f, l>>
      /\ f \in Int /\ l \in Int /\ 0 <= f /\ f <= l /\ l <= UNICODE_MAX /\ f \in Char /\ l \in Char
  BY RangeType DEF Gaps
<1>2. /\ b \in Int /\ 0 <= b
      /\ i = 1 => b = 0
      /\ i # 1 => b < f
      /\ b <= f
  <2>1. CASE i = 1
    BY <2>1, <1>1 DEF Behind
  <2>2. CASE i # 1
    <3>1. i \in 2 .. Len(s) /\ i - 1 \in 1 .. Len(s) /\ s[i - 1] \in CharRanges
      BY <2>2
    <3>2. s[i - 1][2] \in Int /\ 0 <= s[i - 1][2]
      <4>1. s[i - 1][1] \in Int /\ s[i - 1][2] \in Int /\ 0 <= s[i - 1][1] /\ s[i - 1][1] <= s[i - 1][2]
        BY <3>1, RangeType
      <4> QED BY <4>1
    <3>3. b = s[i - 1][2] + 1
      BY <2>2 DEF Behind
    <3>4. s[i - 1][2] + 1 < f
      BY <3>1 DEF Spaced
    <3> HIDE DEF b, f
    <3> QED BY <3>2, <3>3, <3>4, <2>2, <1>1
  <2> QED BY <2>1, <2>2
<1>3. acc.lower = b
  <2>1. b \in 0 .. Width - 1
    <3> HIDE DEF b, f, l
    <3> QED BY <1>1, <1>2, WidthAssumption DEF UNICODE_MAX
  <2>2. acc.lower = b % Width
    BY DEF Complemented
  <2> HIDE DEF b
  <2> QED BY <2>1, <2>2, WidthAssumption, Z3
<1>4. Behind(s, i) = l + 1
  BY DEF Behind
<1>5. /\ \A c \in Char : Lists(acc.ranges, c) <=> c < b /\ \A k \in 1 .. i - 1 : ~ Holds(s[k], c)
      /\ \A k \in 1 .. i - 1 : s[k][2] < b
      /\ Spaced(acc.ranges)
      /\ acc.ranges # <<>> => acc.ranges[Len(acc.ranges)][2] + 1 < b
  BY DEF Complemented
<1>6. \A k \in 1 .. i : k = i \/ k \in 1 .. i - 1
  OBVIOUS
<1>7. i \in 1 .. i /\ \A k \in 1 .. i - 1 : k \in 1 .. i /\ s[k] \in CharRanges
  OBVIOUS
<1>8. \A k \in 1 .. i : s[k][2] < l + 1
  <2> SUFFICES ASSUME NEW k \in 1 .. i PROVE s[k][2] < l + 1
    OBVIOUS
  <2>1. CASE k = i
    <3>1. s[k][2] = l
      BY <2>1
    <3> HIDE DEF l
    <3> QED BY <3>1, <1>1
  <2>2. CASE k # i
    <3>1. k \in 1 .. i - 1 /\ s[k][2] < b /\ s[k][2] \in Int
      BY <2>2, <1>5, <1>6, <1>7, RangeType
    <3> HIDE DEF l, b, f
    <3> QED BY <3>1, <1>1, <1>2
  <2> QED BY <2>1, <2>2
<1>9. \A c \in Char : (c < l + 1 /\ \A k \in 1 .. i : ~ Holds(s[k], c)) <=>
                      (c < f /\ \A k \in 1 .. i - 1 : ~ Holds(s[k], c))
  <2> SUFFICES ASSUME NEW c \in Char
               PROVE  (c < l + 1 /\ \A k \in 1 .. i : ~ Holds(s[k], c)) <=>
                      (c < f /\ \A k \in 1 .. i - 1 : ~ Holds(s[k], c))
    OBVIOUS
  <2>1. (\A k \in 1 .. i : ~ Holds(s[k], c)) <=> (\A k \in 1 .. i - 1 : ~ Holds(s[k], c)) /\ ~ Holds(s[i], c)
    BY <1>6, <1>7
  <2>2. Holds(s[i], c) <=> f <= c /\ c <= l
    BY DEF Holds
  <2>3. c \in Int
    BY WidthAssumption DEF Char, UNICODE_MAX
  <2> HIDE DEF f, l
  <2> QED BY <2>1, <2>2, <2>3, <1>1
<1>10. \A c \in Char : (c < f /\ \A k \in 1 .. i - 1 : ~ Holds(s[k], c)) <=>
                       Lists(acc.ranges, c) \/ (b <= c /\ c <= f - 1)
  <2> SUFFICES ASSUME NEW c \in Char
               PROVE  (c < f /\ \A k \in 1 .. i - 1 : ~ Holds(s[k], c)) <=>
                      Lists(acc.ranges, c) \/ (b <= c /\ c <= f - 1)
    OBVIOUS
  <2>1. c \in Int
    BY WidthAssumption DEF Char, UNICODE_MAX
  <2>2. b <= c => \A k \in 1 .. i - 1 : ~ Holds(s[k], c)
    <3> SUFFICES ASSUME b <= c, NEW k \in 1 .. i - 1 PROVE ~ Holds(s[k], c)
      OBVIOUS
    <3>1. s[k][2] \in Int /\ s[k][2] < b
      BY <1>5, <1>7, RangeType
    <3> HIDE DEF b
    <3> QED BY <3>1, <2>1, <1>2 DEF Holds
  <2>3. Lists(acc.ranges, c) <=> c < b /\ \A k \in 1 .. i - 1 : ~ Holds(s[k], c)
    BY <1>5
  <2> HIDE DEF f, l, b
  <2> QED BY <2>1, <2>2, <2>3, <1>1, <1>2
<1>11. Plus1(l) = (l + 1) % Width /\ Plus1(l) \in Char
  BY <1>1, WidthAssumption, Z3 DEF Plus1, Char, UNICODE_MAX
<1>12. CASE f > 0
  <2> DEFINE gap == <<b, f - 1>>
             ranges == Append(acc.ranges, gap)
  <2>1. Skipped(acc, s[i]) = [ranges |-> ranges, lower |-> Plus1(l)]
    BY <1>3, <1>12 DEF Skipped
  <2>2. gap \in CharRanges
    <3>1. b <= f - 1
      <4> HIDE DEF b, f
      <4> QED BY <1>1, <1>2, <1>12
    <3> HIDE DEF b, f, l
    <3>2. b \in Char /\ f - 1 \in Char
      BY <3>1, <1>1, <1>2, WidthAssumption DEF Char, UNICODE_MAX
    <3>3. <<b, f - 1>> \in Char \X Char
      BY <3>2
    <3> QED BY <3>1, <3>3 DEF CharRanges
  <2>3. \A c : Holds(gap, c) <=> b <= c /\ c <= f - 1
    BY DEF Holds
  <2>4. gap[1] = b /\ gap[2] = f - 1
    OBVIOUS
  <2> HIDE DEF b, f, l, gap
  <2>5. \A c \in Char : Lists(ranges, c) <=> c < l + 1 /\ \A k \in 1 .. i : ~ Holds(s[k], c)
    BY <1>1, <1>9, <1>10, <2>2, <2>3, AppendLists
  <2>6. Spaced(ranges)
    BY <1>1, <1>5, <2>2, <2>4, AppendSpaced
  <2>7. ranges[Len(ranges)][2] + 1 < l + 1 /\ ranges \in Seq(CharRanges)
    <3>1. ranges[Len(ranges)] = gap /\ ranges \in Seq(CharRanges)
      BY <1>1, <2>2
    <3> HIDE DEF ranges
    <3> QED BY <3>1, <2>4, <1>1
  <2> HIDE DEF ranges
  <2> QED BY <2>1, <2>5, <2>6, <2>7, <1>4, <1>8, <1>11 DEF Gaps, Complemented
<1>13. CASE f = 0
  <2>1. Skipped(acc, s[i]) = [ranges |-> acc.ranges, lower |-> Plus1(l)]
    BY <1>13 DEF Skipped
  <2>2. b = 0
    <3> HIDE DEF b, f
    <3> QED BY <1>2, <1>13
  <2> HIDE DEF b, f, l
  <2>3. \A c \in Char : ~ (b <= c /\ c <= f - 1)
    BY <1>13, <2>2, WidthAssumption DEF Char, UNICODE_MAX
  <2>4. \A c \in Char : Lists(acc.ranges, c) <=> c < l + 1 /\ \A k \in 1 .. i : ~ Holds(s[k], c)
    BY <1>9, <1>10, <2>3
  <2>5. acc.ranges # <<>> => acc.ranges[Len(acc.ranges)][2] + 1 < l + 1
    <3> SUFFICES ASSUME acc.ranges # <<>> PROVE acc.ranges[Len(acc.ranges)][2] + 1 < l + 1
      OBVIOUS
    <3>1. acc.ranges[Len(acc.ranges)] \in CharRanges
      BY <1>1
    <3>2. acc.ranges[Len(acc.ranges)][2] \in Int
      BY <3>1, RangeType
    <3>3. acc.ranges[Len(acc.ranges)][2] + 1 < b
      BY <1>5
    <3> QED BY <3>2, <3>3, <1>1, <2>2
  <2> QED BY <2>1, <2>4, <2>5, <1>1, <1>4, <1>5, <1>8, <1>11 DEF Gaps, Complemented
<1> QED BY <1>1, <1>12, <1>13

\* complement: the ranges that hold what ranges with gaps between them do not.
LEMMA ComplementIsExact ==
  ASSUME NEW s \in Seq(CharRanges), s # <<>>, Spaced(s)
  PROVE  /\ Complement(s) \in Seq(CharRanges)
         /\ \A c \in Char : Lists(Complement(s), c) <=> ~ Lists(s, c)
         /\ Spaced(Complement(s))
<1> DEFINE n == Len(s)
           Next(f, i) == IF i = 0 THEN [ranges |-> <<>>, lower |-> 0] ELSE Skipped(f[i - 1], s[i])
           IsAll(f) == f = [i \in 0 .. n |-> Next(f, i)]
           all == CHOOSE f : IsAll(f)
           first == [ranges |-> <<>>, lower |-> 0]
<1>1. n \in Nat /\ n >= 1 /\ \A i \in 1 .. n : s[i] \in CharRanges
  OBVIOUS
<1>2. first \in Gaps
  BY WidthAssumption DEF Gaps, Char, UNICODE_MAX
<1>3. \E f : IsAll(f)
  <2> DEFINE Fits(i) == {acc \in Gaps : Complemented(acc, s, i)}
             F == [i \in 1 .. n |-> [acc \in Gaps |-> Skipped(acc, s[i])]]
             D == [i \in 0 .. n |-> Fits(i)]
  <2>1. Leads(F, D, n)
    <3> SUFFICES ASSUME NEW i \in 1 .. n, NEW x \in D[i - 1] PROVE F[i][x] \in D[i]
      BY DEF Leads
    <3>1. i - 1 \in 0 .. n /\ i \in 0 .. n
      BY <1>1
    <3>2. x \in Gaps /\ Complemented(x, s, i - 1) /\ F[i][x] = Skipped(x, s[i])
      BY <3>1
    <3>3. Skipped(x, s[i]) \in Gaps /\ Complemented(Skipped(x, s[i]), s, i)
      BY <3>2, SkippedComplemented
    <3> QED BY <3>1, <3>2, <3>3
  <2>2. n \in Nat /\ first \in D[0]
    <3>1. Complemented(first, s, 0)
      <4>1. 0 % Width = 0 /\ 1 .. 0 = {}
        BY WidthAssumption, Z3
      <4>2. \A c \in Char : ~ (c < 0)
        BY DEF Char
      <4> QED BY <4>1, <4>2 DEF Complemented, Behind, Lists, Spaced
    <3>2. 0 \in 0 .. n
      BY <1>1
    <3> HIDE DEF first
    <3> QED BY <1>1, <1>2, <3>1, <3>2
  <2> HIDE DEF F, D, n, first
  <2>3. PICK g : Iterates(g, first, F, D, n)
    BY <2>1, <2>2, Iteration
  <2>4. ASSUME NEW i \in 0 .. n PROVE g[i] = Next(g, i)
    <3>1. CASE i = 0
      BY <3>1, <2>3 DEF Iterates, first
    <3>2. CASE i # 0
      <4>1. i - 1 \in 0 .. n /\ i \in 1 .. n
        BY <2>2, <3>2
      <4>2. g[i - 1] \in D[i - 1] /\ g[i] = F[i][g[i - 1]]
        BY <2>3, <4>1 DEF Iterates
      <4>3. F[i][g[i - 1]] = Skipped(g[i - 1], s[i])
        BY <4>1, <4>2 DEF F, D
      <4> QED BY <3>2, <4>2, <4>3
    <3> QED BY <3>1, <3>2
  <2>5. g = [i \in 0 .. n |-> g[i]]
    BY <2>3 DEF Iterates
  <2> HIDE DEF Next
  <2>6. g = [i \in 0 .. n |-> Next(g, i)]
    BY <2>4, <2>5
  <2> QED BY <2>6
<1>4. IsAll(all)
  <2> HIDE DEF IsAll
  <2> QED BY <1>3
<1>5. Complement(s) = IF all[n].lower > 0
                      THEN Append(all[n].ranges, <<all[n].lower, UNICODE_MAX>>)
                      ELSE all[n].ranges
  BY DEF Complement
<1> HIDE DEF all
<1>6. all[0] = first /\ \A i \in 1 .. n : all[i] = Skipped(all[i - 1], s[i])
  <2>1. \A i \in 0 .. n : all[i] = Next(all, i)
    <3> HIDE DEF Next
    <3> QED BY <1>4
  <2>2. 0 \in 0 .. n /\ \A i \in 1 .. n : i \in 0 .. n /\ i # 0
    BY <1>1
  <2> QED BY <2>1, <2>2
<1> DEFINE S == {k \in 0 .. n : all[k] \in Gaps /\ Complemented(all[k], s, k)}
<1>7. 0 \in S
  <2>1. Complemented(first, s, 0)
    <3>1. 0 % Width = 0 /\ 1 .. 0 = {}
      BY WidthAssumption, Z3
    <3>2. \A c \in Char : ~ (c < 0)
      BY DEF Char
    <3> QED BY <3>1, <3>2 DEF Complemented, Behind, Lists, Spaced
  <2> HIDE DEF first
  <2> QED BY <1>1, <1>2, <1>6, <2>1
<1>8. ASSUME NEW k \in 1 .. n, k - 1 \in S
      PROVE  k \in S
  <2>1. all[k - 1] \in Gaps /\ Complemented(all[k - 1], s, k - 1) /\ k \in 0 .. n
    BY <1>8
  <2>2. all[k] = Skipped(all[k - 1], s[k])
    BY <1>6
  <2>3. Skipped(all[k - 1], s[k]) \in Gaps /\ Complemented(Skipped(all[k - 1], s[k]), s, k)
    BY <2>1, SkippedComplemented
  <2> QED BY <2>1, <2>2, <2>3
<1>9. n \in S
  <2> HIDE DEF S, n
  <2>1. 0 .. n \subseteq S
    BY <1>1, <1>7, <1>8, UpTo, Zenon
  <2> QED BY <1>1, <2>1
<1>10. all[n] \in Gaps /\ Complemented(all[n], s, n)
  BY <1>9
<1> DEFINE l == s[n][2]
           rs == all[n].ranges
<1>11. l \in Int /\ 0 <= l /\ l <= UNICODE_MAX
  <2>1. s[n] \in CharRanges
    BY <1>1
  <2>2. s[n][1] \in Int /\ s[n][2] \in Int /\ 0 <= s[n][1] /\ s[n][1] <= s[n][2] /\ s[n][2] <= UNICODE_MAX
    BY <2>1, RangeType
  <2> QED BY <2>2
<1>12. /\ all[n].lower = (l + 1) % Width
       /\ \A c \in Char : Lists(rs, c) <=> c < l + 1 /\ ~ Lists(s, c)
       /\ \A k \in 1 .. n : s[k][2] < l + 1
       /\ Spaced(rs)
       /\ rs # <<>> => rs[Len(rs)][2] + 1 < l + 1
       /\ rs \in Seq(CharRanges)
  <2>1. Behind(s, n) = l + 1
    BY <1>1 DEF Behind
  <2> QED BY <1>10, <2>1 DEF Complemented, Gaps, Lists
<1>13. \A c \in Char : l + 1 <= c => ~ Lists(s, c)
  <2> SUFFICES ASSUME NEW c \in Char, l + 1 <= c, NEW k \in 1 .. n, Holds(s[k], c) PROVE FALSE
    BY DEF Lists
  <2>1. s[k][2] \in Int /\ s[k][2] < l + 1 /\ c <= s[k][2]
    <3>1. s[k] \in CharRanges
      BY <1>1
    <3>2. s[k][2] \in Int
      BY <3>1, RangeType
    <3> QED BY <3>2, <1>12 DEF Holds
  <2>2. c \in Int
    BY WidthAssumption DEF Char, UNICODE_MAX
  <2> HIDE DEF l
  <2> QED BY <2>1, <2>2, <1>11
<1>14. \A c \in Char : c \in Int /\ c <= UNICODE_MAX
  BY WidthAssumption DEF Char, UNICODE_MAX
<1>15. CASE l < UNICODE_MAX
  <2> HIDE DEF l, rs
  <2>1. all[n].lower = l + 1
    <3>1. l + 1 \in 0 .. Width - 1
      BY <1>11, <1>15, WidthAssumption DEF UNICODE_MAX
    <3>2. \A m \in 0 .. Width - 1 : m % Width = m
      BY WidthAssumption, Z3
    <3> QED BY <1>12, <3>1, <3>2
  <2> DEFINE rest == <<l + 1, UNICODE_MAX>>
  <2>2. Complement(s) = Append(rs, rest)
    <3>1. all[n].lower > 0
      BY <2>1, <1>11
    <3> QED BY <1>5, <2>1, <3>1 DEF rs
  <2>3. rest \in CharRanges
    BY <1>11, <1>15, WidthAssumption DEF CharRanges, Char, UNICODE_MAX
  <2>4. rest[1] = l + 1 /\ \A c \in Char : Holds(rest, c) <=> l + 1 <= c
    BY <1>14 DEF Holds
  <2> HIDE DEF rest
  <2>5. Spaced(Complement(s))
    BY <1>12, <2>2, <2>3, <2>4, AppendSpaced
  <2>6. ASSUME NEW c \in Char PROVE Lists(Complement(s), c) <=> ~ Lists(s, c)
    <3>1. Lists(Complement(s), c) <=> Lists(rs, c) \/ l + 1 <= c
      BY <1>12, <2>2, <2>3, <2>4, AppendLists
    <3>2. c < l + 1 \/ l + 1 <= c
      BY <1>11, <1>14
    <3> QED BY <3>1, <3>2, <1>12, <1>13
  <2>7. Complement(s) \in Seq(CharRanges)
    BY <1>12, <2>2, <2>3
  <2> QED BY <2>5, <2>6, <2>7
<1>16. CASE ~ (l < UNICODE_MAX)
  <2> HIDE DEF l, rs
  <2>1. all[n].lower = 0
    <3>1. l + 1 = Width
      BY <1>11, <1>16, WidthAssumption DEF UNICODE_MAX
    <3> QED BY <1>12, <3>1, WidthAssumption, Z3
  <2>2. Complement(s) = rs
    BY <1>5, <2>1 DEF rs
  <2>3. \A c \in Char : c < l + 1
    BY <1>11, <1>14, <1>16, WidthAssumption DEF UNICODE_MAX
  <2> QED BY <1>12, <2>2, <2>3
<1> QED BY <1>15, <1>16

-----------------------------------------------------------------------------
(* Flatten                                                                  *)

\* Whatever ranges a group was given, in whatever order: flatten yields its code points
\* (Invariant GroupExact).
THEOREM GroupIsExact == GroupSpec => []GroupExact
<1> DEFINE GInv == group \in [negate : BOOLEAN, span : Seq(CharRanges)]
<1>1. GroupInit => GInv
  BY DEF GroupInit
<1>2. GInv /\ [AddRange]_group => GInv'
  <2> SUFFICES ASSUME GInv, [AddRange]_group PROVE GInv'
    OBVIOUS
  <2>1. CASE AddRange
    <3>1. PICK r \in Ranges : group' = [group EXCEPT !.span = <<r>> \o @]
      BY <2>1 DEF AddRange
    <3>2. r \in CharRanges
      BY GroupAssumption
    <3>3. <<r>> \o group.span \in Seq(CharRanges)
      BY <3>2
    <3> QED BY <3>1, <3>3
  <2>2. CASE UNCHANGED group
    BY <2>2
  <2> QED BY <2>1, <2>2
<1>3. GInv => GroupExact
  <2> SUFFICES ASSUME GInv, group.span # <<>>,
                      ~ \E i, j \in DOMAIN group.span :
                          i # j /\ group.span[i][2] = UNICODE_MAX /\ ~ Before(group.span[j], group.span[i])
               PROVE  /\ \A c \in Char : c \in Denoted(group) <=>
                                          \E i \in DOMAIN Flatten(group) : Holds(Flatten(group)[i], c)
                      /\ Spaced(Flatten(group))
    BY DEF GroupExact, Spaced
  <2> DEFINE span == group.span
             t == Sorted(span)
             n == Len(span)
  <2>1. span \in Seq(CharRanges) /\ group.negate \in BOOLEAN /\ n \in Nat /\ DOMAIN span = 1 .. n
    OBVIOUS
  <2> HIDE DEF GInv
  <2>2. PICK p : Orders(p, span, n) /\ t = [i \in 1 .. n |-> span[p[i]]]
    <3> HIDE DEF span, t
    <3> QED BY <2>1, SortedIsSorted DEF t
  <2>3. /\ \A i \in 1 .. n : p[i] \in 1 .. n /\ t[i] = span[p[i]] /\ t[i] \in CharRanges
        /\ \A i, j \in 1 .. n : p[i] = p[j] => i = j
        /\ \A i \in 1 .. n : \E j \in 1 .. n : p[j] = i
        /\ \A i, j \in 1 .. n : i < j => ~ Before(span[p[j]], span[p[i]])
    <3>1. \A i \in 1 .. n : span[i] \in CharRanges
      BY <2>1
    <3> HIDE DEF span, t, n
    <3>2. \A i \in 1 .. n : p[i] \in 1 .. n
      BY <2>2 DEF Orders
    <3>3. \A i \in 1 .. n : t[i] = span[p[i]]
      BY <2>2
    <3> QED BY <2>2, <3>1, <3>2, <3>3 DEF Orders
  <2>4. t \in Seq(CharRanges) /\ Len(t) = n /\ t # <<>>
    <3>1. n # 0
      BY <2>1
    <3> HIDE DEF span, t, n
    <3>2. t \in [1 .. n -> CharRanges]
      BY <2>2, <2>3
    <3> QED BY <2>1, <3>1, <3>2
  <2>5. Ascending(t)
    <3>1. ASSUME NEW i \in 1 .. n, NEW j \in 1 .. n, i < j
          PROVE  t[i][1] <= t[j][1] /\ t[i][2] < UNICODE_MAX
      <4>1. p[i] # p[j] /\ ~ Before(span[p[j]], span[p[i]])
        BY <3>1, <2>1, <2>3
      <4>2. span[p[i]][2] # UNICODE_MAX
        BY <4>1, <2>1, <2>3
      <4> HIDE DEF span, t, n
      <4>3. t[i] \in CharRanges /\ t[j] \in CharRanges /\ t[i] = span[p[i]] /\ t[j] = span[p[j]]
        BY <2>3
      <4>4. t[i][1] <= t[j][1]
        BY <4>1, <4>3, BeforeIsTotal
      <4>5. t[i][2] \in Int /\ t[i][2] <= UNICODE_MAX
        BY <4>3, RangeType
      <4> QED BY <4>2, <4>3, <4>4, <4>5, WidthAssumption DEF UNICODE_MAX
    <3> HIDE DEF span, t, n
    <3> QED BY <3>1, <2>4 DEF Ascending
  <2>6. \A c : Lists(t, c) <=> Lists(span, c)
    <3> HIDE DEF span, t
    <3> SUFFICES ASSUME NEW c PROVE Lists(t, c) <=> Lists(span, c)
      OBVIOUS
    <3>1. ASSUME Lists(t, c) PROVE Lists(span, c)
      <4>1. PICK i \in 1 .. n : Holds(t[i], c)
        BY <3>1, <2>4 DEF Lists
      <4> QED BY <4>1, <2>3 DEF Lists, n
    <3>2. ASSUME Lists(span, c) PROVE Lists(t, c)
      <4>1. PICK i \in 1 .. n : Holds(span[i], c)
        BY <3>2 DEF Lists, n
      <4>2. PICK j \in 1 .. n : p[j] = i
        BY <2>3
      <4> QED BY <4>1, <4>2, <2>3, <2>4 DEF Lists
    <3> QED BY <3>1, <3>2
  <2>7. /\ Merge(t) \in Seq(CharRanges) /\ Merge(t) # <<>>
        /\ \A c \in Char : Lists(Merge(t), c) <=> Lists(t, c)
        /\ Spaced(Merge(t))
    <3> HIDE DEF span, t
    <3> QED BY <2>4, <2>5, MergeIsExact
  <2>8. /\ \A c \in Char : Lists(Complement(Merge(t)), c) <=> ~ Lists(Merge(t), c)
        /\ Spaced(Complement(Merge(t))) /\ Complement(Merge(t)) \in Seq(CharRanges)
    <3> HIDE DEF span, t
    <3> QED BY <2>7, ComplementIsExact
  <2>9. Flatten(group) = IF group.negate THEN Complement(Merge(t)) ELSE Merge(t)
    BY DEF Flatten
  <2>10. \A c \in Char : c \in Denoted(group) <=> IF group.negate THEN ~ Lists(span, c) ELSE Lists(span, c)
    BY <2>1 DEF Denoted, Lists
  <2>11. \A c \in Char : c \in Denoted(group) <=> Lists(Flatten(group), c)
    <3> HIDE DEF span, t
    <3> QED BY <2>6, <2>7, <2>8, <2>9, <2>10
  <2>12. Spaced(Flatten(group)) /\ Flatten(group) \in Seq(CharRanges)
    <3> HIDE DEF span, t
    <3> QED BY <2>1, <2>7, <2>8, <2>9
  <2>13. DOMAIN Flatten(group) = 1 .. Len(Flatten(group))
    BY <2>12
  <2> QED BY <2>11, <2>12, <2>13 DEF Lists
<1> QED BY <1>1, <1>2, <1>3, PTL DEF GroupSpec

-----------------------------------------------------------------------------
(* Trees of ranges                                                          *)

\* What a state holds: a range in the tree, or one character in the array.
Fits(e) ==
  /\ e = [range |-> e.range, states |-> e.states] /\ e.range \in CharRanges
  /\ e.range[1] < OPTIMIZED_CHARS => e.range[1] = e.range[2]

\* A tree is a finite set of entries, no two of which overlap.
Tree(t) == IsFiniteSet(t) /\ (\A e \in t : Fits(e)) /\ Apart(t)

\* Nothing in the tree overlaps a range.
Free(t, r) == \A e \in t : ~ Overlaps(e.range, r)

\* Where a character leads.
LedTo(t, c) == UNION {e.states : e \in {e \in t : Holds(e.range, c)}}

\* A range is put where nothing is.
LEMMA InsertedWhereFree ==
  ASSUME NEW t, Tree(t), NEW r \in CharRanges, OPTIMIZED_CHARS <= r[1], Free(t, r), NEW S
  PROVE  /\ Tree(Inserted(t, r, S))
         /\ \A c : LedTo(Inserted(t, r, S), c) = LedTo(t, c) \cup (IF Holds(r, c) THEN S ELSE {})
         /\ \A q \in CharRanges : Free(t, q) /\ ~ Overlaps(r, q) => Free(Inserted(t, r, S), q)
<1> DEFINE n == [range |-> r, states |-> S]
           u == Inserted(t, r, S)
<1>1. r[1] \in Int /\ r[2] \in Int /\ r[1] <= r[2]
  BY RangeType
<1>2. Overlaps(r, r)
  BY <1>1 DEF Overlaps
<1>3. u = t \cup {n}
  <2>1. \A e \in t : e.range # r
    BY <1>2 DEF Free
  <2> QED BY <2>1 DEF Inserted
<1>4. n.range = r /\ n.states = S
  OBVIOUS
<1>5. Fits(n)
  BY <1>1, <1>4, GroupAssumption DEF Fits
<1> HIDE DEF n, u
<1>6. IsFiniteSet(u)
  BY <1>3, FS_AddElement DEF Tree
<1>7. \A e \in t : ~ Overlaps(n.range, e.range)
  <2> SUFFICES ASSUME NEW e \in t PROVE ~ Overlaps(n.range, e.range)
    OBVIOUS
  <2>1. e.range \in CharRanges
    BY DEF Tree, Fits
  <2>2. e.range[1] \in Int /\ e.range[2] \in Int
    BY <2>1, RangeType
  <2> QED BY <1>1, <1>4, <2>2 DEF Free, Overlaps
<1>8. Apart(u)
  BY <1>3, <1>4, <1>7 DEF Apart, Tree, Free
<1>9. Tree(u)
  BY <1>3, <1>5, <1>6, <1>8 DEF Tree
<1>10. \A c : LedTo(u, c) = LedTo(t, c) \cup (IF Holds(r, c) THEN S ELSE {})
  BY <1>3, <1>4 DEF LedTo
<1>11. \A q \in CharRanges : Free(t, q) /\ ~ Overlaps(r, q) => Free(u, q)
  BY <1>3, <1>4 DEF Free
<1> QED BY <1>9, <1>10, <1>11 DEF u

\* Part of where nothing is.
LEMMA FreeWithin ==
  ASSUME NEW t, Tree(t), NEW r \in CharRanges, NEW q \in CharRanges, Free(t, r), r[1] <= q[1], q[2] <= r[2]
  PROVE  Free(t, q)
<1> SUFFICES ASSUME NEW e \in t PROVE ~ Overlaps(e.range, q)
  BY DEF Free
<1>1. e.range \in CharRanges /\ ~ Overlaps(e.range, r)
  BY DEF Tree, Fits, Free
<1>2. e.range[1] \in Int /\ e.range[2] \in Int /\ r[1] \in Int /\ r[2] \in Int /\ q[1] \in Int /\ q[2] \in Int
  BY <1>1, RangeType
<1> QED BY <1>1, <1>2 DEF Overlaps

\* Code points in order are a range.
LEMMA RangeOf ==
  ASSUME NEW x \in Int, NEW y \in Int, 0 <= x, x <= y, y <= UNICODE_MAX
  PROVE  <<x, y>> \in CharRanges /\ <<x, y>>[1] = x /\ <<x, y>>[2] = y
<1>1. x \in Char /\ y \in Char
  BY WidthAssumption DEF Char, UNICODE_MAX
<1>2. <<x, y>> \in Char \X Char
  BY <1>1
<1> QED BY <1>2 DEF CharRanges

\* An entry the new range overlaps is put back in pieces: it leads where it led, and the
\* new range leads to its state as far as the entry goes.
SplitInto(t, u, e, last, upto, s) ==
  /\ Tree(u)
  /\ \A c \in Char : LedTo(u, c) = LedTo(t, c) \cup (IF Holds(e.range, c) THEN e.states ELSE {})
                                   \cup (IF last <= c /\ c <= upto THEN {s} ELSE {})
  /\ \A q \in CharRanges :
       Free(t, q) /\ ~ Overlaps(e.range, q) /\ (q[2] < last \/ e.range[2] < q[1]) => Free(u, q)

LEMMA SplitIsExact ==
  ASSUME NEW acc, Tree(acc.tree), acc.last \in Char, OPTIMIZED_CHARS <= acc.last,
         NEW range \in CharRanges, NEW s, NEW e, Fits(e),
         acc.last <= range[2], e.range[1] <= range[2], acc.last <= e.range[2],
         Free(acc.tree, e.range), Free(acc.tree, <<acc.last, range[2]>>)
  PROVE  /\ Split(acc, range, s, e).last = Plus1(e.range[2])
         /\ SplitInto(acc.tree, Split(acc, range, s, e).tree, e, acc.last,
                      IF e.range[2] < range[2] THEN e.range[2] ELSE range[2], s)
<1> DEFINE t == acc.tree
           last == acc.last
           a == e.range[1]
           b == e.range[2]
           z == range[2]
           upto == IF b < z THEN b ELSE z
           lo == IF a > last THEN a ELSE last
           low == IF a < last THEN a ELSE last
           t1 == Inserted(t, <<lo, upto>>, e.states \cup {s})
           t2 == IF a < last THEN Inserted(t1, <<a, last - 1>>, e.states)
                 ELSE IF a > last THEN Inserted(t1, <<last, a - 1>>, {s}) ELSE t1
           t3 == IF b > z THEN Inserted(t2, <<z + 1, b>>, e.states) ELSE t2
<1>1. Split(acc, range, s, e) = [tree |-> t3, last |-> Plus1(b)]
  BY DEF Split
<1>2. /\ Tree(t) /\ e.range \in CharRanges /\ e.range = <<a, b>>
      /\ a \in Int /\ b \in Int /\ 0 <= a /\ a <= b /\ b <= UNICODE_MAX
      /\ z \in Int /\ 0 <= z /\ z <= UNICODE_MAX
      /\ last \in Int /\ 0 <= last /\ last <= z /\ last <= b /\ a <= z
      /\ Free(t, e.range) /\ Free(t, <<last, z>>)
      /\ UNICODE_MAX \in Int /\ OPTIMIZED_CHARS \in Int /\ OPTIMIZED_CHARS <= last /\ OPTIMIZED_CHARS <= a
  <2>1. e.range \in CharRanges /\ UNICODE_MAX \in Int /\ OPTIMIZED_CHARS \in Int
    BY WidthAssumption, GroupAssumption DEF Fits, UNICODE_MAX
  <2>2. last \in Int /\ 0 <= last
    BY WidthAssumption DEF Char, UNICODE_MAX
  <2>3. /\ e.range = <<e.range[1], e.range[2]>> /\ e.range[1] \in Int /\ e.range[2] \in Int
        /\ 0 <= e.range[1] /\ e.range[1] <= e.range[2] /\ e.range[2] <= UNICODE_MAX
    BY <2>1, RangeType
  <2>4. range[1] \in Int /\ range[2] \in Int /\ 0 <= range[1] /\ range[1] <= range[2] /\ range[2] <= UNICODE_MAX
    BY RangeType
  <2>5. range[2] \in Int /\ 0 <= range[2]
    BY <2>4
  <2>6. OPTIMIZED_CHARS <= e.range[1]
    BY <2>1, <2>2, <2>3 DEF Fits
  <2> QED BY <2>1, <2>2, <2>3, <2>4, <2>5, <2>6
<1>3. \A c \in Char : c \in Int
  BY WidthAssumption DEF Char, UNICODE_MAX
<1>4. \A c : Holds(e.range, c) <=> a <= c /\ c <= b
  BY DEF Holds
<1>5. \A q : Overlaps(e.range, q) <=> a <= q[2] /\ q[1] <= b
  BY DEF Overlaps
<1>6. \A q \in CharRanges : q[1] \in Int /\ q[2] \in Int /\ q[1] <= q[2]
  BY RangeType
<1>7. <<last, z>> \in CharRanges /\ <<last, z>>[1] = last /\ <<last, z>>[2] = z
  BY <1>2, RangeOf
<1> HIDE DEF t, last, a, b, z
<1>8. /\ upto \in Int /\ lo \in Int /\ a <= lo /\ last <= lo /\ lo <= upto /\ upto <= b /\ upto <= z /\ 0 <= lo
      /\ low \in Int /\ low <= a /\ low <= last /\ 0 <= low
  BY <1>2
<1>9. /\ Tree(t1)
      /\ \A c \in Char : LedTo(t1, c) = LedTo(t, c) \cup (IF lo <= c /\ c <= upto THEN e.states \cup {s} ELSE {})
      /\ \A q \in CharRanges : Free(t, q) /\ (q[2] < lo \/ upto < q[1]) => Free(t1, q)
  <2> DEFINE r == <<lo, upto>>
  <2>1. r \in CharRanges /\ r[1] = lo /\ r[2] = upto /\ OPTIMIZED_CHARS <= r[1]
    <3> HIDE DEF lo, upto
    <3> QED BY <1>2, <1>8, RangeOf
  <2> HIDE DEF r
  <2>2. Free(t, r)
    <3>1. e.range[1] <= r[1] /\ r[2] <= e.range[2]
      BY <1>8, <2>1 DEF a, b
    <3> QED BY <1>2, <2>1, <3>1, FreeWithin
  <2> DEFINE S == e.states \cup {s}
  <2> HIDE DEF S
  <2>3. /\ Tree(Inserted(t, r, S))
        /\ \A c : LedTo(Inserted(t, r, S), c) = LedTo(t, c) \cup (IF Holds(r, c) THEN S ELSE {})
        /\ \A q \in CharRanges : Free(t, q) /\ ~ Overlaps(r, q) => Free(Inserted(t, r, S), q)
    BY <1>2, <2>1, <2>2, InsertedWhereFree
  <2>4. t1 = Inserted(t, r, S)
    BY DEF r, S
  <2>5. \A c : Holds(r, c) <=> lo <= c /\ c <= upto
    BY <2>1 DEF Holds
  <2>6. \A q \in CharRanges : q[2] < lo \/ upto < q[1] => ~ Overlaps(r, q)
    <3> HIDE DEF lo, upto
    <3> QED BY <1>6, <1>8, <2>1 DEF Overlaps
  <2> HIDE DEF t1, lo, upto
  <2> QED BY <2>3, <2>4, <2>5, <2>6 DEF S
<1> HIDE DEF t1
<1>10. /\ Tree(t2)
       /\ \A c \in Char : LedTo(t2, c) = LedTo(t, c) \cup (IF a <= c /\ c <= upto THEN e.states ELSE {})
                                                     \cup (IF last <= c /\ c <= upto THEN {s} ELSE {})
       /\ \A q \in CharRanges : Free(t, q) /\ (q[2] < low \/ upto < q[1]) => Free(t2, q)
  <2>1. CASE a < last
    <3> DEFINE r == <<a, last - 1>>
    <3>0. lo = last /\ low = a
      BY <1>2, <2>1
    <3>1. r \in CharRanges /\ r[1] = a /\ r[2] = last - 1 /\ OPTIMIZED_CHARS <= r[1]
      BY <1>2, <2>1, RangeOf
    <3> HIDE DEF r
    <3>2. Free(t1, r)
      <4>1. e.range[1] <= r[1] /\ r[2] <= e.range[2]
        BY <1>2, <2>1, <3>1 DEF a, b
      <4>2. Free(t, r)
        BY <1>2, <3>1, <4>1, FreeWithin
      <4>3. r[2] < lo
        BY <1>2, <3>0, <3>1
      <4> QED BY <1>9, <3>1, <4>2, <4>3
    <3>3. /\ Tree(Inserted(t1, r, e.states))
          /\ \A c : LedTo(Inserted(t1, r, e.states), c) = LedTo(t1, c) \cup (IF Holds(r, c) THEN e.states ELSE {})
          /\ \A q \in CharRanges : Free(t1, q) /\ ~ Overlaps(r, q) => Free(Inserted(t1, r, e.states), q)
      BY <1>9, <3>1, <3>2, InsertedWhereFree
    <3>4. t2 = Inserted(t1, r, e.states)
      BY <2>1 DEF r
    <3> HIDE DEF t2
    <3>5. ASSUME NEW c \in Char
          PROVE  LedTo(t2, c) = LedTo(t, c) \cup (IF a <= c /\ c <= upto THEN e.states ELSE {})
                                            \cup (IF last <= c /\ c <= upto THEN {s} ELSE {})
      <4>1. Holds(r, c) <=> a <= c /\ c <= last - 1
        BY <3>1 DEF Holds
      <4>2. LedTo(t2, c) = LedTo(t, c) \cup (IF last <= c /\ c <= upto THEN e.states \cup {s} ELSE {})
                                        \cup (IF a <= c /\ c <= last - 1 THEN e.states ELSE {})
        BY <1>9, <3>0, <3>3, <3>4, <4>1
      <4>3. (a <= c /\ c <= upto) <=> (last <= c /\ c <= upto) \/ (a <= c /\ c <= last - 1)
        <5> HIDE DEF upto, lo, low
        <5> QED BY <1>2, <1>3, <1>8, <2>1
      <4> HIDE DEF upto, lo, low
      <4> QED BY <4>2, <4>3
    <3>6. ASSUME NEW q \in CharRanges, Free(t, q), q[2] < low \/ upto < q[1]
          PROVE  Free(t2, q)
      <4>1. q[2] < lo \/ upto < q[1]
        BY <1>2, <1>6, <2>1, <3>0, <3>6
      <4>2. ~ Overlaps(r, q)
        BY <1>2, <1>6, <1>8, <2>1, <3>0, <3>1, <3>6 DEF Overlaps
      <4> QED BY <1>9, <3>3, <3>4, <3>6, <4>1, <4>2
    <3> QED BY <3>3, <3>4, <3>5, <3>6
  <2>2. CASE a > last
    <3> DEFINE r == <<last, a - 1>>
    <3>0. lo = a /\ low = last
      BY <1>2, <2>2
    <3>1. r \in CharRanges /\ r[1] = last /\ r[2] = a - 1 /\ OPTIMIZED_CHARS <= r[1]
      BY <1>2, <2>2, RangeOf
    <3> HIDE DEF r
    <3>2. Free(t1, r)
      <4>1. last <= r[1] /\ r[2] <= z
        BY <1>2, <2>2, <3>1
      <4>2. Free(t, r)
        BY <1>2, <1>7, <3>1, <4>1, FreeWithin
      <4>3. r[2] < lo
        BY <1>2, <3>0, <3>1
      <4> QED BY <1>9, <3>1, <4>2, <4>3
    <3>3. /\ Tree(Inserted(t1, r, {s}))
          /\ \A c : LedTo(Inserted(t1, r, {s}), c) = LedTo(t1, c) \cup (IF Holds(r, c) THEN {s} ELSE {})
          /\ \A q \in CharRanges : Free(t1, q) /\ ~ Overlaps(r, q) => Free(Inserted(t1, r, {s}), q)
      BY <1>9, <3>1, <3>2, InsertedWhereFree
    <3>4. t2 = Inserted(t1, r, {s})
      BY <1>2, <2>2 DEF r
    <3> HIDE DEF t2
    <3>5. ASSUME NEW c \in Char
          PROVE  LedTo(t2, c) = LedTo(t, c) \cup (IF a <= c /\ c <= upto THEN e.states ELSE {})
                                            \cup (IF last <= c /\ c <= upto THEN {s} ELSE {})
      <4>1. Holds(r, c) <=> last <= c /\ c <= a - 1
        BY <3>1 DEF Holds
      <4>2. LedTo(t2, c) = LedTo(t, c) \cup (IF a <= c /\ c <= upto THEN e.states \cup {s} ELSE {})
                                        \cup (IF last <= c /\ c <= a - 1 THEN {s} ELSE {})
        BY <1>9, <3>0, <3>3, <3>4, <4>1
      <4>3. (last <= c /\ c <= upto) <=> (a <= c /\ c <= upto) \/ (last <= c /\ c <= a - 1)
        <5>1. a <= upto
          BY <1>2
        <5> HIDE DEF upto, lo, low
        <5> QED BY <1>2, <1>3, <1>8, <2>2, <5>1
      <4> HIDE DEF upto, lo, low
      <4> QED BY <4>2, <4>3
    <3>6. ASSUME NEW q \in CharRanges, Free(t, q), q[2] < low \/ upto < q[1]
          PROVE  Free(t2, q)
      <4>1. q[2] < lo \/ upto < q[1]
        BY <1>2, <1>6, <2>2, <3>0, <3>6
      <4>2. ~ Overlaps(r, q)
        BY <1>2, <1>6, <1>8, <2>2, <3>0, <3>1, <3>6 DEF Overlaps
      <4> QED BY <1>9, <3>3, <3>4, <3>6, <4>1, <4>2
    <3> QED BY <3>3, <3>4, <3>5, <3>6
  <2>3. CASE a = last
    <3>1. t2 = t1 /\ lo = last /\ low = last
      BY <1>2, <2>3
    <3>2. \A c \in Char : (IF lo <= c /\ c <= upto THEN e.states \cup {s} ELSE {}) =
                          (IF a <= c /\ c <= upto THEN e.states ELSE {})
                            \cup (IF last <= c /\ c <= upto THEN {s} ELSE {})
      <4> HIDE DEF upto
      <4> QED BY <2>3, <3>1
    <3> HIDE DEF t2, lo, low, upto
    <3> QED BY <1>9, <2>3, <3>1, <3>2
  <2>4. a < last \/ a > last \/ a = last
    BY <1>2
  <2> HIDE DEF t2, low, upto
  <2> QED BY <2>1, <2>2, <2>3, <2>4
<1> HIDE DEF t2
<1>11. SplitInto(t, t3, e, last, upto, s)
  <2>1. CASE b > z
    <3> DEFINE r == <<z + 1, b>>
    <3>0. upto = z
      BY <1>2, <2>1
    <3>1. r \in CharRanges /\ r[1] = z + 1 /\ r[2] = b /\ OPTIMIZED_CHARS <= r[1]
      BY <1>2, <2>1, RangeOf
    <3> HIDE DEF r
    <3>2. Free(t2, r)
      <4>1. e.range[1] <= r[1] /\ r[2] <= e.range[2]
        BY <1>2, <2>1, <3>1 DEF a, b
      <4>2. Free(t, r)
        BY <1>2, <3>1, <4>1, FreeWithin
      <4>3. upto < r[1]
        BY <1>2, <3>0, <3>1
      <4> QED BY <1>10, <3>1, <4>2, <4>3
    <3>3. /\ Tree(Inserted(t2, r, e.states))
          /\ \A c : LedTo(Inserted(t2, r, e.states), c) = LedTo(t2, c) \cup (IF Holds(r, c) THEN e.states ELSE {})
          /\ \A q \in CharRanges : Free(t2, q) /\ ~ Overlaps(r, q) => Free(Inserted(t2, r, e.states), q)
      BY <1>10, <3>1, <3>2, InsertedWhereFree
    <3>4. t3 = Inserted(t2, r, e.states)
      BY <2>1 DEF r
    <3> HIDE DEF t3
    <3>5. ASSUME NEW c \in Char
          PROVE  LedTo(t3, c) = LedTo(t, c) \cup (IF Holds(e.range, c) THEN e.states ELSE {})
                                            \cup (IF last <= c /\ c <= upto THEN {s} ELSE {})
      <4>1. Holds(r, c) <=> z + 1 <= c /\ c <= b
        BY <3>1 DEF Holds
      <4>2. LedTo(t3, c) = LedTo(t, c) \cup (IF a <= c /\ c <= upto THEN e.states ELSE {})
                                        \cup (IF last <= c /\ c <= upto THEN {s} ELSE {})
                                        \cup (IF z + 1 <= c /\ c <= b THEN e.states ELSE {})
        BY <1>10, <3>3, <3>4, <4>1
      <4>3. Holds(e.range, c) <=> (a <= c /\ c <= upto) \/ (z + 1 <= c /\ c <= b)
        <5> HIDE DEF lo, low
        <5> QED BY <1>2, <1>3, <1>4, <2>1, <3>0
      <4> HIDE DEF upto, lo, low
      <4> QED BY <4>2, <4>3
    <3>6. ASSUME NEW q \in CharRanges, Free(t, q), ~ Overlaps(e.range, q), q[2] < last \/ b < q[1]
          PROVE  Free(t3, q)
      <4>1. q[2] < a \/ b < q[1]
        BY <1>2, <1>5, <1>6, <3>6
      <4>2. q[2] < low \/ upto < q[1]
        BY <1>2, <1>6, <2>1, <3>0, <3>6, <4>1
      <4>3. ~ Overlaps(r, q)
        BY <1>2, <1>6, <2>1, <3>1, <3>6, <4>1 DEF Overlaps
      <4> QED BY <1>10, <3>3, <3>4, <3>6, <4>2, <4>3
    <3> HIDE DEF upto, lo, low
    <3> QED BY <3>3, <3>4, <3>5, <3>6 DEF SplitInto, b
  <2>2. CASE ~ (b > z)
    <3>1. t3 = t2 /\ upto = b
      BY <1>2, <2>2
    <3>2. \A q \in CharRanges : ~ Overlaps(e.range, q) /\ (q[2] < last \/ b < q[1]) => q[2] < low \/ upto < q[1]
      BY <1>2, <1>5, <1>6, <3>1
    <3> HIDE DEF t3, upto, lo, low
    <3> QED BY <1>4, <1>10, <3>1, <3>2 DEF SplitInto, b
  <2> QED BY <2>1, <2>2
<1> QED BY <1>1, <1>11 DEF t, last, a, b, z

\* Of entries that do not overlap, the first one lies before all others.
LEMMA FirstLiesBefore ==
  ASSUME NEW es, \A e \in es : Fits(e), Apart(es), es # {}
  PROVE  First(es) \in es /\ \A d \in es \ {First(es)} : First(es).range[2] < d.range[1]
<1>1. \A e \in es : e.range \in CharRanges /\ e.range[1] \in Int /\ e.range[2] \in Int
                   /\ 0 <= e.range[1] /\ e.range[1] <= e.range[2]
  BY RangeType DEF Fits
<1>2. ASSUME NEW e \in es, NEW d \in es, d # e, e.range[1] <= d.range[1]
      PROVE  e.range[2] < d.range[1]
  <2>1. ~ Overlaps(e.range, d.range)
    BY <1>2 DEF Apart
  <2> QED BY <1>1, <1>2, <2>1 DEF Overlaps
<1> DEFINE begins == {e.range[1] : e \in es}
<1>3. PICK least \in begins : \A m \in begins : least <= m
  <2>1. begins \subseteq Nat /\ begins # {}
    BY <1>1
  <2> HIDE DEF begins
  <2> QED BY <2>1, LeastNat
<1>4. PICK x \in es : \A d \in es : x.range[1] <= d.range[1]
  BY <1>3
<1>5. \A d \in es \ {x} : Before(x.range, d.range)
  <2> SUFFICES ASSUME NEW d \in es \ {x} PROVE Before(x.range, d.range)
    OBVIOUS
  <2>1. x.range[2] < d.range[1]
    BY <1>2, <1>4
  <2> QED BY <1>1, <2>1 DEF Before
<1>6. First(es) \in es /\ \A d \in es \ {First(es)} : Before(First(es).range, d.range)
  BY <1>5 DEF First
<1>7. ASSUME NEW d \in es \ {First(es)} PROVE First(es).range[2] < d.range[1]
  <2>1. First(es).range[1] <= d.range[1]
    BY <1>1, <1>6 DEF Before
  <2> QED BY <1>2, <1>6, <2>1
<1> QED BY <1>6, <1>7

\* assert(j == overlaps->size()) (finite_automata.cpp:60): whichever of the ranges that
\* overlap the new one are still to be split, if the first of them reaches beyond the new
\* one, it is the only one.
THEOREM OnlyTheLastReachesBeyond ==
  ASSUME NEW t, Tree(t), NEW r \in CharRanges,
         NEW left, left \subseteq {e \in t : Overlaps(e.range, r)}, left # {},
         First(left).range[2] > r[2]
  PROVE  left = {First(left)}
<1>1. \A e \in left : Fits(e) /\ e.range[1] <= r[2]
  BY DEF Tree, Overlaps
<1>2. Apart(left)
  BY DEF Tree, Apart
<1>3. First(left) \in left /\ \A d \in left \ {First(left)} : First(left).range[2] < d.range[1]
  BY <1>1, <1>2, FirstLiesBefore
<1>4. ASSUME NEW d \in left \ {First(left)} PROVE FALSE
  <2>1. First(left).range \in CharRanges /\ d.range \in CharRanges
    BY <1>1, <1>3 DEF Fits
  <2>2. First(left).range[2] \in Int /\ d.range[1] \in Int /\ r[2] \in Int
    BY <2>1, RangeType
  <2> QED BY <1>1, <1>3, <2>2
<1> QED BY <1>3, <1>4

\* The loop of RegexNFAState::add, when the entries in left are still to be split: the new
\* range leads to its state up to v, and nothing overlaps the rest of it but those.
Cutting(t, r, s, left, acc, v) ==
  /\ left \subseteq {e \in t : Overlaps(e.range, r)} /\ OPTIMIZED_CHARS <= r[1]
  /\ Tree(acc.tree)
  /\ v \in Int /\ r[1] <= v /\ v <= Width /\ acc.last = v % Width
  /\ \A e \in left : v <= e.range[2] /\ Free(acc.tree, e.range)
  /\ left # {} => v <= r[2]
  /\ v <= r[2] => Free(acc.tree, <<v, r[2]>>)
  /\ \A c \in Char : LedTo(acc.tree, c) \cup LedTo(left, c) =
                      LedTo(t, c) \cup (IF r[1] <= c /\ c < v /\ c <= r[2] THEN {s} ELSE {})

\* The state in which the loop begins.
LEMMA CuttingBegins ==
  ASSUME NEW t, Tree(t), NEW r \in CharRanges, OPTIMIZED_CHARS <= r[1], NEW s
  PROVE  LET overlaps == {e \in t : Overlaps(e.range, r)}
         IN  Cutting(t, r, s, overlaps, [tree |-> t \ overlaps, last |-> r[1]], r[1])
<1> DEFINE overlaps == {e \in t : Overlaps(e.range, r)}
           acc == [tree |-> t \ overlaps, last |-> r[1]]
<1>1. /\ r[1] \in Int /\ r[2] \in Int /\ 0 <= r[1] /\ r[1] <= r[2] /\ r[2] <= UNICODE_MAX /\ r = <<r[1], r[2]>>
      /\ r[1] \in Char
  BY RangeType
<1>2. acc.tree = t \ overlaps /\ acc.last = r[1]
  OBVIOUS
<1>3. Tree(t \ overlaps)
  <2>1. t \ overlaps \subseteq t
    OBVIOUS
  <2> HIDE DEF overlaps
  <2> QED BY <2>1, FS_Subset DEF Tree, Apart
<1>4. r[1] <= Width /\ r[1] = r[1] % Width
  <2>1. r[1] \in 0 .. Width - 1
    BY <1>1, WidthAssumption DEF UNICODE_MAX
  <2>2. \A m \in 0 .. Width - 1 : m % Width = m /\ m <= Width
    BY WidthAssumption, Z3
  <2> QED BY <2>1, <2>2
<1>5. ASSUME NEW e \in overlaps
      PROVE  r[1] <= e.range[2] /\ Free(t \ overlaps, e.range)
  <2>1. r[1] <= e.range[2]
    BY DEF Overlaps
  <2>2. ASSUME NEW d \in t \ overlaps PROVE ~ Overlaps(d.range, e.range)
    BY DEF Tree, Apart
  <2> HIDE DEF overlaps
  <2> QED BY <2>1, <2>2 DEF Free
<1>6. Free(t \ overlaps, <<r[1], r[2]>>)
  <2>1. \A d \in t \ overlaps : ~ Overlaps(d.range, r)
    OBVIOUS
  <2> HIDE DEF overlaps
  <2> QED BY <1>1, <2>1 DEF Free
<1>7. \A c \in Char : LedTo(t \ overlaps, c) \cup LedTo(overlaps, c) =
                      LedTo(t, c) \cup (IF r[1] <= c /\ c < r[1] /\ c <= r[2] THEN {s} ELSE {})
  <2>1. \A c \in Char : ~ (r[1] <= c /\ c < r[1])
    BY <1>1, WidthAssumption DEF Char, UNICODE_MAX
  <2>2. overlaps \subseteq t
    OBVIOUS
  <2> HIDE DEF overlaps
  <2> QED BY <2>1, <2>2 DEF LedTo
<1> HIDE DEF overlaps, acc
<1>8. Cutting(t, r, s, overlaps, acc, r[1])
  <2>1. overlaps \subseteq {e \in t : Overlaps(e.range, r)}
    BY DEF overlaps
  <2>2. Tree(acc.tree) /\ r[1] \in Int /\ r[1] <= r[1] /\ r[1] <= Width /\ acc.last = r[1] % Width
    BY <1>1, <1>2, <1>3, <1>4
  <2>3. \A e \in overlaps : r[1] <= e.range[2] /\ Free(acc.tree, e.range)
    BY <1>2, <1>5
  <2>4. (overlaps # {} => r[1] <= r[2]) /\ (r[1] <= r[2] => Free(acc.tree, <<r[1], r[2]>>))
    BY <1>1, <1>2, <1>6
  <2>5. \A c \in Char : LedTo(acc.tree, c) \cup LedTo(overlaps, c) =
                      LedTo(t, c) \cup (IF r[1] <= c /\ c < r[1] /\ c <= r[2] THEN {s} ELSE {})
    BY <1>2, <1>7
  <2> QED BY <2>1, <2>2, <2>3, <2>4, <2>5 DEF Cutting
<1> QED BY <1>8 DEF overlaps, acc

\* One turn of it.
LEMMA CuttingGoesOn ==
  ASSUME NEW t, Tree(t), NEW r \in CharRanges, NEW s, NEW left, left # {}, NEW acc, NEW v,
         Cutting(t, r, s, left, acc, v)
  PROVE  LET e == First(left)
         IN  e \in left /\ Cutting(t, r, s, left \ {e}, Split(acc, r, s, e), e.range[2] + 1)
<1> DEFINE e == First(left)
           a == e.range[1]
           b == e.range[2]
           next == Split(acc, r, s, e)
           rest == left \ {e}
<1>1. /\ r[1] \in Int /\ r[2] \in Int /\ 0 <= r[1] /\ r[1] <= r[2] /\ r[2] <= UNICODE_MAX
  BY RangeType
<1>2. /\ \A d \in left : d \in t /\ Fits(d) /\ Overlaps(d.range, r)
      /\ Apart(left)
  BY DEF Cutting, Tree, Apart
<1>3. e \in left /\ \A d \in rest : b < d.range[1]
  BY <1>2, FirstLiesBefore
<1> HIDE DEF e
<1>4. /\ Tree(acc.tree)
      /\ v \in Int /\ r[1] <= v /\ v <= r[2] /\ acc.last = v % Width
      /\ \A d \in left : v <= d.range[2] /\ Free(acc.tree, d.range)
      /\ Free(acc.tree, <<v, r[2]>>)
  BY <1>3 DEF Cutting
<1>5. acc.last = v /\ v \in Char
  <2>1. v \in 0 .. Width - 1
    BY <1>1, <1>4, WidthAssumption DEF UNICODE_MAX
  <2>2. \A m \in 0 .. Width - 1 : m % Width = m
    BY WidthAssumption, Z3
  <2> QED BY <1>4, <2>1, <2>2 DEF Char, UNICODE_MAX
<1>6. /\ e.range \in CharRanges /\ Fits(e)
      /\ a \in Int /\ b \in Int /\ 0 <= a /\ a <= b /\ b <= UNICODE_MAX /\ a <= r[2] /\ r[1] <= b /\ b \in Char
  BY <1>2, <1>3, RangeType DEF Fits, Overlaps
<1> DEFINE upto == IF b < r[2] THEN b ELSE r[2]
<1>7. next.last = Plus1(b) /\ SplitInto(acc.tree, next.tree, e, v, upto, s)
  <2>1. /\ acc.last \in Char /\ OPTIMIZED_CHARS <= acc.last
        /\ acc.last <= r[2] /\ e.range[1] <= r[2] /\ acc.last <= e.range[2]
        /\ Free(acc.tree, e.range) /\ Free(acc.tree, <<acc.last, r[2]>>)
    <3>1. OPTIMIZED_CHARS <= v
      BY <1>1, <1>4, GroupAssumption DEF Cutting
    <3> QED BY <1>3, <1>4, <1>5, <1>6, <3>1
  <2>2. /\ Split(acc, r, s, e).last = Plus1(e.range[2])
        /\ SplitInto(acc.tree, Split(acc, r, s, e).tree, e, acc.last,
                      IF e.range[2] < r[2] THEN e.range[2] ELSE r[2], s)
    BY <1>4, <1>6, <2>1, SplitIsExact
  <2> QED BY <1>5, <2>2
<1> HIDE DEF next
<1>8. /\ Tree(next.tree)
      /\ \A c \in Char : LedTo(next.tree, c) = LedTo(acc.tree, c) \cup (IF Holds(e.range, c) THEN e.states ELSE {})
                                                   \cup (IF v <= c /\ c <= upto THEN {s} ELSE {})
      /\ \A q \in CharRanges :
           Free(acc.tree, q) /\ ~ Overlaps(e.range, q) /\ (q[2] < v \/ b < q[1]) => Free(next.tree, q)
  BY <1>7 DEF SplitInto
<1>9. /\ rest \subseteq {d \in t : Overlaps(d.range, r)}
      /\ b + 1 \in Int /\ r[1] <= b + 1 /\ b + 1 <= Width /\ next.last = (b + 1) % Width
  <2>1. b + 1 <= Width
    BY <1>6, WidthAssumption DEF UNICODE_MAX
  <2>2. next.last = (b + 1) % Width
    BY <1>7 DEF Plus1
  <2>3. rest \subseteq {d \in t : Overlaps(d.range, r)}
    BY DEF Cutting
  <2> HIDE DEF a, b
  <2> QED BY <1>1, <1>6, <2>1, <2>2, <2>3
<1>10. ASSUME NEW d \in rest
       PROVE  b + 1 <= d.range[2] /\ Free(next.tree, d.range) /\ b + 1 <= r[2]
  <2>1. d \in left /\ d # e /\ b < d.range[1] /\ Fits(d) /\ d.range[1] <= r[2]
    BY <1>2, <1>3 DEF Overlaps
  <2>2. d.range \in CharRanges /\ d.range[1] \in Int /\ d.range[2] \in Int /\ d.range[1] <= d.range[2]
    BY <2>1, RangeType DEF Fits
  <2>3. ~ Overlaps(e.range, d.range)
    BY <1>2, <1>3, <2>1 DEF Apart
  <2>4. Free(next.tree, d.range)
    BY <1>4, <1>8, <2>1, <2>2, <2>3
  <2> HIDE DEF a, b
  <2> QED BY <1>1, <1>6, <2>1, <2>2, <2>4
<1>11. ASSUME b + 1 <= r[2]
       PROVE  Free(next.tree, <<b + 1, r[2]>>)
  <2> DEFINE q == <<b + 1, r[2]>>
             o == <<v, r[2]>>
  <2>1. q \in CharRanges /\ q[1] = b + 1 /\ q[2] = r[2]
    BY <1>1, <1>6, <1>11, RangeOf
  <2>2. o \in CharRanges /\ o[1] = v /\ o[2] = r[2]
    BY <1>1, <1>4, RangeOf
  <2>3. v <= b + 1 /\ b < b + 1 /\ r[2] <= r[2]
    BY <1>1, <1>3, <1>4, <1>6
  <2> HIDE DEF q, o
  <2>4. Free(acc.tree, q)
    BY <1>4, <2>1, <2>2, <2>3, FreeWithin DEF o
  <2>5. ~ Overlaps(e.range, q)
    BY <1>6, <2>1, <2>3 DEF Overlaps
  <2>6. Free(next.tree, q)
    BY <1>8, <2>1, <2>3, <2>4, <2>5
  <2> QED BY <2>6 DEF q
<1>12. ASSUME NEW c \in Char
       PROVE  LedTo(next.tree, c) \cup LedTo(rest, c) =
              LedTo(t, c) \cup (IF r[1] <= c /\ c < b + 1 /\ c <= r[2] THEN {s} ELSE {})
  <2>1. LedTo(left, c) = LedTo(rest, c) \cup (IF Holds(e.range, c) THEN e.states ELSE {})
    BY <1>3 DEF LedTo
  <2>2. LedTo(acc.tree, c) \cup LedTo(left, c) =
        LedTo(t, c) \cup (IF r[1] <= c /\ c < v /\ c <= r[2] THEN {s} ELSE {})
    BY DEF Cutting
  <2>3. (r[1] <= c /\ c < b + 1 /\ c <= r[2]) <=> (r[1] <= c /\ c < v /\ c <= r[2]) \/ (v <= c /\ c <= upto)
    <3>1. c \in Int /\ v <= b
      BY <1>3, <1>4, WidthAssumption DEF Char, UNICODE_MAX
    <3> HIDE DEF a, b
    <3> QED BY <1>1, <1>4, <1>6, <3>1
  <2> HIDE DEF a, b, upto, rest
  <2> QED BY <1>8, <2>1, <2>2, <2>3
<1> HIDE DEF rest, b
<1>13. Cutting(t, r, s, rest, next, b + 1)
  BY <1>8, <1>9, <1>10, <1>11, <1>12 DEF Cutting
<1> QED BY <1>3, <1>13 DEF rest, next, b, e

\* Above the array: the new range leads to its state, everything else leads where it led.
LEMMA AddUnicodeIsExact ==
  ASSUME NEW t, Tree(t), NEW r \in CharRanges, OPTIMIZED_CHARS <= r[1], NEW s
  PROVE  /\ Tree(AddUnicode(t, r, s))
         /\ \A c \in Char : LedTo(AddUnicode(t, r, s), c) = LedTo(t, c) \cup (IF Holds(r, c) THEN {s} ELSE {})
<1> DEFINE overlaps == {e \in t : Overlaps(e.range, r)}
           n == Cardinality(overlaps)
           L(f, i) == IF i = 0 THEN overlaps ELSE f[i - 1] \ {First(f[i - 1])}
           IsLeft(f) == f = [i \in 0 .. n |-> L(f, i)]
           left == CHOOSE f : IsLeft(f)
           first == [tree |-> t \ overlaps, last |-> r[1]]
           Turn(f, i) == IF i = 0 THEN first ELSE Split(f[i - 1], r, s, First(left[i - 1]))
           IsSplit(f) == f = [i \in 0 .. n |-> Turn(f, i)]
           split == CHOOSE f : IsSplit(f)
           end == split[n]
<1>1. AddUnicode(t, r, s) = IF end.last # 0 /\ end.last <= r[2]
                            THEN Inserted(end.tree, <<end.last, r[2]>>, {s})
                            ELSE end.tree
  BY DEF AddUnicode
<1>2. IsFiniteSet(overlaps) /\ n \in Nat
  <2>1. overlaps \subseteq t /\ IsFiniteSet(t)
    BY DEF Tree
  <2> HIDE DEF overlaps
  <2> QED BY <2>1, FS_Subset, FS_CardinalityType
<1> HIDE DEF n
<1>3. \E f : IsLeft(f)
  <2> DEFINE F == [i \in 1 .. n |-> [es \in SUBSET overlaps |-> es \ {First(es)}]]
             D == [i \in 0 .. n |-> SUBSET overlaps]
  <2>1. Leads(F, D, n)
    <3> SUFFICES ASSUME NEW i \in 1 .. n, NEW x \in D[i - 1] PROVE F[i][x] \in D[i]
      BY DEF Leads
    <3>1. i - 1 \in 0 .. n /\ i \in 0 .. n
      BY <1>2
    <3> HIDE DEF overlaps
    <3>2. x \in SUBSET overlaps /\ F[i][x] = x \ {First(x)}
      BY <3>1
    <3> QED BY <3>1, <3>2
  <2> HIDE DEF overlaps
  <2>2. overlaps \in D[0]
    BY <1>2
  <2> HIDE DEF F, D
  <2>3. PICK g : Iterates(g, overlaps, F, D, n)
    BY <1>2, <2>1, <2>2, Iteration
  <2>4. ASSUME NEW i \in 0 .. n PROVE g[i] = L(g, i)
    <3>1. CASE i = 0
      BY <3>1, <2>3 DEF Iterates
    <3>2. CASE i # 0
      <4>1. i - 1 \in 0 .. n /\ i \in 1 .. n
        BY <1>2, <3>2
      <4>2. g[i - 1] \in D[i - 1] /\ g[i] = F[i][g[i - 1]]
        BY <2>3, <4>1 DEF Iterates
      <4>3. F[i][g[i - 1]] = g[i - 1] \ {First(g[i - 1])}
        BY <4>1, <4>2 DEF F, D
      <4> QED BY <3>2, <4>2, <4>3
    <3> QED BY <3>1, <3>2
  <2>5. g = [i \in 0 .. n |-> g[i]]
    BY <2>3 DEF Iterates
  <2> HIDE DEF L
  <2>6. g = [i \in 0 .. n |-> L(g, i)]
    BY <2>4, <2>5
  <2> QED BY <2>6
<1>4. IsLeft(left)
  <2> HIDE DEF IsLeft
  <2> QED BY <1>3
<1> HIDE DEF left
<1>5. left[0] = overlaps /\ \A i \in 1 .. n : left[i] = left[i - 1] \ {First(left[i - 1])}
  <2>1. \A i \in 0 .. n : left[i] = L(left, i)
    <3> HIDE DEF L
    <3> QED BY <1>4
  <2>2. 0 \in 0 .. n /\ \A i \in 1 .. n : i \in 0 .. n /\ i # 0
    BY <1>2
  <2> QED BY <2>1, <2>2
<1>6. \E f : IsSplit(f)
  <2> DEFINE Turns(f, k) == f = [i \in 0 .. k |-> Turn(f, i)]
             S == {k \in 0 .. n : \E f : Turns(f, k)}
  <2>1. 0 \in S
    <3> DEFINE f == [i \in 0 .. 0 |-> first]
    <3>1. f[0] = first /\ \A i \in 0 .. 0 : i = 0
      OBVIOUS
    <3> HIDE DEF first
    <3>2. Turns(f, 0)
      BY <3>1
    <3> HIDE DEF Turns
    <3> QED BY <1>2, <3>2
  <2>2. ASSUME NEW k \in 1 .. n, k - 1 \in S PROVE k \in S
    <3>1. PICK f : Turns(f, k - 1)
      BY <2>2
    <3> DEFINE g == [i \in 0 .. k |-> IF i = k THEN Turn(f, k) ELSE f[i]]
    <3> HIDE DEF Turn
    <3>2. \A i \in 0 .. k - 1 : i \in 0 .. k /\ i # k
      OBVIOUS
    <3>3. k \in 0 .. k /\ k \in 0 .. n /\ k # 0 /\ k - 1 \in 0 .. k - 1
      OBVIOUS
    <3>4. g[k] = Turn(f, k) /\ \A i \in 0 .. k - 1 : g[i] = f[i]
      BY <3>2, <3>3
    <3>5. g = [i \in 0 .. k |-> g[i]]
      OBVIOUS
    <3> HIDE DEF g
    <3>6. ASSUME NEW i \in 0 .. k PROVE g[i] = Turn(g, i)
      <4>1. CASE i = k
        <5>1. g[k - 1] = f[k - 1]
          BY <3>3, <3>4
        <5> QED BY <3>4, <4>1, <5>1 DEF Turn
      <4>2. CASE i # k
        <5>1. i \in 0 .. k - 1 /\ (i # 0 => i - 1 \in 0 .. k - 1)
          BY <4>2
        <5>2. f[i] = Turn(f, i)
          BY <3>1, <5>1
        <5>3. i # 0 => g[i - 1] = f[i - 1]
          BY <3>4, <5>1
        <5> QED BY <3>4, <5>1, <5>2, <5>3 DEF Turn
      <4> QED BY <4>1, <4>2
    <3>7. Turns(g, k)
      BY <3>5, <3>6
    <3> HIDE DEF Turns
    <3> QED BY <3>3, <3>7
  <2>3. n \in S
    <3> HIDE DEF S
    <3>1. 0 .. n \subseteq S
      BY <1>2, <2>1, <2>2, UpTo, Zenon
    <3> QED BY <1>2, <3>1
  <2> HIDE DEF Turn
  <2> QED BY <2>3
<1>7. IsSplit(split)
  <2> HIDE DEF IsSplit
  <2> QED BY <1>6
<1> HIDE DEF split
<1>8. split[0] = first /\ \A i \in 1 .. n : split[i] = Split(split[i - 1], r, s, First(left[i - 1]))
  <2>1. \A i \in 0 .. n : split[i] = Turn(split, i)
    <3> HIDE DEF Turn
    <3> QED BY <1>7
  <2>2. 0 \in 0 .. n /\ \A i \in 1 .. n : i \in 0 .. n /\ i # 0
    BY <1>2
  <2> HIDE DEF first
  <2> QED BY <2>1, <2>2
<1> DEFINE S == {k \in 0 .. n : /\ IsFiniteSet(left[k]) /\ Cardinality(left[k]) = n - k
                               /\ \E v : 0 < v /\ Cutting(t, r, s, left[k], split[k], v)}
<1>9. 0 \in S
  <2>1. Cutting(t, r, s, left[0], split[0], r[1])
    BY <1>5, <1>8, CuttingBegins
  <2>3. 0 < r[1]
    BY RangeType, GroupAssumption
  <2>2. IsFiniteSet(left[0]) /\ Cardinality(left[0]) = n - 0
    BY <1>2, <1>5 DEF n
  <2> HIDE DEF overlaps, first
  <2> QED BY <1>2, <2>1, <2>2, <2>3
<1>10. ASSUME NEW k \in 1 .. n, k - 1 \in S PROVE k \in S
  <2> DEFINE l == left[k - 1]
             e == First(l)
  <2>1. /\ IsFiniteSet(l) /\ Cardinality(l) = n - (k - 1) /\ k \in 0 .. n
        /\ \E v : 0 < v /\ Cutting(t, r, s, l, split[k - 1], v)
    BY <1>10
  <2>2. PICK v : 0 < v /\ Cutting(t, r, s, l, split[k - 1], v)
    BY <2>1
  <2>3. l # {}
    <3>1. Cardinality(l) # 0
      BY <1>2, <2>1
    <3> QED BY <3>1, FS_EmptySet
  <2> HIDE DEF S, l
  <2>4. e \in l /\ Cutting(t, r, s, l \ {e}, Split(split[k - 1], r, s, e), e.range[2] + 1)
    BY <2>2, <2>3, CuttingGoesOn
  <2>5. left[k] = l \ {e} /\ split[k] = Split(split[k - 1], r, s, e)
    BY <1>5, <1>8 DEF l
  <2>6. IsFiniteSet(l \ {e}) /\ Cardinality(l \ {e}) = n - k
    <3>1. IsFiniteSet(l \ {e}) /\ Cardinality(l \ {e}) = Cardinality(l) - 1
      BY <2>1, <2>4, FS_RemoveElement
    <3> HIDE DEF e
    <3> QED BY <1>2, <2>1, <3>1
  <2>7. 0 < e.range[2] + 1
    <3>1. Fits(e)
      BY <2>2, <2>4 DEF Cutting, Tree
    <3>2. e.range \in CharRanges
      BY <3>1 DEF Fits
    <3>3. e.range[1] \in Int /\ e.range[2] \in Int /\ 0 <= e.range[1] /\ e.range[1] <= e.range[2]
      BY <3>2, RangeType
    <3> HIDE DEF e
    <3> QED BY <3>3
  <2> HIDE DEF e
  <2> QED BY <2>1, <2>4, <2>5, <2>6, <2>7 DEF S
<1>11. n \in S
  <2> HIDE DEF S
  <2>1. 0 .. n \subseteq S
    BY <1>2, <1>9, <1>10, UpTo, Zenon
  <2> QED BY <1>2, <2>1
<1>12. left[n] = {}
  <2>1. IsFiniteSet(left[n]) /\ Cardinality(left[n]) = n - n
    BY <1>11
  <2>2. Cardinality(left[n]) = 0
    BY <1>2, <2>1
  <2> QED BY <2>1, <2>2, FS_EmptySet
<1>13. PICK v : 0 < v /\ Cutting(t, r, s, {}, end, v)
  BY <1>11, <1>12
<1> HIDE DEF end
<1>14. r[1] \in Int /\ r[2] \in Int /\ 0 <= r[1] /\ r[1] <= r[2] /\ r[2] <= UNICODE_MAX
  BY RangeType
<1>15. /\ Tree(end.tree) /\ v \in Int /\ r[1] <= v /\ v <= Width /\ end.last = v % Width
       /\ v <= r[2] => Free(end.tree, <<v, r[2]>>)
       /\ \A c \in Char :
            LedTo(end.tree, c) = LedTo(t, c) \cup (IF r[1] <= c /\ c < v /\ c <= r[2] THEN {s} ELSE {})
  <2>1. \A c : LedTo({}, c) = {}
    BY DEF LedTo
  <2> QED BY <1>13, <2>1 DEF Cutting
<1>16. \A c \in Char : c \in Int
  BY WidthAssumption DEF Char, UNICODE_MAX
<1>17. CASE v <= r[2]
  <2>1. end.last = v /\ end.last # 0 /\ end.last <= r[2]
    <3>1. v \in 0 .. Width - 1
      BY <1>13, <1>14, <1>15, <1>17, WidthAssumption DEF UNICODE_MAX
    <3>2. \A m \in 0 .. Width - 1 : m % Width = m
      BY WidthAssumption, Z3
    <3> QED BY <1>13, <1>15, <1>17, <3>1, <3>2
  <2> DEFINE q == <<v, r[2]>>
  <2>2. q \in CharRanges /\ q[1] = v /\ q[2] = r[2]
    BY <1>13, <1>14, <1>15, <1>17, RangeOf
  <2>7. OPTIMIZED_CHARS <= q[1]
    BY <1>14, <1>15, <2>2, GroupAssumption
  <2>3. AddUnicode(t, r, s) = Inserted(end.tree, q, {s})
    BY <1>1, <2>1
  <2>4. Free(end.tree, q)
    BY <1>15, <1>17
  <2> HIDE DEF q
  <2>5. /\ Tree(Inserted(end.tree, q, {s}))
        /\ \A c : LedTo(Inserted(end.tree, q, {s}), c) = LedTo(end.tree, c) \cup (IF Holds(q, c) THEN {s} ELSE {})
    BY <1>15, <2>2, <2>4, <2>7, InsertedWhereFree
  <2>6. ASSUME NEW c \in Char
        PROVE  LedTo(AddUnicode(t, r, s), c) = LedTo(t, c) \cup (IF Holds(r, c) THEN {s} ELSE {})
    <3>1. Holds(r, c) <=> (r[1] <= c /\ c < v /\ c <= r[2]) \/ Holds(q, c)
      BY <1>14, <1>15, <1>16, <1>17, <2>2 DEF Holds
    <3> QED BY <1>15, <2>3, <2>5, <3>1
  <2> QED BY <2>3, <2>5, <2>6
<1>18. CASE ~ (v <= r[2])
  <2>1. ~ (end.last # 0 /\ end.last <= r[2])
    <3>1. CASE v = Width
      BY <1>15, <3>1, WidthAssumption, Z3
    <3>2. CASE v # Width
      <4>1. v \in 0 .. Width - 1
        BY <1>13, <1>14, <1>15, <3>2, WidthAssumption
      <4>2. \A m \in 0 .. Width - 1 : m % Width = m
        BY WidthAssumption, Z3
      <4> QED BY <1>15, <1>18, <4>1, <4>2
    <3> QED BY <3>1, <3>2
  <2>2. AddUnicode(t, r, s) = end.tree
    BY <1>1, <2>1
  <2>3. \A c \in Char : Holds(r, c) <=> r[1] <= c /\ c < v /\ c <= r[2]
    BY <1>14, <1>15, <1>16, <1>18 DEF Holds
  <2> QED BY <1>15, <2>2, <2>3
<1> QED BY <1>17, <1>18

\* In the array: each of its characters the new range holds leads to its state, too.
LEMMA AddAsciiIsExact ==
  ASSUME NEW t, Tree(t), NEW r \in CharRanges, NEW s
  PROVE  /\ Tree(AddAscii(t, r, s))
         /\ \A c \in Char : LedTo(AddAscii(t, r, s), c) =
                           LedTo(t, c) \cup (IF Holds(r, c) /\ c < OPTIMIZED_CHARS THEN {s} ELSE {})
<1> DEFINE chars == {c \in 0 .. OPTIMIZED_CHARS - 1 : Holds(r, c)}
           New(c) == [range |-> <<c, c>>, states |-> StatesAt(t, <<c, c>>) \cup {s}]
           old == {e \in t : ~ \E c \in chars : e.range = <<c, c>>}
           new == {New(c) : c \in chars}
           u == AddAscii(t, r, s)
<1>1. u = old \cup new
  BY DEF AddAscii
<1> HIDE DEF u
<1>2. r[1] \in Int /\ r[2] \in Int /\ 0 <= r[1] /\ r[1] <= r[2] /\ r[2] <= UNICODE_MAX /\ UNICODE_MAX \in Int
      /\ OPTIMIZED_CHARS \in Int
  BY RangeType, WidthAssumption, GroupAssumption DEF UNICODE_MAX
<1>3. ASSUME NEW c \in chars
      PROVE  c \in Int /\ c < OPTIMIZED_CHARS /\ <<c, c>> \in CharRanges /\ Fits(New(c)) /\ New(c).range = <<c, c>>
  <2>1. c \in Int /\ 0 <= c /\ c < OPTIMIZED_CHARS /\ c <= r[2]
    BY <1>2 DEF Holds
  <2>2. <<c, c>> \in CharRanges /\ <<c, c>>[1] = c /\ <<c, c>>[2] = c
    BY <1>2, <2>1, RangeOf
  <2>3. New(c).range = <<c, c>> /\ New(c).states = StatesAt(t, <<c, c>>) \cup {s}
    BY Zenon
  <2>4. New(c) = [range |-> New(c).range, states |-> New(c).states]
    BY <2>3
  <2> HIDE DEF New
  <2> QED BY <2>1, <2>2, <2>3, <2>4 DEF Fits
<1>4. ASSUME NEW e \in t
      PROVE  /\ e.range \in CharRanges /\ e.range = <<e.range[1], e.range[2]>>
             /\ e.range[1] \in Int /\ e.range[2] \in Int
             /\ e.range[1] < OPTIMIZED_CHARS => e.range[1] = e.range[2]
  BY RangeType DEF Tree, Fits
<1>5. ASSUME NEW e \in t, NEW c \in Int, c < OPTIMIZED_CHARS
      PROVE  /\ Holds(e.range, c) <=> e.range = <<c, c>>
             /\ Overlaps(e.range, <<c, c>>) => e.range = <<c, c>>
  <2>1. <<c, c>>[1] = c /\ <<c, c>>[2] = c
    OBVIOUS
  <2>2. e.range[1] <= c /\ c <= e.range[2] => e.range[1] = c /\ e.range[2] = c
    BY <1>2, <1>4, <1>5
  <2>3. e.range = <<c, c>> => e.range[1] <= c /\ c <= e.range[2]
    BY <2>1
  <2> QED BY <1>4, <2>1, <2>2, <2>3 DEF Holds, Overlaps
<1>6. IsFiniteSet(u)
  <2>1. IsFiniteSet(chars)
    <3>1. IsFiniteSet(0 .. OPTIMIZED_CHARS - 1)
      BY <1>2, FS_Interval
    <3>2. chars \subseteq 0 .. OPTIMIZED_CHARS - 1
      OBVIOUS
    <3> HIDE DEF chars
    <3> QED BY <3>1, <3>2, FS_Subset
  <2>2. IsFiniteSet(new)
    <3> HIDE DEF chars, New
    <3> DEFINE f == [c \in chars |-> New(c)]
    <3>1. f \in Surjection(chars, new)
      BY DEF Surjection
    <3> HIDE DEF f, new
    <3> QED BY <2>1, <3>1, FS_Surjection
  <2>3. IsFiniteSet(old)
    <3>1. old \subseteq t
      OBVIOUS
    <3> HIDE DEF old
    <3> QED BY <3>1, FS_Subset DEF Tree
  <2> HIDE DEF old, new
  <2> QED BY <1>1, <2>2, <2>3, FS_Union
<1>7. \A e \in u : Fits(e)
  <2> SUFFICES ASSUME NEW e \in u PROVE Fits(e)
    OBVIOUS
  <2>1. CASE e \in old
    BY <2>1 DEF Tree
  <2>2. CASE e \in new
    <3>1. PICK c \in chars : e = New(c)
      BY <2>2
    <3> HIDE DEF New, chars
    <3> QED BY <1>3, <3>1
  <2> QED BY <1>1, <2>1, <2>2
<1>8. ASSUME NEW d \in old, NEW c \in chars PROVE ~ Overlaps(d.range, <<c, c>>) /\ ~ Overlaps(<<c, c>>, d.range)
  <2>1. d \in t /\ d.range # <<c, c>> /\ c \in Int /\ c < OPTIMIZED_CHARS
    BY <1>3
  <2>2. ~ Overlaps(d.range, <<c, c>>)
    BY <1>5, <2>1
  <2>3. d.range[1] \in Int /\ d.range[2] \in Int /\ <<c, c>>[1] = c /\ <<c, c>>[2] = c
    BY <1>4, <2>1
  <2> QED BY <2>1, <2>2, <2>3 DEF Overlaps
<1>9. Apart(u)
  <2> SUFFICES ASSUME NEW d \in u, NEW e \in u, d # e PROVE ~ Overlaps(d.range, e.range)
    BY DEF Apart
  <2>1. CASE d \in old /\ e \in old
    BY <2>1 DEF Tree, Apart
  <2>2. CASE d \in old /\ e \in new
    <3>1. PICK c \in chars : e = New(c)
      BY <2>2
    <3>2. e.range = <<c, c>>
      BY <3>1
    <3> QED BY <1>8, <2>2, <3>2
  <2>3. CASE d \in new /\ e \in old
    <3>1. PICK c \in chars : d = New(c)
      BY <2>3
    <3>2. d.range = <<c, c>>
      BY <3>1
    <3> QED BY <1>8, <2>3, <3>2
  <2>4. CASE d \in new /\ e \in new
    <3>1. PICK c \in chars : d = New(c)
      BY <2>4
    <3>2. PICK b \in chars : e = New(b)
      BY <2>4
    <3>3. b # c
      BY <3>1, <3>2
    <3>4. d.range = <<c, c>> /\ e.range = <<b, b>>
      BY <3>1, <3>2
    <3>5. b \in Int /\ c \in Int
      BY <1>3
    <3> QED BY <3>3, <3>4, <3>5 DEF Overlaps
  <2> HIDE DEF old, new
  <2> QED BY <1>1, <2>1, <2>2, <2>3, <2>4
<1>10. ASSUME NEW c \in Char
       PROVE  LedTo(u, c) = LedTo(t, c) \cup (IF Holds(r, c) /\ c < OPTIMIZED_CHARS THEN {s} ELSE {})
  <2>0. c \in Int /\ 0 <= c
    BY WidthAssumption DEF Char, UNICODE_MAX
  <2>1. \A b \in chars : Holds(New(b).range, c) <=> b = c
    <3> SUFFICES ASSUME NEW b \in chars PROVE Holds(New(b).range, c) <=> b = c
      OBVIOUS
    <3>1. New(b).range[1] = b /\ New(b).range[2] = b /\ b \in Int
      BY <1>3
    <3> QED BY <2>0, <3>1 DEF Holds
  <2>2. CASE c \in chars
    <3>1. c < OPTIMIZED_CHARS /\ Holds(r, c)
      BY <1>3, <2>2
    <3>2. \A e \in old : ~ Holds(e.range, c)
      BY <1>5, <2>0, <2>2, <3>1
    <3>3. {e \in u : Holds(e.range, c)} = {New(c)}
      <4> HIDE DEF New
      <4> QED BY <1>1, <2>1, <2>2, <3>2
    <3>4. LedTo(u, c) = StatesAt(t, <<c, c>>) \cup {s}
      <4>1. New(c).states = StatesAt(t, <<c, c>>) \cup {s}
        BY Zenon
      <4> HIDE DEF New
      <4> QED BY <3>3, <4>1 DEF LedTo
    <3>5. StatesAt(t, <<c, c>>) = LedTo(t, c)
      <4>1. {e \in t : e.range = <<c, c>>} = {e \in t : Holds(e.range, c)}
        BY <1>5, <2>0, <3>1
      <4> QED BY <4>1 DEF StatesAt, LedTo
    <3> QED BY <3>1, <3>4, <3>5
  <2>3. CASE c \notin chars
    <3>1. ~ (Holds(r, c) /\ c < OPTIMIZED_CHARS)
      BY <1>2, <2>0, <2>3
    <3>2. ASSUME NEW e, Holds(e.range, c) PROVE e \in u <=> e \in t
      <4>1. e \notin new
        BY <2>1, <2>3, <3>2
      <4>2. ASSUME e \in t PROVE e \in old
        <5> SUFFICES ASSUME NEW b \in chars, e.range = <<b, b>> PROVE FALSE
          BY <4>2
        <5>1. <<b, b>>[1] = b /\ <<b, b>>[2] = b /\ b \in Int
          BY <1>3
        <5>2. b = c
          BY <2>0, <3>2, <5>1 DEF Holds
        <5> QED BY <2>3, <5>2
      <4>3. old \subseteq t
        OBVIOUS
      <4> HIDE DEF old, new
      <4> QED BY <1>1, <4>1, <4>2, <4>3
    <3>3. {e \in u : Holds(e.range, c)} = {e \in t : Holds(e.range, c)}
      BY <3>2
    <3> QED BY <3>1, <3>3 DEF LedTo
  <2> QED BY <2>2, <2>3
<1> QED BY <1>6, <1>7, <1>9, <1>10 DEF Tree, u

\* RegexNFAState::add: afterwards the characters of the range lead to its state and to
\* wherever they led before, all others lead where they led, and no two ranges overlap.
THEOREM AddedIsExact ==
  ASSUME NEW t, Tree(t), NEW r \in CharRanges, NEW s
  PROVE  /\ Tree(Added(t, r, s))
         /\ \A c \in Char : LedTo(Added(t, r, s), c) = LedTo(t, c) \cup (IF Holds(r, c) THEN {s} ELSE {})
<1> DEFINE ascii == AddAscii(t, r, s)
           last == IF r[1] < OPTIMIZED_CHARS THEN OPTIMIZED_CHARS ELSE r[1]
<1>1. Added(t, r, s) = IF last > r[2] THEN ascii ELSE AddUnicode(ascii, <<last, r[2]>>, s)
  BY DEF Added
<1>2. /\ Tree(ascii)
      /\ \A c \in Char : LedTo(ascii, c) =
                        LedTo(t, c) \cup (IF Holds(r, c) /\ c < OPTIMIZED_CHARS THEN {s} ELSE {})
  BY AddAsciiIsExact
<1> HIDE DEF ascii
<1>3. r[1] \in Int /\ r[2] \in Int /\ 0 <= r[1] /\ r[1] <= r[2] /\ r[2] <= UNICODE_MAX /\ OPTIMIZED_CHARS \in Int
      /\ 0 <= OPTIMIZED_CHARS
  BY RangeType, GroupAssumption
<1>4. \A c \in Char : c \in Int
  BY WidthAssumption DEF Char, UNICODE_MAX
<1>5. CASE last > r[2]
  <2>1. \A c \in Char : Holds(r, c) => c < OPTIMIZED_CHARS
    BY <1>3, <1>4, <1>5 DEF Holds
  <2> QED BY <1>1, <1>2, <1>5, <2>1
<1>6. CASE ~ (last > r[2])
  <2> DEFINE q == <<last, r[2]>>
  <2>1. q \in CharRanges /\ q[1] = last /\ q[2] = r[2] /\ OPTIMIZED_CHARS <= q[1]
    BY <1>3, <1>6, RangeOf
  <2>2. \A c \in Char : Holds(r, c) <=> (Holds(r, c) /\ c < OPTIMIZED_CHARS) \/ Holds(q, c)
    BY <1>3, <1>4, <2>1 DEF Holds
  <2>3. Added(t, r, s) = AddUnicode(ascii, q, s)
    BY <1>1, <1>6
  <2> HIDE DEF q
  <2>4. /\ Tree(AddUnicode(ascii, q, s))
        /\ \A c \in Char :
             LedTo(AddUnicode(ascii, q, s), c) = LedTo(ascii, c) \cup (IF Holds(q, c) THEN {s} ELSE {})
    BY <1>2, <2>1, AddUnicodeIsExact
  <2> QED BY <1>2, <2>2, <2>3, <2>4
<1> QED BY <1>5, <1>6

-----------------------------------------------------------------------------
(* Star                                                                     *)

\* What is reached in n steps over nothing, in a function on the first numbers.
ReachedTo(S, m, g) ==
  g = [n \in 0 .. m |-> IF n = 0 THEN S ELSE UNION {{q} \cup nfa[q].epsilon : q \in g[n - 1]}]

\* There is such a function for any number of steps: a least number without one has
\* one after all.
LEMMA ReachedExists ==
  ASSUME NEW S, NEW m \in Nat
  PROVE  \E g : ReachedTo(S, m, g)
<1> DEFINE T == {d \in Nat : ~ \E g : ReachedTo(S, d, g)}
<1>1. SUFFICES ASSUME T # {} PROVE FALSE
  OBVIOUS
<1>2. PICK d \in T : \A e \in T : d <= e
  BY <1>1, LeastNat
<1>3. CASE d = 0
  <2>1. 0 .. 0 = {0}
    OBVIOUS
  <2>2. ReachedTo(S, 0, [n \in 0 .. 0 |-> S])
    BY <2>1 DEF ReachedTo
  <2> QED BY <1>2, <1>3, <2>2
<1>4. CASE d # 0
  <2>1. d - 1 \in Nat /\ d - 1 \notin T
    BY <1>2, <1>4
  <2>2. PICK g : ReachedTo(S, d - 1, g)
    BY <2>1
  <2> DEFINE Onward(P) == UNION {{q} \cup nfa[q].epsilon : q \in P}
             h == [n \in 0 .. d |-> IF n = d THEN Onward(g[d - 1]) ELSE g[n]]
  <2>3. h = [n \in 0 .. d |-> IF n = 0 THEN S ELSE Onward(h[n - 1])]
    <3> SUFFICES ASSUME NEW n \in 0 .. d
                 PROVE  h[n] = IF n = 0 THEN S ELSE Onward(h[n - 1])
      BY Zenon
    <3>0. g = [j \in 0 .. d - 1 |-> IF j = 0 THEN S ELSE Onward(g[j - 1])]
      BY <2>2 DEF ReachedTo
    <3> HIDE DEF Onward
    <3>1. CASE n = d
      <4>1. d - 1 \in 0 .. d /\ d - 1 # d
        BY <2>1
      <4> QED BY <1>4, <3>1, <4>1
    <3>2. CASE n # d /\ n # 0
      <4>1. n \in 0 .. d - 1 /\ n - 1 \in 0 .. d - 1 /\ n - 1 # d
        BY <3>2, <2>1
      <4>2. h[n] = g[n] /\ h[n - 1] = g[n - 1]
        BY <3>2, <4>1
      <4> QED BY <3>0, <3>2, <4>1, <4>2
    <3>3. CASE n = 0
      <4>1. 0 \in 0 .. d - 1
        BY <2>1
      <4>2. h[0] = g[0] /\ g[0] = S
        BY <1>4, <3>0, <4>1
      <4> QED BY <3>3, <4>2
    <3> QED BY <3>1, <3>2, <3>3
  <2>4. ReachedTo(S, d, h)
    BY <2>3 DEF ReachedTo
  <2> QED BY <1>2, <2>4
<1> QED BY <1>3, <1>4

\* The parts of a state of the NFA.
LEMMA StateType ==
  ASSUME NFAOK, NEW q \in NFAStates
  PROVE  /\ nfa[q].epsilon \subseteq NFAStates
         /\ nfa[q].transitions \subseteq [range : CharRanges, states : SUBSET NFAStates]
<1> DEFINE Q == [data : Tags \cup {NONE},
                 transitions : SUBSET [range : CharRanges, states : SUBSET NFAStates],
                 epsilon : SUBSET NFAStates]
<1>1. nfa \in Seq(Q) /\ q \in 1 .. Len(nfa)
  BY Zenon DEF NFAOK, NFAStates
<1>2. nfa[q] \in Q
  <2> HIDE DEF Q
  <2> QED BY <1>1
<1> QED BY <1>2

\* What is reached from states of the NFA are states of the NFA.
LEMMA StarType ==
  ASSUME NFAOK, NEW S, S \subseteq NFAStates
  PROVE  Star(S) \subseteq NFAStates
<1> DEFINE m == Len(nfa)
           R(g) == [n \in 0 .. m |-> IF n = 0 THEN S
                                     ELSE UNION {{q} \cup nfa[q].epsilon : q \in g[n - 1]}]
           r == CHOOSE g : g = R(g)
<1>0. m \in Nat
  BY DEF NFAOK
<1>1. Star(S) = r[m]
  BY DEF Star
<1>2. \E g : g = R(g)
  <2>1. \E g : ReachedTo(S, m, g)
    BY <1>0, ReachedExists
  <2> QED BY <2>1, Zenon DEF ReachedTo
<1>3. r = R(r)
  <2> HIDE DEF R
  <2> QED BY <1>2
<1> HIDE DEF r
<1> DEFINE T == {n \in 0 .. m : ~ (r[n] \subseteq NFAStates)}
<1>4. SUFFICES ASSUME T # {} PROVE FALSE
  BY <1>0, <1>1
<1>5. T \subseteq Nat
  OBVIOUS
<1>6. PICK n \in T : \A j \in T : n <= j
  BY <1>4, <1>5, LeastNat
<1>7. CASE n = 0
  <2>1. r[n] = S
    BY <1>3, <1>6, <1>7
  <2> QED BY <1>6, <2>1
<1>8. CASE n # 0
  <2>1. n - 1 \in 0 .. m /\ n - 1 \notin T
    BY <1>0, <1>6, <1>8
  <2>2. r[n - 1] \subseteq NFAStates
    BY <2>1
  <2>3. r[n] = UNION {{q} \cup nfa[q].epsilon : q \in r[n - 1]}
    BY <1>3, <1>6, <1>8
  <2>4. \A q \in NFAStates : nfa[q].epsilon \subseteq NFAStates
    BY StateType
  <2>5. r[n] \subseteq NFAStates
    BY <2>2, <2>3, <2>4
  <2> QED BY <1>6, <2>5
<1> QED BY <1>7, <1>8

\* So the successors of a set of NFA states are NFA states.
LEMMA SuccessorType ==
  ASSUME NFAOK, NEW G, G \subseteq NFAStates, NEW r
  PROVE  Successor(G, r) \subseteq NFAStates
<1>1. \A e \in Edges(G) : e.states \subseteq NFAStates
  BY StateType DEF Edges
<1>2. UNION {e.states : e \in {e \in Edges(G) : e.range = r}} \subseteq NFAStates
  BY <1>1
<1> QED BY <1>2, StarType DEF Successor

\* The ranges of a set of NFA states are ranges.
LEMMA KeysType ==
  ASSUME NFAOK, NEW G, G \subseteq NFAStates
  PROVE  Keys(G) \subseteq CharRanges
<1>1. \A e \in Edges(G) : e.range \in CharRanges
  BY StateType DEF Edges
<1> QED BY <1>1 DEF Keys

-----------------------------------------------------------------------------
(* The invariant                                                            *)

Entry == [range : CharRanges, to : Nat]
DfaState == [terminals : {TerminalsOf(G) : G \in SUBSET NFAStates}, next : SUBSET Entry]

Types ==
  /\ NFAOK
  /\ groups \in Seq(SUBSET NFAStates)
  /\ dfa \in Seq(DfaState) /\ Len(dfa) = Len(groups)
  /\ marked \in 0 .. Len(groups)
  /\ pending \subseteq CharRanges

\* Nothing has been generated before to_dfa begins.
Unbegun == status \in {"adding", "building"} => groups = <<>>

\* What is pending belongs to the state taken last.
PendingTaken == pending # {} => marked > 0 /\ pending \subseteq Keys(groups[marked])

\* States not taken yet have no transitions.
Untouched == \A k \in 1 .. Len(groups) : k > marked => dfa[k].next = {}

\* The others have those that have been followed, each to the right state ...
Followed == \A k \in 1 .. marked : \A e \in dfa[k].next :
  /\ e.to \in 1 .. Len(groups)
  /\ groups[e.to] = Successor(groups[k], e.range)
  /\ e.range \in Keys(groups[k])

\* ... no two of them over ranges that overlap ...
NextApart == \A k \in 1 .. marked : \A d, e \in dfa[k].next : d = e \/ ~ Overlaps(d.range, e.range)

\* ... and one for every range of the set that is not pending.
Covered == \A k \in 1 .. marked : \A r \in Keys(groups[k]) :
  (k = marked /\ r \in pending) \/ \E e \in dfa[k].next : e.range = r

IInv == Types /\ Unbegun /\ PendingTaken /\ Untouched /\ Followed /\ NextApart /\ Covered

\* Nothing has been generated when to_dfa is called.
LEMMA InvInit == ConvertInit => IInv
BY DEF ConvertInit, NothingGenerated, IInv, Types, Unbegun, PendingTaken, Untouched,
       Followed, NextApart, Covered

\* The NFA does not change, and so neither do ranges and successors of a set.
LEMMA SameNFA ==
  ASSUME UNCHANGED nfa
  PROVE  /\ \A G : Keys(G)' = Keys(G)
         /\ \A G, r : Successor(G, r)' = Successor(G, r)
         /\ NFAStates' = NFAStates
         /\ DfaState' = DfaState
<1>1. \A G : Keys(G)' = Keys(G)
  BY DEF Keys, Edges
<1>2. \A S : Star(S)' = Star(S)
  BY DEF Star
<1>3. \A G, r : Successor(G, r)' = Successor(G, r)
  BY <1>2 DEF Successor, Edges
<1>4. NFAStates' = NFAStates
  BY DEF NFAStates
<1>5. \A G : TerminalsOf(G)' = TerminalsOf(G)
  BY DEF TerminalsOf
<1>6. DfaState' = DfaState
  BY <1>4, <1>5 DEF DfaState, Entry
<1> QED BY <1>1, <1>3, <1>4, <1>6

\* A transition is added to the state taken last, and to no other.
LEMMA ToEffect ==
  ASSUME Types, marked > 0, NEW r \in CharRanges, NEW k \in Nat
  PROVE  /\ To(r, k) \in Seq(DfaState)
         /\ Len(To(r, k)) = Len(dfa)
         /\ To(r, k)[marked].next = dfa[marked].next \cup {[range |-> r, to |-> k]}
         /\ \A j \in 1 .. Len(dfa) : j # marked => To(r, k)[j] = dfa[j]
<1> DEFINE new == [terminals |-> dfa[marked].terminals,
                   next |-> dfa[marked].next \cup {[range |-> r, to |-> k]}]
<1>1. marked \in 1 .. Len(dfa) /\ dfa \in Seq(DfaState)
  BY DEF Types
<1>2. dfa[marked] \in DfaState
  BY <1>1
<1>3. new \in DfaState
  BY <1>2 DEF DfaState, Entry
<1>4. To(r, k) = [dfa EXCEPT ![marked] = new]
  BY DEF To
<1>5. new.next = dfa[marked].next \cup {[range |-> r, to |-> k]}
  OBVIOUS
<1> HIDE DEF new
<1> QED BY <1>1, <1>3, <1>4, <1>5

\* What following a range does to the states: the invariant is kept whether the state
\* at the end of the new transition is known or new.
LEMMA FollowStep ==
  ASSUME IInv, UNCHANGED <<nfa, status, marked>>, status = "converting",
         NEW r \in pending, ~ Taken(r), pending' = pending \ {r},
         groups' \in Seq(SUBSET NFAStates), Len(groups') >= Len(groups),
         \A j \in 1 .. Len(groups) : groups'[j] = groups[j],
         NEW k \in 1 .. Len(groups'), groups'[k] = Successor(groups[marked], r),
         dfa' \in Seq(DfaState), Len(dfa') = Len(groups'),
         \A j \in 1 .. Len(groups) : dfa'[j] = To(r, k)[j],
         \A j \in 1 .. Len(groups') : j > Len(groups) => dfa'[j].next = {}
  PROVE  IInv'
<1> DEFINE new == [range |-> r, to |-> k]
<1>0. /\ Types /\ marked \in 1 .. Len(groups) /\ r \in Keys(groups[marked]) /\ r \in CharRanges
      /\ k \in Nat /\ marked' = marked /\ Len(groups) \in Nat /\ Len(groups') \in Nat
      /\ Len(dfa) = Len(groups)
  BY DEF IInv, Types, PendingTaken
<1>1. /\ dfa'[marked].next = dfa[marked].next \cup {new}
      /\ \A j \in 1 .. Len(groups) : j # marked => dfa'[j] = dfa[j]
  <2>1. /\ To(r, k)[marked].next = dfa[marked].next \cup {new}
        /\ \A j \in 1 .. Len(groups) : j # marked => To(r, k)[j] = dfa[j]
    BY <1>0, ToEffect
  <2> QED BY <1>0, <2>1
<1>2. /\ \A G : Keys(G)' = Keys(G)
      /\ \A G, s : Successor(G, s)' = Successor(G, s)
      /\ NFAStates' = NFAStates /\ DfaState' = DfaState
  BY SameNFA
<1>3. Types'
  BY <1>0, <1>2 DEF IInv, Types, NFAOK, NFAStates
<1>4. Unbegun'
  BY DEF Unbegun
<1>5. PendingTaken'
  BY <1>0, <1>2 DEF IInv, PendingTaken
<1>6. Untouched'
  BY <1>0, <1>1 DEF IInv, Untouched
<1>7. Followed'
  <2> SUFFICES ASSUME NEW j \in 1 .. marked, NEW e \in dfa'[j].next
               PROVE  /\ e.to \in 1 .. Len(groups') /\ groups'[e.to] = Successor(groups'[j], e.range)
                      /\ e.range \in Keys(groups'[j])
    BY <1>0, <1>2 DEF Followed
  <2>1. groups'[j] = groups[j] /\ j \in 1 .. Len(groups)
    BY <1>0
  <2>2. CASE j = marked /\ e = new
    BY <1>0, <2>1, <2>2
  <2>3. CASE e \in dfa[j].next
    <3>1. e.to \in 1 .. Len(groups) /\ groups[e.to] = Successor(groups[j], e.range)
          /\ e.range \in Keys(groups[j])
      BY <2>3 DEF IInv, Followed
    <3> QED BY <1>0, <2>1, <3>1
  <2> QED BY <1>1, <2>1, <2>2, <2>3
<1>8. NextApart'
  <2> SUFFICES ASSUME NEW j \in 1 .. marked, NEW d \in dfa'[j].next, NEW e \in dfa'[j].next, d # e
               PROVE  ~ Overlaps(d.range, e.range)
    BY <1>0 DEF NextApart
  <2>1. j \in 1 .. Len(groups)
    BY <1>0
  <2>2. CASE d \in dfa[j].next /\ e \in dfa[j].next
    BY <2>2 DEF IInv, NextApart
  <2>3. CASE j = marked /\ d = new /\ e \in dfa[j].next
    BY <2>3 DEF Taken, Overlaps
  <2>4. CASE j = marked /\ e = new /\ d \in dfa[j].next
    BY <2>4 DEF Taken
  <2> QED BY <1>1, <2>1, <2>2, <2>3, <2>4
<1>9. Covered'
  <2> SUFFICES ASSUME NEW j \in 1 .. marked, NEW s \in Keys(groups'[j])
               PROVE  (j = marked /\ s \in pending') \/ \E e \in dfa'[j].next : e.range = s
    BY <1>0, <1>2 DEF Covered
  <2>1. groups'[j] = groups[j] /\ j \in 1 .. Len(groups) /\ dfa[j].next \subseteq dfa'[j].next
    BY <1>0, <1>1
  <2>2. CASE j = marked /\ s = r
    <3>1. new \in dfa'[j].next /\ new.range = s
      BY <1>1, <2>2
    <3> QED BY <3>1
  <2>3. CASE j # marked \/ s # r
    <3>1. s \in Keys(groups[j])
      BY <2>1
    <3>2. (j = marked /\ s \in pending) \/ \E e \in dfa[j].next : e.range = s
      BY <3>1 DEF IInv, Covered
    <3>3. CASE j = marked /\ s \in pending
      BY <2>3, <3>3
    <3>4. CASE \E e \in dfa[j].next : e.range = s
      BY <2>1, <3>4
    <3> QED BY <3>2, <3>3, <3>4
  <2> QED BY <2>2, <2>3
<1> QED BY <1>3, <1>4, <1>5, <1>6, <1>7, <1>8, <1>9 DEF IInv

\* The first state has nothing pending and no transitions.
LEMMA StartStep == IInv /\ Start => IInv'
<1> SUFFICES ASSUME IInv, Start PROVE IInv'
  OBVIOUS
<1> DEFINE G == Star({1})
<1>1. /\ groups = <<>> /\ marked = 0 /\ pending = {} /\ nfa' = nfa /\ marked' = marked
      /\ pending' = pending /\ groups' = <<G>> /\ dfa' = <<NewState(G)>> /\ status' = "converting"
  BY DEF Start, IInv, Types, Unbegun, PendingTaken
<1>2. 1 \in NFAStates /\ NFAOK
  BY DEF IInv, Types, NFAOK, NFAStates
<1>3. G \in SUBSET NFAStates
  BY <1>2, StarType
<1>4. NewState(G) \in DfaState /\ NewState(G).next = {}
  BY <1>3 DEF NewState, DfaState
<1> HIDE DEF G
<1>5. groups' \in Seq(SUBSET NFAStates) /\ Len(groups') = 1 /\ groups'[1] = G
  BY <1>1, <1>3
<1>6. dfa' \in Seq(DfaState) /\ Len(dfa') = 1 /\ dfa'[1].next = {}
  BY <1>1, <1>4
<1>7. NFAStates' = NFAStates /\ DfaState' = DfaState
  BY <1>1, SameNFA
<1>8. Types'
  BY <1>1, <1>2, <1>5, <1>6, <1>7 DEF Types, NFAOK, NFAStates
<1> QED BY <1>1, <1>5, <1>6, <1>8 DEF IInv, Unbegun, PendingTaken, Untouched, Followed, NextApart, Covered

\* A state is taken when nothing of the one before is pending.
LEMMA TakeStep == IInv /\ Take => IInv'
<1> SUFFICES ASSUME IInv, Take PROVE IInv'
  OBVIOUS
<1>1. /\ pending = {} /\ marked < Len(groups) /\ marked' = marked + 1
      /\ pending' = Keys(groups[marked + 1]) /\ status = "converting"
      /\ UNCHANGED <<nfa, status, groups, dfa>>
      /\ marked \in Nat /\ Len(groups) \in Nat
  BY DEF Take, IInv, Types
<1>2. /\ \A G : Keys(G)' = Keys(G)
      /\ \A G, s : Successor(G, s)' = Successor(G, s)
      /\ NFAStates' = NFAStates /\ DfaState' = DfaState
  BY <1>1, SameNFA
<1>3. Types'
  <2>1. groups[marked + 1] \subseteq NFAStates
    BY <1>1 DEF IInv, Types
  <2>2. pending' \subseteq CharRanges
    BY <1>1, <2>1, KeysType DEF IInv, Types
  <2> QED BY <1>1, <1>2, <2>2 DEF IInv, Types, NFAOK, NFAStates
<1>4. Unbegun' /\ PendingTaken' /\ Untouched'
  BY <1>1, <1>2 DEF IInv, Unbegun, PendingTaken, Untouched
<1>5. dfa[marked + 1].next = {}
  BY <1>1 DEF IInv, Untouched
<1>6. Followed' /\ NextApart'
  BY <1>1, <1>2, <1>5 DEF IInv, Followed, NextApart
<1>7. Covered'
  <2> SUFFICES ASSUME NEW k \in 1 .. marked + 1, NEW r \in Keys(groups[k])
               PROVE  (k = marked + 1 /\ r \in pending') \/ \E e \in dfa[k].next : e.range = r
    BY <1>1, <1>2 DEF Covered
  <2>1. CASE k = marked + 1
    BY <1>1, <2>1
  <2>2. CASE k \in 1 .. marked
    BY <1>1, <2>2 DEF IInv, Covered
  <2> QED BY <1>1, <2>1, <2>2
<1> QED BY <1>3, <1>4, <1>6, <1>7 DEF IInv

\* A range leads to a state that is known ...
LEMMA FollowKnownStep == IInv /\ FollowKnown => IInv'
<1> SUFFICES ASSUME IInv, FollowKnown PROVE IInv'
  OBVIOUS
<1>1. PICK r \in pending, k \in 1 .. Len(groups) :
        /\ ~ Taken(r) /\ groups[k] = Successor(groups[marked], r)
        /\ dfa' = To(r, k) /\ pending' = pending \ {r}
  BY DEF FollowKnown
<1>2. UNCHANGED <<nfa, status, groups, marked>> /\ status = "converting"
  BY DEF FollowKnown
<1>3. /\ Types /\ marked > 0 /\ r \in CharRanges /\ k \in Nat /\ NFAOK
      /\ groups \in Seq(SUBSET NFAStates) /\ Len(groups) \in Nat /\ Len(dfa) = Len(groups)
  BY <1>1 DEF IInv, Types, PendingTaken
<1>4. To(r, k) \in Seq(DfaState) /\ Len(To(r, k)) = Len(dfa)
  BY <1>3, ToEffect
<1>5. dfa' \in Seq(DfaState) /\ Len(dfa') = Len(groups')
  BY <1>1, <1>2, <1>3, <1>4
<1> QED BY <1>1, <1>2, <1>3, <1>5, FollowStep

\* ... or to a new one.
LEMMA FollowNewStep == IInv /\ FollowNew => IInv'
<1> SUFFICES ASSUME IInv, FollowNew PROVE IInv'
  OBVIOUS
<1> DEFINE n == Len(groups) + 1
<1>1. PICK r \in pending :
        /\ ~ Taken(r)
        /\ groups' = Append(groups, Successor(groups[marked], r))
        /\ dfa' = Append(To(r, n), NewState(Successor(groups[marked], r)))
        /\ pending' = pending \ {r}
  BY DEF FollowNew
<1>2. UNCHANGED <<nfa, status, marked>> /\ status = "converting"
  BY DEF FollowNew
<1>3. /\ Types /\ marked > 0 /\ r \in CharRanges /\ n \in Nat /\ NFAOK /\ marked \in 1 .. Len(groups)
      /\ groups \in Seq(SUBSET NFAStates) /\ Len(groups) \in Nat /\ Len(dfa) = Len(groups)
  BY <1>1 DEF IInv, Types, PendingTaken
<1> DEFINE G == Successor(groups[marked], r)
<1>4. G \in SUBSET NFAStates
  <2>1. groups[marked] \subseteq NFAStates
    BY <1>3
  <2> QED BY <1>3, <2>1, SuccessorType
<1>5. NewState(G) \in DfaState /\ NewState(G).next = {}
  BY <1>4 DEF NewState, DfaState
<1> HIDE DEF G
<1>6. /\ groups' \in Seq(SUBSET NFAStates) /\ Len(groups') = n /\ groups'[n] = G
      /\ \A j \in 1 .. Len(groups) : groups'[j] = groups[j]
  BY <1>1, <1>3, <1>4 DEF G
<1>7. To(r, n) \in Seq(DfaState) /\ Len(To(r, n)) = Len(groups)
  BY <1>3, ToEffect
<1>8. /\ dfa' \in Seq(DfaState) /\ Len(dfa') = n /\ dfa'[n].next = {}
      /\ \A j \in 1 .. Len(groups) : dfa'[j] = To(r, n)[j]
  BY <1>1, <1>3, <1>5, <1>7 DEF G
<1> HIDE DEF n
<1>9. n \in 1 .. Len(groups') /\ Len(groups') >= Len(groups) /\ Len(dfa') = Len(groups')
  BY <1>3, <1>6, <1>8 DEF n
<1>10. \A j \in 1 .. Len(groups') : j > Len(groups) => dfa'[j].next = {}
  BY <1>3, <1>6, <1>8 DEF n
<1>11. groups'[n] = Successor(groups[marked], r)
  BY <1>6 DEF G
<1> QED BY <1>1, <1>2, <1>6, <1>8, <1>9, <1>10, <1>11, FollowStep

\* The invariant does not depend on what the status is once to_dfa has begun.
LEMMA EndStep == IInv /\ (Abort \/ Finish \/ UNCHANGED convertVars) => IInv'
<1> SUFFICES ASSUME IInv, Abort \/ Finish \/ UNCHANGED convertVars PROVE IInv'
  OBVIOUS
<1>1. UNCHANGED <<nfa, groups, dfa, marked, pending>>
  BY DEF Abort, Finish, convertVars
<1>2. status' \in {"aborted", "done"} \/ status' = status
  BY DEF Abort, Finish, convertVars
<1>3. /\ \A G : Keys(G)' = Keys(G)
      /\ \A G, s : Successor(G, s)' = Successor(G, s)
      /\ NFAStates' = NFAStates /\ DfaState' = DfaState
  BY <1>1, SameNFA
<1>4. Types'
  BY <1>1, <1>3 DEF IInv, Types, NFAOK, NFAStates
<1> QED BY <1>1, <1>2, <1>3, <1>4 DEF IInv, Unbegun, PendingTaken, Untouched, Followed, NextApart, Covered

\* The invariant holds after every step of to_dfa.
LEMMA Invariance == ConvertSpec => []IInv
<1>1. IInv /\ [Convert]_convertVars => IInv'
  BY StartStep, TakeStep, FollowKnownStep, FollowNewStep, EndStep DEF Convert
<1> QED BY InvInit, <1>1, PTL DEF ConvertSpec

-----------------------------------------------------------------------------
(* What to_dfa is to give                                                   *)

\* When nothing of a state is pending, its transitions are right for every character.
LEMMA Exactness == IInv => SubsetsExact
<1> SUFFICES ASSUME IInv, NEW k \in Over, NEW c \in Char
             PROVE  LET ways == {e \in dfa[k].next : Holds(e.range, c)}
                    IN  /\ ways = {} <=> \A e \in Edges(groups[k]) : ~ Holds(e.range, c)
                        /\ \A e \in ways : groups[e.to] = Reached(groups[k], c)
                        /\ \A d, e \in ways : d = e
  BY DEF SubsetsExact
<1> DEFINE ways == {e \in dfa[k].next : Holds(e.range, c)}
           G == groups[k]
<1>1. k \in 1 .. marked /\ (k < marked \/ pending = {})
  BY DEF Over
<1>2. \A r \in Keys(G) : \E e \in dfa[k].next : e.range = r
  <2>1. \A r \in Keys(G) : (k = marked /\ r \in pending) \/ \E e \in dfa[k].next : e.range = r
    BY <1>1 DEF IInv, Covered
  <2>2. ~ (k < marked /\ k = marked)
    BY <1>1 DEF IInv, Types
  <2> QED BY <1>1, <2>1, <2>2
<1>3. \A e \in dfa[k].next : e.range \in Keys(G) /\ groups[e.to] = Successor(G, e.range)
  BY <1>1 DEF IInv, Followed
<1>4. \A d, e \in ways : d = e
  <2> SUFFICES ASSUME NEW d \in ways, NEW e \in ways, d # e PROVE FALSE
    OBVIOUS
  <2>1. ~ Overlaps(d.range, e.range)
    BY <1>1 DEF IInv, NextApart
  <2>2. d.range \in CharRanges /\ e.range \in CharRanges
    <3>1. G \subseteq NFAStates /\ NFAOK
      BY <1>1 DEF IInv, Types
    <3>2. Keys(G) \subseteq CharRanges
      BY <3>1, KeysType
    <3> QED BY <1>3, <3>2
  <2>3. /\ d.range[1] \in Int /\ d.range[2] \in Int /\ e.range[1] \in Int /\ e.range[2] \in Int
        /\ c \in Int
    BY <2>2, WidthAssumption DEF CharRanges, Char, UNICODE_MAX
  <2> QED BY <2>1, <2>3 DEF Overlaps, Holds
<1>5. ways = {} <=> \A e \in Edges(G) : ~ Holds(e.range, c)
  <2>1. ASSUME ways = {}, NEW e \in Edges(G), Holds(e.range, c) PROVE FALSE
    <3>1. e.range \in Keys(G)
      BY DEF Keys
    <3> QED BY <1>2, <2>1, <3>1
  <2>2. ASSUME NEW e \in ways PROVE \E d \in Edges(G) : Holds(d.range, c)
    BY <1>3 DEF Keys
  <2> QED BY <2>1, <2>2
<1>6. ASSUME NEW e \in ways PROVE groups[e.to] = Reached(G, c)
  <2>1. \A d \in Edges(G) : d.range = e.range <=> Holds(d.range, c)
    <3> SUFFICES ASSUME NEW d \in Edges(G), Holds(d.range, c) PROVE d.range = e.range
      OBVIOUS
    <3>1. d.range \in Keys(G)
      BY DEF Keys
    <3>2. PICK f \in dfa[k].next : f.range = d.range
      BY <1>2, <3>1
    <3>3. f = e
      BY <1>4, <3>2
    <3> QED BY <3>2, <3>3
  <2>2. {d \in Edges(G) : d.range = e.range} = {d \in Edges(G) : Holds(d.range, c)}
    BY <2>1
  <2>3. Successor(G, e.range) = Reached(G, c)
    BY <2>2, Zenon DEF Successor, Reached
  <2> QED BY <1>3, <2>3
<1> QED BY <1>4, <1>5, <1>6

\* SubsetsExact, for every NFA: as long as no assertion fails, to_dfa gives each state of
\* the DFA the successor that stands for what the character leads to.
THEOREM Subsets == ConvertSpec => []SubsetsExact
BY Invariance, Exactness, PTL

\* assert(generated_states.find(group) == generated_states.end()) (finite_automata.cpp:107):
\* no set of NFA states becomes two states of the DFA.
GroupsDistinct == \A j, k \in 1 .. Len(groups) : groups[j] = groups[k] => j = k

\* The assertion at finite_automata.cpp:107 holds.
THEOREM Distinct == ConvertSpec => []GroupsDistinct
<1>1. ConvertInit => GroupsDistinct
  BY DEF ConvertInit, NothingGenerated, GroupsDistinct
<1>2. IInv /\ GroupsDistinct /\ [Convert]_convertVars => GroupsDistinct'
  <2> SUFFICES ASSUME IInv, GroupsDistinct, [Convert]_convertVars PROVE GroupsDistinct'
    OBVIOUS
  <2>0. Len(groups) \in Nat /\ groups \in Seq(SUBSET NFAStates)
    BY DEF IInv, Types
  <2>1. CASE Start
    BY <2>1 DEF Start, GroupsDistinct
  <2>2. CASE FollowNew
    <3>1. PICK r \in pending :
            /\ \A k \in 1 .. Len(groups) : groups[k] # Successor(groups[marked], r)
            /\ groups' = Append(groups, Successor(groups[marked], r))
      BY <2>2 DEF FollowNew
    <3> DEFINE G == Successor(groups[marked], r)
    <3> HIDE DEF G
    <3>2. \A k \in 1 .. Len(groups) : groups[k] # G
      BY <3>1 DEF G
    <3>3. Len(groups') = Len(groups) + 1 /\ groups'[Len(groups) + 1] = G
          /\ \A k \in 1 .. Len(groups) : groups'[k] = groups[k]
      BY <2>0, <3>1 DEF G
    <3> QED BY <2>0, <3>2, <3>3 DEF GroupsDistinct
  <2>3. CASE UNCHANGED groups
    BY <2>3 DEF GroupsDistinct
  <2> QED BY <2>1, <2>2, <2>3 DEF Convert, Take, Abort, FollowKnown, Finish, convertVars
<1> QED BY <1>1, <1>2, Invariance, PTL DEF ConvertSpec
=============================================================================
