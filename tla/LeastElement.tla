---------------------------- MODULE LeastElement ----------------------------
(***************************************************************************)
(* Every nonempty set of natural numbers has a least element: the proofs   *)
(* about recursive functions argue by least counterexample.  What follows: *)
(* induction up to a bound, and functions iterated as often.               *)
(***************************************************************************)
EXTENDS Integers, FiniteSetTheorems, WellFoundedInduction, TLAPS

\* The initial segments below an element of T are finitely many, so one of them
\* contains no other.
LEMMA LeastNat ==
  ASSUME NEW T, T \subseteq Nat, T # {}
  PROVE  \E x \in T : \A y \in T : x <= y
<1>0. PICK b \in T : TRUE
  OBVIOUS
<1> DEFINE B == 0 .. b
           F == {0 .. n : n \in {m \in T : m <= b}}
           R == StrictSubsetOrdering(B)
<1>1. IsWellFoundedOn(R, SUBSET B)
  <2>1. IsFiniteSet(B)
    BY FS_Interval
  <2> HIDE DEF B, R
  <2>2. IsWellFoundedOn(StrictSubsetOrdering(B), FiniteSubsetsOf(B))
    BY FS_StrictSubsetOrderingWellFounded
  <2>3. FiniteSubsetsOf(B) = SUBSET B
    BY <2>1, FS_FiniteSubsetsOfFinite
  <2> QED BY <2>2, <2>3 DEF R
<1>2. F \subseteq SUBSET B /\ F # {}
  BY <1>0
<1>3. PICK X \in F : \A Y \in F : ~ (<<Y, X>> \in R)
  <2> HIDE DEF F, R
  <2> QED BY <1>1, <1>2, WFMin
<1>4. PICK n \in T : n <= b /\ X = 0 .. n
  BY <1>3
<1>5. \A m \in T : ~ (m < n)
  <2> SUFFICES ASSUME NEW m \in T, m < n PROVE FALSE
    OBVIOUS
  <2>1. 0 .. m \in F
    BY <1>0, <1>4
  <2>2. 0 .. m \subseteq 0 .. n /\ 0 .. m # 0 .. n
    BY <1>4
  <2>3. <<0 .. m, 0 .. n>> \in R
    BY <2>2, <1>0, <1>4, <2>1, <1>2 DEF StrictSubsetOrdering
  <2> QED BY <1>3, <1>4, <2>1, <2>3
<1> QED BY <1>4, <1>5

\* A set of numbers that holds 0 and, with each number, the next one.
LEMMA UpTo ==
  ASSUME NEW m \in Nat, NEW S, 0 \in S, \A n \in 1 .. m : n - 1 \in S => n \in S
  PROVE  0 .. m \subseteq S
<1> DEFINE T == (0 .. m) \ S
<1> SUFFICES ASSUME T # {} PROVE FALSE
  OBVIOUS
<1>1. PICK n \in T : \A k \in T : n <= k
  <2>1. T \subseteq Nat
    OBVIOUS
  <2> HIDE DEF T
  <2> QED BY <2>1, LeastNat
<1>2. n \in 1 .. m
  BY <1>1
<1>3. n - 1 \in 0 .. m /\ n - 1 \notin T
  BY <1>1, <1>2
<1> QED BY <1>1, <1>2, <1>3

\* The functions F take each set of D to the next one.
Leads(F, D, m) == \A n \in 1 .. m : \A x \in D[n - 1] : F[n][x] \in D[n]

\* f is what they make of a, step by step.
Iterates(f, a, F, D, m) ==
  /\ f = [n \in 0 .. m |-> f[n]]
  /\ f[0] = a
  /\ \A n \in 1 .. m : f[n - 1] \in D[n - 1] /\ f[n] = F[n][f[n - 1]]

\* Functions that lead from set to set can be applied one after the other.
LEMMA Iteration ==
  ASSUME NEW m \in Nat, NEW D, NEW F, NEW a \in D[0], Leads(F, D, m)
  PROVE  \E f : Iterates(f, a, F, D, m)
<1> DEFINE Made(f, k) == /\ f = [n \in 0 .. k |-> f[n]]
                         /\ f[0] = a
                         /\ \A n \in 0 .. k : f[n] \in D[n]
                         /\ \A n \in 1 .. k : f[n] = F[n][f[n - 1]]
           S == {k \in 0 .. m : \E f : Made(f, k)}
<1>0. \A n \in 1 .. m : \A x \in D[n - 1] : F[n][x] \in D[n]
  BY DEF Leads
<1>1. 0 \in S
  <2> DEFINE f == [n \in 0 .. 0 |-> a]
  <2>1. Made(f, 0)
    OBVIOUS
  <2> HIDE DEF f, Made
  <2> QED BY <2>1
<1>2. ASSUME NEW n \in 1 .. m, n - 1 \in S
      PROVE  n \in S
  <2>1. PICK f : Made(f, n - 1)
    BY <1>2
  <2> DEFINE g == [k \in 0 .. n |-> IF k = n THEN F[n][f[n - 1]] ELSE f[k]]
  <2>2. \A k \in 0 .. n - 1 : k \in 0 .. n /\ k # n
    OBVIOUS
  <2>3. \A k \in 0 .. n - 1 : g[k] = f[k]
    BY <2>2
  <2>4. n - 1 \in 0 .. n - 1 /\ 0 \in 0 .. n - 1 /\ n \in 0 .. n
    OBVIOUS
  <2>5. g[n] = F[n][f[n - 1]] /\ g = [k \in 0 .. n |-> g[k]]
    BY <2>4
  <2> HIDE DEF g
  <2>6. \A k \in 0 .. n : k = n \/ k \in 0 .. n - 1
    OBVIOUS
  <2>7. \A k \in 0 .. n : g[k] \in D[k]
    BY <1>0, <2>1, <2>3, <2>4, <2>5, <2>6
  <2>8. ASSUME NEW k \in 1 .. n PROVE g[k] = F[k][g[k - 1]]
    <3>1. CASE k = n
      BY <3>1, <2>3, <2>4, <2>5
    <3>2. CASE k # n
      <4>1. k \in 0 .. n - 1 /\ k - 1 \in 0 .. n - 1 /\ k \in 1 .. n - 1
        BY <3>2
      <4> QED BY <4>1, <2>1, <2>3
    <3> QED BY <3>1, <3>2
  <2>9. Made(g, n)
    BY <2>1, <2>3, <2>4, <2>5, <2>7, <2>8
  <2> HIDE DEF Made
  <2> QED BY <2>9
<1>3. m \in S
  <2> HIDE DEF S
  <2>1. 0 .. m \subseteq S
    BY <1>1, <1>2, UpTo
  <2> QED BY <2>1
<1>4. PICK f : Made(f, m)
  BY <1>3
<1>5. \A n \in 1 .. m : n - 1 \in 0 .. m
  OBVIOUS
<1> QED BY <1>4, <1>5 DEF Iterates
=============================================================================
