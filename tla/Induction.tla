------------------------------- MODULE Induction -------------------------------
(***************************************************************************)
(* Induction over the natural numbers as facts about sets and functions, so *)
(* that they can be cited with no operator to instantiate.                  *)
(***************************************************************************)
EXTENDS Integers, WellFoundedInduction, TLAPS

\* A set of natural numbers with an element has a least one.
LEMMA Least ==
  ASSUME NEW T, T \subseteq Nat, T # {}
  PROVE  \E n \in T : \A k \in T : n <= k
<1> DEFINE R == OpToRel(<, Nat)
<1>1. IsWellFoundedOn(R, Nat)  BY NatLessThanWellFounded
<1>2. R = {ss \in Nat \X Nat : ss[1] < ss[2]}  BY DEF OpToRel
<1> HIDE DEF R
<1>3. PICK n \in T : \A y \in T : ~ (<<y, n>> \in R)  BY <1>1, WFMin
<1>4. ASSUME NEW x \in Nat, NEW y \in Nat, y < x  PROVE <<y, x>> \in R
  <2> DEFINE z == <<y, x>>
  <2>1. z \in Nat \X Nat /\ z[1] = y /\ z[2] = x  OBVIOUS
  <2> HIDE DEF z
  <2>2. z[1] < z[2]  BY <2>1, <1>4
  <2>3. z \in R  BY <2>1, <2>2, <1>2
  <2> QED BY <2>3 DEF z
<1>5. ASSUME NEW k \in T  PROVE n <= k
  <2>1. n \in Nat /\ k \in Nat  OBVIOUS
  <2>2. ~ (k < n)  BY <1>3, <1>4, <2>1
  <2> QED BY <2>1, <2>2
<1> QED BY <1>5

\* A set that holds 0 and the successor of each of its numbers holds them all.
LEMMA NatSet ==
  ASSUME NEW S, 0 \in S, \A n \in Nat : n \in S => n + 1 \in S
  PROVE  Nat \subseteq S
<1> SUFFICES ASSUME Nat \ S # {} PROVE FALSE  OBVIOUS
<1>1. PICK n \in Nat \ S : \A k \in Nat \ S : n <= k  BY Least
<1>2. n # 0 /\ n - 1 \in Nat  BY <1>1
<1>3. n - 1 \in S  BY <1>1, <1>2
<1> QED BY <1>1, <1>2, <1>3

\* The same up to a bound.
LEMMA IntervalSet ==
  ASSUME NEW N \in Nat, NEW S, 0 \in S, \A n \in 0..N : n < N /\ n \in S => n + 1 \in S
  PROVE  0..N \subseteq S
<1> DEFINE U == S \cup {n \in Nat : n > N}
<1>1. 0 \in U  OBVIOUS
<1>2. \A n \in Nat : n \in U => n + 1 \in U  OBVIOUS
<1> HIDE DEF U
<1>3. Nat \subseteq U  BY <1>1, <1>2, NatSet
<1> QED BY <1>3 DEF U

\* f starts with a, and its k-th value is the k-th step of g from the one before.
Iterates(f, N, a, g) == f[0] = a /\ \A k \in 1..N : f[k] = g[k][f[k - 1]]

\* A recursive function over 0..N whose steps stay in X exists.
LEMMA RecursionExists ==
  ASSUME NEW N \in Nat, NEW X, NEW a \in X, NEW g \in [1..N -> [X -> X]]
  PROVE  \E f \in [0..N -> X] : Iterates(f, N, a, g)
<1> DEFINE Solves(f, n) == \A k \in 0..n : f[k] = IF k = 0 THEN a ELSE g[k][f[k - 1]]
           S == {n \in 0..N : \E f \in [0..n -> X] : Solves(f, n)}
<1>1. 0 \in S
  <2> DEFINE f == [k \in 0..0 |-> a]
  <2>1. f \in [0..0 -> X] /\ f[0] = a  OBVIOUS
  <2> HIDE DEF f
  <2>2. Solves(f, 0)  BY <2>1
  <2> QED BY <2>1, <2>2
<1>2. ASSUME NEW n \in 0..N, n < N, n \in S  PROVE n + 1 \in S
  <2>1. PICK f \in [0..n -> X] : Solves(f, n)  BY <1>2
  <2> DEFINE h == [k \in 0..(n + 1) |-> IF k = n + 1 THEN g[n + 1][f[n]] ELSE f[k]]
  <2>2. n + 1 \in 1..N /\ n \in 0..n /\ n + 1 \in 0..(n + 1) /\ n + 1 \in 0..N  BY <1>2
  <2>3. f[n] \in X  BY <2>2
  <2>4. g[n + 1] \in [X -> X]  BY <2>2
  <2>5. g[n + 1][f[n]] \in X  BY <2>3, <2>4
  <2>6. h \in [0..(n + 1) -> X]
    <3>1. ASSUME NEW k \in 0..(n + 1)
          PROVE (IF k = n + 1 THEN g[n + 1][f[n]] ELSE f[k]) \in X
      <4>1. CASE k = n + 1  BY <4>1, <2>5
      <4>2. CASE k # n + 1
        <5>1. k \in 0..n  BY <4>2, <1>2
        <5> QED BY <4>2, <5>1
      <4> QED BY <4>1, <4>2
    <3> QED BY <3>1
  <2>7. \A k \in 0..n : h[k] = f[k]  BY <1>2
  <2>8. h[n + 1] = g[n + 1][f[n]]  BY <2>2
  <2> HIDE DEF h
  <2>9. Solves(h, n + 1)
    <3> SUFFICES ASSUME NEW k \in 0..(n + 1)
                 PROVE  h[k] = IF k = 0 THEN a ELSE g[k][h[k - 1]]
      OBVIOUS
    <3>1. CASE k = n + 1
      <4>1. k # 0 /\ k - 1 = n  BY <3>1, <1>2
      <4>2. h[k - 1] = f[n]  BY <4>1, <2>2, <2>7
      <4> QED BY <3>1, <4>1, <4>2, <2>8
    <3>2. CASE k # n + 1
      <4>1. k \in 0..n /\ (k # 0 => k - 1 \in 0..n)  BY <3>2, <1>2
      <4>2. f[k] = IF k = 0 THEN a ELSE g[k][f[k - 1]]  BY <2>1, <4>1
      <4> QED BY <4>1, <4>2, <2>7
    <3> QED BY <3>1, <3>2
  <2> QED BY <2>2, <2>6, <2>9
<1> HIDE DEF S
<1>3. 0..N \subseteq S  BY <1>1, <1>2, IntervalSet
<1>4. N \in S  BY <1>3
<1>5. PICK f \in [0..N -> X] : Solves(f, N)  BY <1>4 DEF S
<1>6. f[0] = a
  <2>1. 0 \in 0..N  OBVIOUS
  <2> QED BY <1>5, <2>1
<1>7. ASSUME NEW k \in 1..N  PROVE f[k] = g[k][f[k - 1]]
  <2>1. k \in 0..N /\ k # 0  OBVIOUS
  <2> QED BY <1>5, <2>1
<1> QED BY <1>6, <1>7 DEF Iterates
=============================================================================
