--------------------------- MODULE RangeInduction ---------------------------
(***************************************************************************)
(* Induction and recursion over the indices of a loop, stated with sets    *)
(* and functions only, so that the provers can apply them: what a loop of  *)
(* the code computes is a recursive function in the models.                *)
(***************************************************************************)
EXTENDS Integers, WellFoundedInduction, TLAPS

\* A set of natural numbers has a least one.
LEMMA LeastNumber ==
  ASSUME NEW T, T \subseteq Nat, T # {}
  PROVE  \E x \in T : \A y \in T : x <= y
<1> DEFINE R == OpToRel(<, Nat)
<1>1. IsWellFoundedOn(R, Nat)
  BY NatLessThanWellFounded
<1>2. \A x, y \in Nat : y < x => <<y, x>> \in R
  BY DEF OpToRel
<1> HIDE DEF R
<1>3. PICK x \in T : \A y \in T : ~ (<<y, x>> \in R)
  BY <1>1, WFMin, Zenon
<1>4. x \in Nat /\ \A y \in T : y \in Nat /\ ~ (y < x)
  BY <1>2, <1>3, Zenon
<1>5. QED
  BY <1>4

\* What holds of 0 and is carried on from each number to the next holds of all.
LEMMA InductionOverRange ==
  ASSUME NEW n \in Nat, NEW T, 0 \in T,
         \A i \in 1..n : i - 1 \in T => i \in T
  PROVE  0..n \subseteq T
<1> DEFINE U == 0..n \ T
<1>1. SUFFICES ASSUME U # {} PROVE FALSE
  OBVIOUS
<1>2. PICK x \in U : \A y \in U : x <= y
  <2>1. U \subseteq Nat
    OBVIOUS
  <2> HIDE DEF U
  <2>2. QED
    BY <1>1, <2>1, LeastNumber, Zenon
<1>3. x # 0 /\ x \in 1..n /\ x - 1 \in 0..n
  BY <1>2
<1>4. x - 1 \in T
  BY <1>2, <1>3
<1>5. QED
  BY <1>2, <1>3, <1>4
-----------------------------------------------------------------------------
\* What each turn of a loop of n turns makes of the loop's locals.
LoopSteps(n, S) == [1..n -> [S -> S]]

\* The locals before the loop, which are s0, and after each turn.
IsCourse(g, n, S, s0, step) ==
  /\ g \in [0..n -> S]
  /\ g[0] = s0
  /\ \A i \in 1..n : g[i] = step[i][g[i - 1]]

\* A loop that starts with s0 and makes step[i] of what it has has a course.
LEMMA RecursionOverRange ==
  ASSUME NEW n \in Nat, NEW S, NEW s0 \in S, NEW step \in LoopSteps(n, S)
  PROVE  \E g : IsCourse(g, n, S, s0, step)
<1> USE DEF LoopSteps
<1> DEFINE Def(g, k) == g[0] = s0 /\ \A i \in 1..k : g[i] = step[i][g[i - 1]]
<1> DEFINE T == {k \in 0..n : \E g \in [0..k -> S] : Def(g, k)}
<1>1. 0 \in T
  <2> DEFINE h == [i \in 0..0 |-> s0]
  <2>1. h \in [0..0 -> S] /\ Def(h, 0) /\ 0 \in 0..n
    OBVIOUS
  <2> HIDE DEF h
  <2>2. QED
    BY <2>1
<1>2. ASSUME NEW k \in 1..n, k - 1 \in T PROVE k \in T
  <2>1. PICK g \in [0..k - 1 -> S] : Def(g, k - 1)
    BY <1>2
  <2> DEFINE last == step[k][g[k - 1]]
             h == [i \in 0..k |-> IF i = k THEN last ELSE g[i]]
  <2>2. last \in S
    <3>1. step[k] \in [S -> S] /\ g[k - 1] \in S
      OBVIOUS
    <3>2. QED
      BY <3>1
  <2>3. h \in [0..k -> S]
    <3>1. \A i \in 0..k : i # k => i \in 0..k - 1
      OBVIOUS
    <3> HIDE DEF last
    <3>2. \A i \in 0..k : i # k => g[i] \in S
      BY <3>1
    <3>3. QED
      BY <2>2, <3>2
  <2>4. h[0] = s0 /\ h[k] = last /\ \A i \in 0..k - 1 : h[i] = g[i]
    <3> HIDE DEF last
    <3>1. QED
      BY <2>1
  <2>5. \A i \in 1..k - 1 : h[i] = step[i][h[i - 1]]
    <3> SUFFICES ASSUME NEW i \in 1..k - 1 PROVE h[i] = step[i][h[i - 1]]
      OBVIOUS
    <3>1. i \in 0..k - 1 /\ i - 1 \in 0..k - 1
      OBVIOUS
    <3> HIDE DEF h
    <3>2. QED
      BY <2>1, <2>4, <3>1
  <2>6. Def(h, k)
    <3>1. k - 1 \in 0..k - 1 /\ \A i \in 1..k : i # k => i \in 1..k - 1
      OBVIOUS
    <3>2. h[k] = step[k][h[k - 1]]
      <4> HIDE DEF h
      <4>1. QED
        BY <2>4, <3>1
    <3> HIDE DEF h
    <3>3. QED
      BY <2>4, <2>5, <3>1, <3>2
  <2> HIDE DEF h
  <2>7. QED
    BY <2>3, <2>6
<1> HIDE DEF T
<1>3. \A k \in 1..n : k - 1 \in T => k \in T
  BY <1>2
<1>4. 0..n \subseteq T
  BY <1>1, <1>3, InductionOverRange, Zenon
<1>5. n \in T
  BY <1>4
<1>6. QED
  BY <1>5 DEF T, IsCourse
=============================================================================
