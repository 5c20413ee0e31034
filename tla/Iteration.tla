----------------------------- MODULE Iteration ------------------------------
(***************************************************************************)
(* Loops as recursive functions.  The models write a loop of the code as a *)
(* function of the number of passes: what there is before the first, and   *)
(* what one pass makes of it.  Such a function exists, whatever the pass   *)
(* is.  Step(p, s, i) is the state after pass i, which began in state s,   *)
(* of a loop over p; a module that proves something about a loop           *)
(* instantiates this one with its step.                                    *)
(***************************************************************************)
EXTENDS Integers, WellFoundedInduction, TLAPS

CONSTANT Step(_, _, _)

\* f holds the states of the first n passes of the loop over p that begins in s.
IsRun(f, p, s, n) == f = [i \in 0..n |-> IF i = 0 THEN s ELSE Step(p, f[i - 1], i)]

\* A set of numbers that has 0 and with every number the next has them all.
LEMMA SetInduction ==
  ASSUME NEW T, 0 \in T, \A n \in Nat : n \in T => n + 1 \in T
  PROVE  \A n \in Nat : n \in T
<1> DEFINE B == Nat \ T
<1>1. SUFFICES ASSUME B # {} PROVE FALSE
  OBVIOUS
<1>2. PICK R : IsWellFoundedOn(R, Nat) /\ R = {q \in Nat \X Nat : q[1] < q[2]}
  BY NatLessThanWellFounded DEF OpToRel
<1>3. PICK x \in B : \A y \in B : <<y, x>> \notin R
  <2>1. B \subseteq Nat
    OBVIOUS
  <2> HIDE DEF B
  <2> QED BY <2>1, <1>1, <1>2, WFMin, Zenon
<1>4. x \in Nat /\ x \notin T /\ x # 0 /\ x - 1 \in Nat
  BY <1>3
<1>5. x - 1 \notin T
  <2>1. x - 1 \in T => (x - 1) + 1 \in T
    BY <1>4
  <2>2. (x - 1) + 1 = x
    BY <1>4
  <2> QED BY <1>4, <2>1, <2>2
<1>6. x - 1 \in B
  BY <1>4, <1>5
<1>7. <<x - 1, x>> \in R
  <2>1. <<x - 1, x>> \in Nat \X Nat /\ x - 1 < x
    BY <1>4
  <2> QED BY <1>2, <2>1
<1> HIDE DEF B
<1> QED BY <1>3, <1>6, <1>7

\* A loop of any number of passes has states.
THEOREM RunExists ==
  ASSUME NEW p, NEW s, NEW n \in Nat
  PROVE  \E f : IsRun(f, p, s, n)
<1> DEFINE T == {m \in Nat : \E f : IsRun(f, p, s, m)}
<1>1. 0 \in T
  <2> DEFINE f == [i \in 0..0 |-> s]
  <2>1. IsRun(f, p, s, 0)
    BY DEF IsRun
  <2> QED BY <2>1
<1>2. ASSUME NEW m \in Nat, m \in T PROVE m + 1 \in T
  <2>1. PICK f : IsRun(f, p, s, m)
    BY <1>2
  <2> DEFINE g == [i \in 0..(m + 1) |-> IF i = 0 THEN s ELSE Step(p, f[i - 1], i)]
  <2>2. ASSUME NEW i \in 0..m PROVE g[i] = f[i]
    BY <2>1 DEF IsRun
  <2>3. ASSUME NEW i \in 0..(m + 1), i # 0 PROVE g[i - 1] = f[i - 1]
    <3>1. i - 1 \in 0..m
      BY <2>3
    <3> HIDE DEF g
    <3> QED BY <3>1, <2>2
  <2>4. ASSUME NEW i \in 0..(m + 1)
        PROVE (IF i = 0 THEN s ELSE Step(p, f[i - 1], i)) = (IF i = 0 THEN s ELSE Step(p, g[i - 1], i))
    <3> HIDE DEF g
    <3> QED BY <2>3
  <2> DEFINE h == g
  <2>5. /\ h = [i \in 0..(m + 1) |-> IF i = 0 THEN s ELSE Step(p, f[i - 1], i)]
        /\ \A i \in 0..(m + 1) : (IF i = 0 THEN s ELSE Step(p, f[i - 1], i))
                                  = (IF i = 0 THEN s ELSE Step(p, h[i - 1], i))
    BY <2>4
  <2>6. h = [i \in 0..(m + 1) |-> IF i = 0 THEN s ELSE Step(p, h[i - 1], i)]
    <3> HIDE DEF h
    <3> QED BY <2>5
  <2>7. IsRun(h, p, s, m + 1)
    <3> HIDE DEF h
    <3> QED BY <2>6 DEF IsRun
  <2> HIDE DEF g, h
  <2> QED BY <2>7
<1>3. \A m \in Nat : m \in T => m + 1 \in T
  BY <1>2
<1>4. \A m \in Nat : m \in T
  <2> HIDE DEF T
  <2> QED BY <1>1, <1>3, SetInduction
<1> QED BY <1>4

\* The states of a loop, one pass after the other.
THEOREM RunStates ==
  ASSUME NEW p, NEW s, NEW n \in Nat, NEW f, IsRun(f, p, s, n)
  PROVE  f[0] = s /\ \A i \in 1..n : f[i] = Step(p, f[i - 1], i)
<1>1. f[0] = s
  BY DEF IsRun
<1>2. ASSUME NEW i \in 1..n PROVE f[i] = Step(p, f[i - 1], i)
  <2>1. i \in 0..n /\ i # 0
    OBVIOUS
  <2> QED BY <2>1 DEF IsRun
<1> QED BY <1>1, <1>2
=============================================================================
