----------------------------- MODULE Recursions -----------------------------
(***************************************************************************)
(* Facts about numbers and functions that the proofs of the components     *)
(* share: induction for a set of numbers, the existence of a function that *)
(* is defined by recursion, and the sum of a sequence.                     *)
(***************************************************************************)
EXTENDS Integers, Sequences, SequenceTheorems, WellFoundedInduction, TLAPS

Less == {ss \in Nat \X Nat : ss[1] < ss[2]}

LEMMA Below == IsWellFoundedOn(Less, Nat)
BY NatLessThanWellFounded DEF OpToRel, Less

\* A set of numbers that has 0 and the next of each has all of them.
LEMMA Induction ==
  ASSUME NEW T, T \subseteq Nat, 0 \in T, \A n \in T : n + 1 \in T
  PROVE  T = Nat
<1> DEFINE U == Nat \ T
<1>1. SUFFICES ASSUME U # {} PROVE FALSE
  OBVIOUS
<1>2. PICK x \in U : \A y \in U : <<y, x>> \notin Less
  <2>1. U \subseteq Nat
    OBVIOUS
  <2> HIDE DEF U
  <2>2. QED
    BY <1>1, <2>1, Below, WFMin
<1>3. x \in Nat /\ x # 0
  OBVIOUS
<1>4. PICK y \in Nat : x = y + 1
  BY <1>3
<1>5. y \in U
  BY <1>4
<1>6. <<y, x>> \in Less
  BY <1>3, <1>4 DEF Less
<1>7. QED
  BY <1>2, <1>5, <1>6

LEMMA Minimum ==
  ASSUME NEW T, T \subseteq Nat, T # {}
  PROVE  \E m \in T : \A n \in T : m <= n
<1>1. PICK m \in T : \A n \in T : <<n, m>> \notin Less
  BY Below, WFMin
<1>2. ASSUME NEW n \in T PROVE m <= n
  <2>1. n \in Nat /\ m \in Nat
    OBVIOUS
  <2>2. ~(n < m)
    BY <1>1, <2>1 DEF Less
  <2>3. QED
    BY <2>1, <2>2
<1>3. QED
  BY <1>2

\* From a value b and a function step there is a function that begins with b
\* and goes on by step.
Iterates(f, n, b, step) ==
  /\ f[0] = b
  /\ \A k \in 0 .. n - 1 : f[k + 1] = step[k, f[k]]

LEMMA Iteration ==
  ASSUME NEW S, NEW b \in S, NEW step \in [Nat \X S -> S], NEW n \in Nat
  PROVE  \E f \in [0 .. n -> S] : Iterates(f, n, b, step)
<1> DEFINE T == {m \in Nat : \E f \in [0 .. m -> S] : Iterates(f, m, b, step)}
<1>1. 0 \in T
  <2> DEFINE f == [k \in 0 .. 0 |-> b]
  <2>1. f \in [0 .. 0 -> S] /\ f[0] = b
    OBVIOUS
  <2>2. Iterates(f, 0, b, step)
    BY <2>1 DEF Iterates
  <2>3. QED
    BY <2>1, <2>2
<1>2. ASSUME NEW m \in Nat, m \in T PROVE m + 1 \in T
  <2>1. PICK f \in [0 .. m -> S] : Iterates(f, m, b, step)
    BY <1>2
  <2>2. m \in Nat /\ m + 1 \in Nat
    OBVIOUS
  <2> HIDE DEF T
  <2>3. PICK x \in S : x = step[m, f[m]]
    <3>1. m \in 0 .. m
      BY <2>2
    <3>2. <<m, f[m]>> \in Nat \X S
      BY <2>1, <2>2, <3>1
    <3>3. QED
      BY <3>2
  <2> DEFINE g == [k \in 0 .. m + 1 |-> IF k <= m THEN f[k] ELSE x]
  <2>4. g \in [0 .. m + 1 -> S]
    <3>1. \A k \in 0 .. m + 1 : k <= m => f[k] \in S
      BY <2>1, <2>2
    <3>2. QED
      BY <2>3, <3>1
  <2>5. \A k \in 0 .. m : g[k] = f[k]
    BY <2>2
  <2>6. g[m + 1] = x
    BY <2>2
  <2>7. Iterates(g, m + 1, b, step)
    <3> HIDE DEF g
    <3>1. g[0] = b
      <4>1. f[0] = b
        BY <2>1 DEF Iterates
      <4>2. QED
        BY <2>2, <2>5, <4>1
    <3>2. \A k \in 0 .. m : g[k + 1] = step[k, g[k]]
      <4> TAKE k \in 0 .. m
      <4>1. CASE k = m
        BY <4>1, <2>2, <2>3, <2>5, <2>6
      <4>2. CASE k # m
        <5>1. k \in 0 .. m - 1 /\ k + 1 \in 0 .. m
          BY <4>2, <2>2
        <5>2. QED
          BY <5>1, <2>1, <2>5 DEF Iterates
      <4>3. QED
        BY <4>1, <4>2
    <3>3. QED
      <4>1. 0 .. (m + 1) - 1 = 0 .. m
        BY <2>2
      <4>2. QED
        BY <3>1, <3>2, <4>1, Zenon DEF Iterates
  <2>8. QED
    BY <2>2, <2>4, <2>7 DEF T
<1>3. T \subseteq Nat
  OBVIOUS
<1> HIDE DEF T
<1>4. T = Nat
  <2>1. \A m \in T : m + 1 \in T
    BY <1>2, <1>3
  <2>2. QED
    BY <1>1, <1>3, <2>1, Induction
<1>5. QED
  BY <1>4 DEF T
=============================================================================
