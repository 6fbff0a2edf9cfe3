----------------------------- MODULE LeastNumber -----------------------------
(***************************************************************************)
(* Induction over the natural numbers, as a fact about sets of them: what  *)
(* fails for some number fails for a least one.                            *)
(***************************************************************************)
EXTENDS Integers, WellFoundedInduction, TLAPS

(* Every set of natural numbers that is not empty has a least element. *)
THEOREM LeastElement ==
  ASSUME NEW T, T \subseteq Nat, T # {}
  PROVE  \E x \in T : \A y \in T : x <= y
<1> DEFINE R == OpToRel(<, Nat)
<1>1. IsWellFoundedOn(R, Nat)
  BY NatLessThanWellFounded
<1>2. \A y, x \in Nat : <<y, x>> \in R <=> y < x
  BY DEF OpToRel
<1> HIDE DEF R
<1>3. PICK x \in T : \A y \in T : ~ (<<y, x>> \in R)
  BY <1>1, WFMin
<1>4. \A y \in T : ~ (y < x) /\ y \in Nat
  BY <1>2, <1>3
<1>5. \A y \in T : x <= y
  BY <1>4
<1>6. QED
  BY <1>5

\* T has 0, and n + 1 whenever it has n below N
Inductive(T, N) == 0 \in T /\ \A n \in 0..N - 1 : n \in T => n + 1 \in T

(* A set of numbers that is inductive has all of them up to the bound. *)
THEOREM AllNumbers ==
  ASSUME NEW T, NEW N \in Nat, Inductive(T, N)
  PROVE  \A n \in 0..N : n \in T
<1> DEFINE Others == {n \in 0..N : n \notin T}
<1>1. SUFFICES ASSUME Others # {} PROVE FALSE
  OBVIOUS
<1>2. PICK m \in Others : \A n \in Others : m <= n
  <2>1. Others \subseteq Nat
    OBVIOUS
  <2> HIDE DEF Others
  <2>2. QED
    BY <1>1, <2>1, LeastElement
<1>3. m \in 0..N /\ m \notin T /\ m # 0
  BY <1>2 DEF Inductive
<1>4. m - 1 \in 0..N - 1 /\ m - 1 \notin Others
  BY <1>2, <1>3
<1>5. m - 1 \in T /\ m - 1 + 1 = m
  BY <1>3, <1>4
<1>6. QED
  BY <1>3, <1>4, <1>5 DEF Inductive

\* f has e at 0, and at n what step n makes of its value before
Repeats(f, e, step, N) == f = [n \in 0..N |-> IF n = 0 THEN e ELSE step[n][f[n - 1]]]

(* What is done N times over, each time to what came of it before, has a   *)
(* result each time: the recursive function is there.                      *)
THEOREM Repetition ==
  ASSUME NEW V, NEW e \in V, NEW N \in Nat, NEW step, \A n \in 1..N : step[n] \in [V -> V]
  PROVE  \E f \in [0..N -> V] : Repeats(f, e, step, N)
<1> DEFINE T == {k \in 0..N : \E f \in [0..k -> V] : Repeats(f, e, step, k)}
<1>1. 0 \in T
  <2> DEFINE f == [n \in 0..0 |-> e]
  <2>1. f \in [0..0 -> V] /\ \A n \in 0..0 : n = 0
    OBVIOUS
  <2>2. f = [n \in 0..0 |-> IF n = 0 THEN e ELSE step[n][f[n - 1]]]
    BY <2>1
  <2>3. Repeats(f, e, step, 0)
    BY <2>2 DEF Repeats
  <2>4. QED
    BY <2>1, <2>3
<1>2. ASSUME NEW k \in 0..N - 1, k \in T PROVE k + 1 \in T
  <2>1. PICK f \in [0..k -> V] : Repeats(f, e, step, k)
    BY <1>2
  <2>2. \A n \in 0..k : f[n] = IF n = 0 THEN e ELSE step[n][f[n - 1]]
    BY <2>1 DEF Repeats
  <2> DEFINE g == [n \in 0..k + 1 |-> IF n <= k THEN f[n] ELSE step[k + 1][f[k]]]
  <2>3. f[k] \in V /\ k + 1 \in 1..N /\ k + 1 \in 0..N
    BY <2>1
  <2>4. step[k + 1][f[k]] \in V
    BY <2>3
  <2>5. g \in [0..k + 1 -> V]
    BY <2>1, <2>4
  <2>6. /\ DOMAIN g = 0..k + 1 /\ g = [n \in 0..k + 1 |-> g[n]]
        /\ \A n \in 0..k : g[n] = f[n]
        /\ g[k + 1] = step[k + 1][f[k]]
    OBVIOUS
  <2> HIDE DEF g
  <2>7. \A n \in 0..k + 1 : g[n] = IF n = 0 THEN e ELSE step[n][g[n - 1]]
    <3> SUFFICES ASSUME NEW n \in 0..k + 1 PROVE g[n] = IF n = 0 THEN e ELSE step[n][g[n - 1]]
      OBVIOUS
    <3>1. CASE n = k + 1
      <4>1. n # 0 /\ n - 1 = k /\ k \in 0..k
        BY <3>1
      <4>2. g[n - 1] = f[k]
        BY <2>6, <4>1
      <4>3. QED
        BY <2>6, <3>1, <4>1, <4>2
    <3>2. CASE n # k + 1 /\ n # 0
      <4>1. n \in 0..k /\ n - 1 \in 0..k
        BY <3>2
      <4>2. QED
        BY <2>2, <2>6, <3>2, <4>1
    <3>3. CASE n = 0
      <4>1. n \in 0..k
        BY <3>3
      <4>2. QED
        BY <2>2, <2>6, <3>3, <4>1
    <3>4. QED
      BY <3>1, <3>2, <3>3
  <2>8. g = [n \in 0..k + 1 |-> IF n = 0 THEN e ELSE step[n][g[n - 1]]]
    BY <2>6, <2>7
  <2>9. Repeats(g, e, step, k + 1)
    BY <2>8 DEF Repeats
  <2>10. QED
    BY <2>3, <2>5, <2>9
<1> HIDE DEF T
<1>3. Inductive(T, N)
  BY <1>1, <1>2 DEF Inductive
<1>4. N \in T
  BY <1>3, AllNumbers
<1>5. QED
  BY <1>4 DEF T
==============================================================================
