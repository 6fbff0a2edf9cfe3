-------------------------- MODULE LoDispatchProofs --------------------------
(***************************************************************************)
(* Theorems about LoDispatch: its invariants, what it calls and replies,   *)
(* and that the pointers implement the table of methods, for any number of *)
(* methods, any paths and any messages.                                    *)
(*                                                                         *)
(* The methods there are, Held, are a set of numbers, and all that is said *)
(* of pointers and lists is said by Following: the next number of a set.   *)
(* The invariant is that the pointers link the set (Linked), and where the *)
(* walk is in it (Position, Order, Reached).                               *)
(***************************************************************************)
EXTENDS LoDispatch, LeastNumber, FiniteSetTheorems, SequenceTheorems, TLAPS

-----------------------------------------------------------------------------
(* Methods in the order of their numbers. *)

Numbers(S) == \A x \in S : x \in Nat /\ x # Null

\* the least of S above m, Null when there is none
Following(S, m) ==
  IF \E x \in S : x > m THEN CHOOSE x \in S : x > m /\ \A y \in S : y > m => x <= y ELSE Null

\* f is the least of S above m, or Null
IsFollowing(f, S, m) ==
  \/ f = Null /\ \A x \in S : x <= m
  \/ f \in S /\ f > m /\ \A y \in S : y > m => f <= y

(* There is a least one, *)
LEMMA FollowingIs ==
  ASSUME NEW S, Numbers(S), NEW m \in Nat
  PROVE  IsFollowing(Following(S, m), S, m) /\ Following(S, m) \in Nat
<1>1. CASE \E x \in S : x > m
  <2> DEFINE T == {x \in S : x > m}
  <2>1. PICK f \in T : \A y \in T : f <= y
    <3>1. T \subseteq Nat /\ T # {}
      BY <1>1 DEF Numbers
    <3> HIDE DEF T
    <3>2. QED
      BY <3>1, LeastElement
  <2>2. f \in S /\ f > m /\ \A y \in S : y > m => f <= y
    BY <2>1
  <2>3. /\ Following(S, m) \in S /\ Following(S, m) > m
        /\ \A y \in S : y > m => Following(S, m) <= y
    BY <1>1, <2>2 DEF Following
  <2> HIDE DEF T
  <2>4. Following(S, m) \in Nat
    BY <2>3 DEF Numbers
  <2>5. QED
    BY <2>3, <2>4 DEF IsFollowing
<1>2. CASE ~ \E x \in S : x > m
  <2>1. Following(S, m) = Null
    BY <1>2 DEF Following
  <2>2. \A x \in S : x <= m
    BY <1>2 DEF Numbers
  <2>3. QED
    BY <2>1, <2>2 DEF IsFollowing, Null
<1>3. QED
  BY <1>1, <1>2

(* and only one. *)
LEMMA FollowingOnly ==
  ASSUME NEW S, Numbers(S), NEW m \in Nat, NEW f, IsFollowing(f, S, m)
  PROVE  Following(S, m) = f
<1> DEFINE g == Following(S, m)
<1>1. IsFollowing(g, S, m)
  BY FollowingIs
<1> HIDE DEF g
<1>2. CASE f = Null /\ \A x \in S : x <= m
  BY <1>1, <1>2 DEF IsFollowing, Numbers, g
<1>3. CASE f \in S /\ f > m /\ \A y \in S : y > m => f <= y
  <2>1. f \in Nat
    BY <1>3 DEF Numbers
  <2>2. g \in S /\ g > m /\ g <= f
    BY <1>1, <1>3, <2>1 DEF IsFollowing
  <2>3. g \in Nat /\ f <= g
    BY <1>3, <2>2 DEF Numbers
  <2>4. QED
    BY <2>1, <2>2, <2>3 DEF g
<1>4. QED
  BY <1>2, <1>3 DEF IsFollowing

(* One out: the one before it is followed by the one behind it. *)
LEMMA FollowingWithout ==
  ASSUME NEW S, Numbers(S), NEW d \in S, NEW m \in Nat, m # d
  PROVE  /\ Numbers(S \ {d})
         /\ Following(S \ {d}, m) = IF Following(S, m) = d THEN Following(S, d)
                                    ELSE Following(S, m)
<1> DEFINE f == Following(S, m)
           g == Following(S, d)
<1>1. IsFollowing(f, S, m) /\ IsFollowing(g, S, d) /\ d \in Nat
  BY FollowingIs DEF Numbers
<1>2. Numbers(S \ {d})
  BY DEF Numbers
<1> HIDE DEF f, g
<1>3. CASE f = d
  <2>1. d > m
    BY <1>1, <1>3 DEF IsFollowing, Numbers
  <2>2. IsFollowing(g, S \ {d}, m)
    <3>1. \A y \in S \ {d} : y \in Nat /\ (y > m => y > d)
      BY <1>1, <1>3, <2>1 DEF IsFollowing, Numbers
    <3>2. CASE g = Null /\ \A x \in S : x <= d
      <4>1. \A x \in S \ {d} : x <= m
        BY <3>1, <3>2, <1>1
      <4>2. QED
        BY <4>1, <3>2 DEF IsFollowing
    <3>3. CASE g \in S /\ g > d /\ \A y \in S : y > d => g <= y
      <4>1. g \in Nat
        BY <3>3 DEF Numbers
      <4>2. g # d /\ g > m
        BY <4>1, <3>3, <2>1, <1>1
      <4>3. QED
        BY <4>2, <3>1, <3>3 DEF IsFollowing
    <3>4. QED
      BY <1>1, <3>2, <3>3 DEF IsFollowing
  <2>3. QED
    BY <1>2, <1>3, <2>2, FollowingOnly DEF f, g
<1>4. CASE f # d
  <2>1. IsFollowing(f, S \ {d}, m)
    BY <1>1, <1>4 DEF IsFollowing
  <2>2. QED
    BY <1>2, <1>4, <2>1, FollowingOnly DEF f
<1>5. QED
  BY <1>3, <1>4

(* One more at the end: the last is followed by it. *)
LEMMA FollowingWith ==
  ASSUME NEW S, Numbers(S), NEW n \in Nat, \A x \in S : x < n, NEW m \in Nat, m < n
  PROVE  /\ Numbers(S \cup {n}) /\ Following(S \cup {n}, n) = Null
         /\ Following(S \cup {n}, m) = IF Following(S, m) # Null THEN Following(S, m) ELSE n
<1> DEFINE f == Following(S, m)
<1>1. IsFollowing(f, S, m)
  BY FollowingIs
<1>2. Numbers(S \cup {n})
  BY DEF Numbers, Null
<1>5. Following(S \cup {n}, n) = Null
  <2>1. IsFollowing(Null, S \cup {n}, n)
    BY DEF IsFollowing, Numbers
  <2>2. QED
    BY <1>2, <2>1, FollowingOnly
<1> HIDE DEF f
<1>3. CASE f = Null
  <2>1. \A x \in S : x <= m
    BY <1>1, <1>3 DEF IsFollowing, Numbers
  <2>2. IsFollowing(n, S \cup {n}, m)
    <3>1. \A y \in S \cup {n} : y > m => n <= y
      BY <2>1 DEF Numbers
    <3>2. QED
      BY <3>1 DEF IsFollowing
  <2>3. Following(S \cup {n}, m) = n
    BY <1>2, <2>2, FollowingOnly
  <2>4. QED
    BY <1>2, <1>3, <1>5, <2>3 DEF f
<1>4. CASE f # Null
  <2>1. f \in S /\ f > m /\ \A y \in S : y > m => f <= y
    BY <1>1, <1>4 DEF IsFollowing
  <2>2. f <= n
    BY <2>1 DEF Numbers
  <2>3. IsFollowing(f, S \cup {n}, m)
    BY <2>1, <2>2 DEF IsFollowing
  <2>4. Following(S \cup {n}, m) = f
    BY <1>2, <2>3, FollowingOnly
  <2>5. QED
    BY <1>2, <1>4, <1>5, <2>4 DEF f
<1>6. QED
  BY <1>3, <1>4

-----------------------------------------------------------------------------
(* Sequences in that order. *)

\* l is the n numbers of S in order
Orders(l, n, S) ==
  /\ n \in Nat /\ l \in [1..n -> S]
  /\ Following(S, 0) = IF n = 0 THEN Null ELSE l[1]
  /\ \A i \in 1..n : Following(S, l[i]) = IF i = n THEN Null ELSE l[i + 1]

(* It ascends, *)
LEMMA OrderAscends ==
  ASSUME NEW S, Numbers(S), NEW l, NEW n, Orders(l, n, S)
  PROVE  /\ n \in Nat /\ DOMAIN l = 1..n
         /\ \A i \in 1..n : l[i] \in S /\ l[i] \in Nat /\ l[i] # Null
         /\ \A i, j \in 1..n : i < j => l[i] < l[j]
<1>1. n \in Nat /\ DOMAIN l = 1..n /\ \A i \in 1..n : l[i] \in S
  BY DEF Orders
<1>2. \A i \in 1..n : l[i] \in Nat /\ l[i] # Null
  BY <1>1 DEF Numbers
<1>3. ASSUME NEW i \in 1..n - 1 PROVE l[i] < l[i + 1]
  <2>1. i \in 1..n /\ i + 1 \in 1..n /\ i # n
    BY <1>1
  <2>2. Following(S, l[i]) = l[i + 1]
    BY <2>1 DEF Orders
  <2>3. IsFollowing(l[i + 1], S, l[i])
    BY <1>2, <2>1, <2>2, FollowingIs
  <2>4. QED
    BY <1>2, <2>1, <2>3 DEF IsFollowing
<1> DEFINE T == {k \in 0..n : \A i, j \in 1..n : i < j /\ j <= k => l[i] < l[j]}
<1>4. 0 \in T
  BY <1>1
<1>5. ASSUME NEW k \in 0..n - 1, k \in T PROVE k + 1 \in T
  <2>1. SUFFICES ASSUME NEW i \in 1..n, NEW j \in 1..n, i < j, j <= k + 1 PROVE l[i] < l[j]
    BY <1>1
  <2>2. CASE j <= k
    BY <1>5, <2>1, <2>2
  <2>3. CASE j = k + 1
    <3>1. k \in 1..n - 1 /\ k \in 1..n /\ i <= k
      BY <1>1, <2>1, <2>3
    <3>2. l[k] < l[j]
      BY <1>3, <2>3, <3>1
    <3>3. i = k \/ l[i] < l[k]
      BY <1>5, <3>1
    <3>4. QED
      BY <1>2, <3>1, <3>2, <3>3
  <2>4. QED
    BY <1>1, <2>1, <2>2, <2>3
<1> HIDE DEF T
<1>6. Inductive(T, n)
  BY <1>4, <1>5 DEF Inductive
<1>7. n \in T
  BY <1>1, <1>6, AllNumbers
<1>8. QED
  BY <1>1, <1>2, <1>7 DEF T

(* has all of S, *)
LEMMA OrderCovers ==
  ASSUME NEW S, Numbers(S), NEW l, NEW n, Orders(l, n, S)
  PROVE  {l[i] : i \in 1..n} = S
<1>1. /\ n \in Nat /\ DOMAIN l = 1..n
      /\ \A i \in 1..n : l[i] \in S /\ l[i] \in Nat /\ l[i] # Null
  BY OrderAscends
<1> DEFINE T == {k \in 0..n : \A m \in S : (\E i \in 1..k : l[i] = m) \/ k = 0 \/ m > l[k]}
<1>2. SUFFICES ASSUME NEW m \in S PROVE \E i \in 1..n : l[i] = m
  BY <1>1
<1>3. 0 \in T
  BY <1>1
<1>4. ASSUME NEW k \in 0..n - 1, k \in T PROVE k + 1 \in T
  <2>1. k + 1 \in 0..n /\ k + 1 \in 1..n /\ n # 0
    BY <1>1
  <2>2. SUFFICES ASSUME NEW x \in S PROVE (\E i \in 1..k + 1 : l[i] = x) \/ x > l[k + 1]
    BY <2>1
  <2>3. x \in Nat /\ x # Null /\ x > 0
    BY DEF Numbers, Null
  <2>4. CASE k = 0
    <3>1. IsFollowing(l[1], S, 0)
      BY <2>1, FollowingIs DEF Orders
    <3>2. l[1] <= x
      BY <1>1, <2>1, <2>3, <2>4, <3>1 DEF IsFollowing
    <3>3. QED
      BY <1>1, <2>1, <2>3, <2>4, <3>2
  <2>5. CASE k # 0
    <3>1. k \in 1..n /\ k # n
      BY <1>1, <2>5
    <3>2. IsFollowing(l[k + 1], S, l[k])
      BY <1>1, <3>1, FollowingIs DEF Orders
    <3>3. (\E i \in 1..k : l[i] = x) \/ x > l[k]
      BY <1>4, <2>5
    <3>4. x > l[k] => l[k + 1] <= x
      BY <1>1, <2>1, <3>2 DEF IsFollowing
    <3>5. CASE \E i \in 1..k : l[i] = x
      BY <1>1, <3>5
    <3>6. CASE l[k + 1] <= x
      BY <1>1, <2>1, <2>3, <3>6
    <3>7. QED
      BY <3>3, <3>4, <3>5, <3>6
  <2>6. QED
    BY <2>4, <2>5
<1> HIDE DEF T
<1>5. Inductive(T, n)
  BY <1>3, <1>4 DEF Inductive
<1>6. n \in T
  BY <1>1, <1>5, AllNumbers
<1>7. CASE n = 0
  <2>1. Following(S, 0) = Null
    BY <1>1, <1>7 DEF Orders
  <2>2. IsFollowing(Null, S, 0)
    BY <2>1, FollowingIs
  <2>3. QED
    BY <2>2 DEF IsFollowing, Numbers, Null
<1>8. CASE n # 0
  <2>1. n \in 1..n /\ Following(S, l[n]) = Null
    BY <1>1, <1>8 DEF Orders
  <2>2. IsFollowing(Null, S, l[n])
    BY <1>1, <2>1, FollowingIs
  <2>3. m <= l[n] /\ m \in Nat /\ l[n] \in Nat
    BY <1>1, <2>1, <2>2 DEF IsFollowing, Numbers
  <2>4. QED
    BY <1>6, <1>8, <2>3 DEF T
<1>9. QED
  BY <1>7, <1>8

(* and begins as every other that has them,                               *)
LEMMA OrderBegins ==
  ASSUME NEW S, Numbers(S), NEW a, NEW n, Orders(a, n, S), NEW b, NEW m, Orders(b, m, S)
  PROVE  n <= m /\ \A i \in 1..n : a[i] = b[i]
<1>1. n \in Nat /\ m \in Nat /\ \A i \in 1..n : a[i] # Null
  BY OrderAscends
<1> DEFINE T == {k \in 0..n : k <= m /\ \A i \in 1..k : a[i] = b[i]}
<1>2. 0 \in T
  BY <1>1
<1>3. ASSUME NEW k \in 0..n - 1, k \in T PROVE k + 1 \in T
  <2>1. k + 1 \in 0..n /\ k + 1 \in 1..n /\ n # 0 /\ a[k + 1] # Null /\ k \in Nat
    BY <1>1
  <2>2. CASE k = 0
    <3>1. Following(S, 0) = a[1] /\ a[1] # Null
      BY <2>1, <2>2 DEF Orders
    <3>2. m # 0 /\ b[1] = a[1]
      BY <3>1 DEF Orders
    <3>3. QED
      BY <1>1, <2>1, <2>2, <3>2
  <2>3. CASE k # 0
    <3>1. k \in 1..n /\ k # n /\ k \in 1..m /\ a[k] = b[k]
      BY <1>1, <1>3, <2>3
    <3>2. Following(S, a[k]) = a[k + 1]
      BY <3>1 DEF Orders
    <3>3. k # m /\ b[k + 1] = a[k + 1]
      BY <2>1, <3>1, <3>2 DEF Orders
    <3>4. k + 1 <= m
      BY <1>1, <3>1, <3>3
    <3>5. QED
      BY <1>3, <2>1, <3>3, <3>4
  <2>4. QED
    BY <2>2, <2>3
<1> HIDE DEF T
<1>4. Inductive(T, n)
  BY <1>2, <1>3 DEF Inductive
<1>5. n \in T
  BY <1>1, <1>4, AllNumbers
<1>6. QED
  BY <1>5 DEF T

(* which is the same.                                                       *)
LEMMA OrderOnly ==
  ASSUME NEW S, Numbers(S), NEW a, NEW n, Orders(a, n, S), NEW b, NEW m, Orders(b, m, S)
  PROVE  a = b /\ n = m
<1>1. n <= m /\ m <= n /\ \A i \in 1..n : a[i] = b[i]
  BY OrderBegins
<1>2. n \in Nat /\ m \in Nat /\ a \in [1..n -> S] /\ b \in [1..m -> S]
  BY DEF Orders
<1>3. n = m
  BY <1>1, <1>2
<1>4. QED
  BY <1>1, <1>2, <1>3

-----------------------------------------------------------------------------
(* The list that the pointers make. *)

\* f goes along the pointers as ListFrom does
After(links) == [m \in 0..MaxMethods |-> IF m = Null THEN Null ELSE links[m]]
GoesAlong(f, head, links) ==
  f = [k \in 0..MaxMethods |-> IF k = 0 THEN head ELSE After(links)[f[k - 1]]]

(* Pointers that link the methods of H in order make the list of them.      *)
LEMMA ListIs ==
  ASSUME NEW H, H \subseteq 1..MaxMethods, NEW head, NEW links \in [1..MaxMethods -> 0..MaxMethods],
         head = Following(H, Null), \A m \in H : links[m] = Following(H, m)
  PROVE  /\ Numbers(H)
         /\ ListFrom(head, links) \in Seq(H)
         /\ Orders(ListFrom(head, links), Len(ListFrom(head, links)), H)
<1> DEFINE N == MaxMethods
           at == CHOOSE f : GoesAlong(f, head, links)
           step == [n \in 1..N |-> After(links)]
<1>1. N \in Nat
  BY DispatchAssumption
<1>2. Numbers(H)
  BY <1>1 DEF Numbers, Null
<1>3. After(links) \in [0..N -> 0..N]
  BY <1>1 DEF After, Null
<1>4. head \in 0..N
  BY <1>1, <1>2, FollowingIs DEF IsFollowing, Null
<1>5. PICK f \in [0..N -> 0..N] : Repeats(f, head, step, N)
  <2>1. \A n \in 1..N : step[n] \in [0..N -> 0..N]
    BY <1>3
  <2> HIDE DEF step, N
  <2>2. QED
    BY <1>1, <1>4, <2>1, Repetition
<1>6. GoesAlong(f, head, links)
  <2>1. \A k \in 0..N : k # 0 => k \in 1..N /\ step[k] = After(links)
    BY <1>1
  <2>2. f = [k \in 0..N |-> f[k]]
    BY <1>5
  <2>3. \A k \in 0..N : f[k] = IF k = 0 THEN head ELSE step[k][f[k - 1]]
    <3> HIDE DEF step, N
    <3>1. QED
      BY <1>5 DEF Repeats
  <2> HIDE DEF step
  <2>4. QED
    BY <2>1, <2>2, <2>3 DEF GoesAlong
<1>7. GoesAlong(at, head, links)
  BY <1>6
<1>8. ListFrom(head, links) = [i \in 1..Cardinality({k \in 0..N : at[k] # Null}) |-> at[i - 1]]
  BY DEF ListFrom, GoesAlong, After
<1> HIDE DEF at, step
<1>9. \A k \in 0..N : at[k] = IF k = 0 THEN head ELSE After(links)[at[k - 1]]
  BY <1>7 DEF GoesAlong
<1>10. \A k \in 0..N : k # 0 => k - 1 \in 0..N /\ at[k] = After(links)[at[k - 1]]
  BY <1>1, <1>9
<1>11. \A m \in 0..N : After(links)[m] = IF m = Null THEN Null ELSE links[m]
  BY DEF After
<1>11a. After(links)[Null] = Null /\ N \in 0..N /\ H \subseteq 0..N
  <2>1. Null \in 0..N
    BY <1>1 DEF Null
  <2>2. QED
    BY <1>1, <1>11, <2>1
<1> HIDE DEF N
<1> DEFINE T == {k \in 0..N : at[k] = Null \/ (at[k] \in H /\ at[k] > k)}
<1>12. 0 \in T
  <2>1. at[0] = Following(H, 0) /\ 0 \in 0..N
    BY <1>1, <1>9 DEF Null
  <2>2. IsFollowing(at[0], H, 0)
    BY <1>2, <2>1, FollowingIs
  <2>3. QED
    BY <2>1, <2>2 DEF IsFollowing
<1>13. ASSUME NEW k \in 0..N - 1, k \in T PROVE k + 1 \in T
  <2>1. k + 1 \in 0..N /\ k + 1 # 0 /\ k + 1 - 1 = k /\ k \in Nat
    BY <1>1
  <2>2. at[k + 1] = After(links)[at[k]]
    BY <1>10, <2>1
  <2>3. CASE at[k] = Null
    BY <1>11a, <2>1, <2>2, <2>3
  <2>4. CASE at[k] \in H /\ at[k] > k
    <3>1. at[k] \in Nat /\ at[k] # Null /\ at[k] \in 0..N
      BY <1>2, <1>11a, <2>4 DEF Numbers
    <3>2. at[k + 1] = Following(H, at[k])
      BY <1>11, <2>2, <2>4, <3>1
    <3>3. IsFollowing(at[k + 1], H, at[k])
      BY <1>2, <3>1, <3>2, FollowingIs
    <3>4. at[k + 1] = Null \/ (at[k + 1] \in H /\ at[k + 1] > at[k])
      BY <3>3 DEF IsFollowing
    <3>5. at[k + 1] \in H => at[k + 1] \in Nat
      BY <1>2 DEF Numbers
    <3>6. QED
      BY <2>1, <2>4, <3>1, <3>4, <3>5
  <2>5. QED
    BY <1>13, <2>3, <2>4
<1>14. \A k \in 0..N : at[k] = Null \/ (at[k] \in H /\ at[k] > k)
  <2> HIDE DEF T
  <2>1. Inductive(T, N)
    BY <1>12, <1>13 DEF Inductive
  <2>2. \A k \in 0..N : k \in T
    BY <1>1, <2>1, AllNumbers
  <2>3. QED
    BY <2>2 DEF T
<1> HIDE DEF T
<1> DEFINE E == {k \in 0..N : at[k] = Null}
<1>15. PICK n \in E : \A k \in E : n <= k
  <2>1. N \in 0..N /\ ~ (at[N] \in H /\ at[N] > N)
    <3>1. at[N] \in H => at[N] \in 0..N
      BY <1>11a
    <3>2. QED
      BY <1>1, <1>11a, <3>1
  <2>2. N \in E
    BY <1>14, <2>1
  <2>3. E \subseteq Nat /\ E # {}
    BY <1>1, <2>2
  <2> HIDE DEF E
  <2>4. QED
    BY <2>3, LeastElement
<1>16. n \in 0..N /\ n \in Nat /\ at[n] = Null /\ \A k \in 0..n - 1 : k \in 0..N /\ at[k] # Null
  <2>1. n \in 0..N /\ at[n] = Null /\ \A k \in 0..N : at[k] = Null => n <= k
    BY <1>15
  <2>2. n \in Nat /\ \A k \in 0..n - 1 : k \in 0..N /\ ~ (n <= k)
    BY <1>1, <2>1
  <2>3. QED
    BY <2>1, <2>2
<1> HIDE DEF E
<1> DEFINE L == {k \in 0..N : k < n \/ at[k] = Null}
<1>17. \A k \in 0..N : k \in L
  <2>1. 0 \in L
    BY <1>1, <1>16
  <2>2. ASSUME NEW k \in 0..N - 1, k \in L PROVE k + 1 \in L
    <3>1. k + 1 \in 0..N /\ k + 1 # 0 /\ k + 1 - 1 = k
      BY <1>1
    <3>2. CASE k < n
      BY <1>16, <3>1, <3>2
    <3>3. CASE at[k] = Null
      BY <1>10, <1>11a, <3>1, <3>3
    <3>4. QED
      BY <2>2, <3>2, <3>3
  <2> HIDE DEF L
  <2>3. Inductive(L, N)
    BY <2>1, <2>2 DEF Inductive
  <2>4. QED
    BY <1>1, <2>3, AllNumbers
<1>18. {k \in 0..N : at[k] # Null} = 0..n - 1
  BY <1>16, <1>17
<1> HIDE DEF L
<1>19. Cardinality(0..n - 1) = n
  BY <1>16, FS_Interval
<1> DEFINE l == [i \in 1..n |-> at[i - 1]]
<1>20. ListFrom(head, links) = l
  BY <1>8, <1>18, <1>19 DEF N
<1>21. \A i \in 1..n : i - 1 \in 0..N /\ l[i] = at[i - 1] /\ at[i - 1] \in H /\ at[i - 1] # Null
  BY <1>14, <1>16
<1>22. l \in Seq(H) /\ Len(l) = n /\ l \in [1..n -> H]
  BY <1>16, <1>21
<1>23. Following(H, 0) = IF n = 0 THEN Null ELSE l[1]
  <2>1. Following(H, 0) = at[0]
    BY <1>1, <1>9 DEF Null
  <2>2. n # 0 => 1 \in 1..n /\ 1 - 1 = 0
    BY <1>16
  <2> HIDE DEF l
  <2>3. QED
    BY <1>16, <1>21, <2>1, <2>2
<1>24. ASSUME NEW i \in 1..n PROVE Following(H, l[i]) = IF i = n THEN Null ELSE l[i + 1]
  <2>1. l[i] = at[i - 1] /\ at[i - 1] \in H /\ at[i - 1] # Null /\ at[i - 1] \in 0..N
    BY <1>21, <1>11a
  <2>2. i \in 0..N /\ i # 0 /\ (i # n => i + 1 \in 1..n /\ i + 1 - 1 = i)
    BY <1>16
  <2>3. Following(H, l[i]) = at[i]
    BY <1>10, <1>11, <2>1, <2>2
  <2> HIDE DEF l
  <2>4. QED
    BY <1>16, <1>21, <2>2, <2>3
<1> HIDE DEF l
<1>25. Orders(l, n, H)
  BY <1>16, <1>22, <1>23, <1>24 DEF Orders
<1>26. QED
  BY <1>2, <1>20, <1>22, <1>25

-----------------------------------------------------------------------------
(* The inductive invariant. *)

(* The methods that are added and not deleted. *)
Held == {m \in 1..MaxMethods : method[m] # NoMethod}

(* The pointers link them in the order in which they were added. *)
Linked == first = Following(Held, Null) /\ \A m \in Held : next[m] = Following(Held, m)

(* The walk is at a method that is there, and a handler was called for it. *)
Position ==
  /\ pc = "idle" => it = Null /\ ret = 1 /\ argv /\ calls = << >>
  /\ pc # "idle" => msg \in Messages
  /\ it # Null => it \in Held
  /\ pc = "handler" => it # Null /\ Takes(it) /\ calls # << >> /\ Last(calls).method = it
  /\ pc \in {"enumerate", "crashed"} => it = Null
  /\ pc = "enumerate" => Enumerates

(* The methods called are those before the walk, in order, and the walk    *)
(* went on from a plain path only when they did not take it.               *)
Order ==
  /\ \A i, j \in DOMAIN calls : i < j => calls[i].method < calls[j].method
  /\ pc = "walk" /\ it # Null => \A i \in DOMAIN calls : calls[i].method < it
  /\ \A i \in 1..Len(calls) - 1 : calls[i].ret = 0 => IsPattern(msg.path)
  /\ pc = "walk" /\ it # Null /\ calls # << >> => ~ Breaks(Last(calls).ret)
  /\ pc \in {"walk", "enumerate"} /\ calls # << >> => Last(calls).ret = ret

(* Every method that takes the message was called, is still ahead, or comes *)
(* after the one that took it.                                              *)
Taken == it = Null /\ calls # << >> /\ Breaks(Last(calls).ret)

Reached ==
  pc \in {"walk", "handler"} =>
    \A m \in Held : Takes(m) => \/ m \in Called
                                \/ it # Null /\ m >= it
                                \/ Taken /\ m > Last(calls).method

IInv == TypeOK /\ Linked /\ Position /\ Order /\ Reached

(* The methods there are, their numbers and their records.                  *)
LEMMA HeldIs ==
  ASSUME TypeOK
  PROVE  /\ MaxMethods \in Nat /\ added \in Nat
         /\ Held \subseteq 1..MaxMethods /\ Held \subseteq 1..added /\ Numbers(Held)
         /\ \A m \in Held : method[m] \in [path : Paths, types : Specs]
<1>1. MaxMethods \in Nat /\ added \in Nat
  BY DispatchAssumption DEF TypeOK
<1>2. \A m \in Held : /\ m \in 1..MaxMethods /\ m <= added
                      /\ method[m] \in [path : Paths, types : Specs]
  BY DEF TypeOK, Held
<1>3. Numbers(Held)
  BY <1>1, <1>2 DEF Numbers, Null
<1>4. QED
  BY <1>1, <1>2, <1>3

(* The list has all of them, in order.                                      *)
LEMMA ListNow ==
  ASSUME TypeOK, Linked
  PROVE  /\ List \in Seq(Held) /\ Len(List) \in Nat /\ Orders(List, Len(List), Held)
         /\ Registered = Held
<1>1. Held \subseteq 1..MaxMethods /\ Numbers(Held)
  BY HeldIs
<1>2. next \in [1..MaxMethods -> 0..MaxMethods]
  BY HeldIs DEF TypeOK
<1>3. List \in Seq(Held) /\ Orders(List, Len(List), Held)
  BY <1>1, <1>2, ListIs DEF Linked, List
<1>4. DOMAIN List = 1..Len(List) /\ Len(List) \in Nat
  BY <1>3
<1>5. {List[i] : i \in 1..Len(List)} = Held
  BY <1>1, <1>3, OrderCovers
<1>6. Registered = {List[i] : i \in DOMAIN List}
  BY DEF Registered, ToSet
<1>7. QED
  BY <1>3, <1>4, <1>5, <1>6

-----------------------------------------------------------------------------
(* Methods are added and deleted. *)

(* The last of the list is the one that no other follows.                   *)
LEMMA LastOfList ==
  ASSUME TypeOK, Linked, first # Null
  PROVE  /\ Last(List) \in Held /\ Following(Held, Last(List)) = Null
         /\ \A m \in Held : m # Last(List) => Following(Held, m) # Null
<1> DEFINE l == List
           n == Len(List)
<1>1. n \in Nat /\ Orders(l, n, Held) /\ Numbers(Held)
  BY ListNow, HeldIs
<1>2. Last(List) = l[n]
  BY DEF Last
<1> HIDE DEF l, n
<1>3. n # 0
  <2>1. Following(Held, 0) # Null
    BY DEF Linked, Null
  <2>2. QED
    BY <1>1, <2>1 DEF Orders
<1>4. n \in 1..n /\ l[n] \in Held /\ Following(Held, l[n]) = Null
  BY <1>1, <1>3 DEF Orders
<1>5. ASSUME NEW m \in Held, m # l[n] PROVE Following(Held, m) # Null
  <2>1. PICK i \in 1..n : l[i] = m
    <3>1. m \in {l[i] : i \in 1..n}
      BY <1>1, OrderCovers
    <3>2. QED
      BY <3>1
  <2>2. i # n /\ i + 1 \in 1..n
    BY <1>1, <1>5, <2>1
  <2>3. Following(Held, m) = l[i + 1]
    BY <1>1, <2>1, <2>2 DEF Orders
  <2>5. l[i + 1] # Null
    BY <1>1, <2>2, OrderAscends
  <2>4. QED
    BY <2>3, <2>5
<1>6. QED
  BY <1>2, <1>4, <1>5

(* A method is added at the end.                                            *)
LEMMA AddLinks ==
  ASSUME TypeOK, Linked, NEW path \in Paths, NEW types \in Specs, Add(path, types)
  PROVE  /\ Held' = Held \cup {added'} /\ added' \in Nat /\ \A m \in Held : m < added'
         /\ method'[added'] = [path |-> path, types |-> types]
         /\ \A m \in Held : method'[m] = method[m]
         /\ Linked' /\ TypeOK'
<1> DEFINE n == added + 1
           new == [path |-> path, types |-> types]
<1>1. added' = n /\ added < MaxMethods /\ method' = [method EXCEPT ![n] = new]
  BY DEF Add
<1>2. /\ MaxMethods \in Nat /\ added \in Nat /\ Held \subseteq 1..added
      /\ Held \subseteq 1..MaxMethods /\ Numbers(Held)
  BY HeldIs
<1>3. n \in 1..MaxMethods /\ n \in Nat /\ \A m \in Held : m < n /\ m # n /\ m \in Nat
  BY <1>1, <1>2
<1>4. new # NoMethod /\ new \in [path : Paths, types : Specs]
  BY DispatchAssumption
<1> HIDE DEF n, new
<1>5. \A m \in 1..MaxMethods : method'[m] = IF m = n THEN new ELSE method[m]
  <2>1. DOMAIN method = 1..MaxMethods
    BY DEF TypeOK
  <2>2. QED
    BY <1>1, <2>1
<1>6. Held' = Held \cup {n}
  BY <1>3, <1>4, <1>5 DEF Held
<1>7. Following(Held, n) = Null /\ Following(Held', n) = Null /\ next[n] = Null
  <2>1. IsFollowing(Null, Held, n)
    BY <1>3 DEF IsFollowing
  <2>2. next[n] = Null
    <3>1. next[n] \in 0..added /\ (next[n] # Null => next[n] > n)
      BY <1>3 DEF TypeOK
    <3>2. QED
      BY <1>2, <3>1 DEF n
  <2>3. Following(Held, n) = Null
    BY <1>2, <1>3, <2>1, FollowingOnly
  <2>4. Following(Held', n) = Null
    <3>1. \A x \in Held : x < n
      BY <1>3
    <3>2. 0 \in Nat /\ 0 < n
      BY <1>2 DEF n
    <3>3. Following(Held \cup {n}, n) = Null
      BY <1>2, <1>3, <3>1, <3>2, FollowingWith
    <3>4. QED
      BY <1>6, <3>3
  <2>5. QED
    BY <2>2, <2>3, <2>4
<1>8. ASSUME NEW m \in Nat, m < n
      PROVE  Following(Held', m) = IF Following(Held, m) # Null THEN Following(Held, m) ELSE n
  BY <1>2, <1>3, <1>6, <1>8, FollowingWith
<1> DEFINE Links == /\ first' \in 0..n /\ next' \in [1..MaxMethods -> 0..n]
                    /\ \A m \in 1..MaxMethods : next'[m] # Null => next'[m] > m
<1>9. ASSUME first = Null PROVE Linked' /\ Links
  <2>1. first' = n /\ next' = next
    BY <1>1, <1>9 DEF Add
  <2>2. Held = {}
    <3>1. IsFollowing(Null, Held, 0)
      BY <1>2, <1>9, FollowingIs DEF Linked, Null
    <3>2. QED
      BY <1>2, <3>1 DEF IsFollowing, Numbers, Null
  <2>3. Following(Held', Null) = n
    <3>1. Following(Held, Null) = Null
      BY <1>9 DEF Linked
    <3>2. Null \in Nat /\ Null < n
      BY <1>2 DEF Null, n
    <3>3. QED
      BY <1>8, <3>1, <3>2
  <2>4. Linked'
    BY <1>6, <1>7, <2>1, <2>2, <2>3 DEF Linked
  <2>5. Links
    <3>1. next \in [1..MaxMethods -> 0..n]
      BY <1>2 DEF TypeOK, n
    <3>2. QED
      BY <1>3, <2>1, <3>1 DEF TypeOK
  <2>6. QED
    BY <2>4, <2>5
<1>10. ASSUME first # Null PROVE Linked' /\ Links
  <2> DEFINE l == Last(List)
  <2>1. first' = first /\ next' = [next EXCEPT ![l] = n]
    BY <1>1, <1>10 DEF Add
  <2>2. /\ l \in Held /\ Following(Held, l) = Null
        /\ \A m \in Held : m # l => Following(Held, m) # Null
    BY <1>10, LastOfList
  <2> HIDE DEF l
  <2>3. next \in [1..MaxMethods -> 0..added] /\ l \in 1..MaxMethods /\ l < n /\ l # n
    BY <1>2, <1>3, <2>2 DEF TypeOK
  <2>4. \A m \in 1..MaxMethods : next'[m] = IF m = l THEN n ELSE next[m]
    BY <2>1, <2>3
  <2>5. ASSUME NEW m \in Held' PROVE next'[m] = Following(Held', m)
    <3>1. m \in 1..MaxMethods /\ n # l
      BY <1>2, <1>3, <1>6, <2>3
    <3>2. CASE m = n
      BY <1>7, <2>4, <3>1, <3>2
    <3>3. CASE m # n
      <4>1. m \in Held /\ m \in Nat /\ m < n /\ next[m] = Following(Held, m)
        BY <1>3, <1>6, <3>3 DEF Linked
      <4>2. QED
        BY <1>8, <2>2, <2>4, <3>1, <4>1
    <3>4. QED
      BY <3>2, <3>3
  <2>6. first' = Following(Held', Null)
    <3>1. Following(Held, Null) = first /\ first # Null
      BY <1>10 DEF Linked
    <3>2. Null \in Nat /\ Null < n
      BY <1>2 DEF Null, n
    <3>3. QED
      BY <1>8, <2>1, <3>1, <3>2
  <2>7. Linked'
    BY <2>5, <2>6 DEF Linked
  <2>8. Links
    <3>1. next \in [1..MaxMethods -> 0..n] /\ n \in 0..n /\ first \in 0..n
      BY <1>2 DEF TypeOK, n
    <3>2. next' \in [1..MaxMethods -> 0..n]
      BY <2>1, <3>1
    <3>3. \A m \in 1..MaxMethods : next[m] # Null => next[m] > m
      BY DEF TypeOK
    <3>4. QED
      BY <2>1, <2>3, <2>4, <3>1, <3>2, <3>3
  <2>9. QED
    BY <2>7, <2>8
<1>11. TypeOK'
  <2>1. UNCHANGED <<pc, msg, it, ret, argv, calls, reply>>
    BY DEF Add, walkVars
  <2>2. n \in 0..MaxMethods
    BY <1>3
  <2>3. method' \in [1..MaxMethods -> [path : Paths, types : Specs] \cup {NoMethod}]
    BY <1>1, <1>3, <1>4 DEF TypeOK
  <2>4. \A m \in 1..MaxMethods : method'[m] # NoMethod => m <= n
    <3>1. \A m \in 1..MaxMethods : method[m] # NoMethod => m <= added
      BY DEF TypeOK
    <3>2. QED
      BY <1>2, <1>5, <3>1 DEF n
  <2>5. it \in 0..n
    BY <1>2 DEF TypeOK, n
  <2>6. calls \in Seq([method : 1..n, argv : BOOLEAN, ret : 0..3])
    <3>1. [method : 1..added, argv : BOOLEAN, ret : 0..3] \subseteq [method : 1..n, argv : BOOLEAN, ret : 0..3]
      BY <1>2 DEF n
    <3>2. calls \in Seq([method : 1..added, argv : BOOLEAN, ret : 0..3])
      BY DEF TypeOK
    <3> DEFINE C == [method : 1..added, argv : BOOLEAN, ret : 0..3]
               D == [method : 1..n, argv : BOOLEAN, ret : 0..3]
    <3> HIDE DEF C, D
    <3>3. C \subseteq D /\ calls \in Seq(C) => calls \in Seq(D)
      OBVIOUS
    <3>4. QED
      BY <3>1, <3>2, <3>3 DEF C, D
  <2>7. Links
    BY <1>9, <1>10
  <2>8. QED
    BY <1>1, <2>1, <2>2, <2>3, <2>4, <2>5, <2>6, <2>7 DEF TypeOK
<1>12. QED
  BY <1>1, <1>3, <1>5, <1>6, <1>9, <1>10, <1>11 DEF new

\* the variables of the deletion's loop
Loop == [first : 0..added, next : [1..MaxMethods -> 0..added], prev : 0..added]

\* they link the methods of K; links: the pointers before
Links(w, K, links) ==
  /\ w.first = Following(K, Null)
  /\ \A m \in 1..MaxMethods : w.next[m] = IF m \in K THEN Following(K, m) ELSE links[m]

\* the loop is at m, and the method before it, or the head of the list, has a pointer to it
Before(w, K, m) == w.first = m \/ (w.prev \in K /\ Following(K, w.prev) = m)

(* The method at the loop is taken out of the list, and the others stay.    *)
LEMMA UnlinkIs ==
  ASSUME NEW K, Numbers(K), K \subseteq 1..MaxMethods, NEW w \in Loop, NEW links, NEW m \in K,
         Links(w, K, links), Before(w, K, m), links[m] = Following(K, m)
  PROVE  /\ Unlink(w, m) \in Loop
         /\ Links(Unlink(w, m), K \ {m}, links)
         /\ Following(K, m) # Null => Before(Unlink(w, m), K \ {m}, Following(K, m))
<1> DEFINE J == K \ {m}
           u == Unlink(w, m)
           f == Following(K, m)
<1>1. /\ Numbers(J)
      /\ \A x \in Nat : x # m =>
           Following(J, x) = IF Following(K, x) = m THEN f ELSE Following(K, x)
  BY FollowingWithout
<1>2. /\ MaxMethods \in Nat /\ 0 \in Nat /\ m \in Nat /\ m \in 1..MaxMethods /\ m # 0 /\ m # Null
      /\ \A x \in K : x \in Nat /\ x # 0 /\ x > 0 /\ x \in 1..MaxMethods
  BY DispatchAssumption DEF Numbers, Null
<1>3. /\ w.first = Following(K, 0)
      /\ \A x \in 1..MaxMethods : w.next[x] = IF x \in K THEN Following(K, x) ELSE links[x]
  BY DEF Links, Null
<1>4. /\ w.first \in 0..added /\ w.next \in [1..MaxMethods -> 0..added] /\ w.prev \in 0..added
      /\ w = [first |-> w.first, next |-> w.next, prev |-> w.prev]
  BY DEF Loop
<1>5. w.next[m] = f /\ f \in 0..added
  BY <1>2, <1>3, <1>4
<1>6. CASE w.first = m
  <2>1. u = [first |-> f, next |-> w.next, prev |-> w.prev]
    BY <1>4, <1>5, <1>6 DEF Unlink
  <2>2. u \in Loop /\ u.first = f /\ u.next = w.next
    BY <1>4, <1>5, <2>1 DEF Loop
  <2> HIDE DEF f, u, J
  <2>3. f = Following(J, 0)
    BY <1>1, <1>2, <1>3, <1>6
  <2>4. \A x \in J : Following(J, x) = Following(K, x)
    <3>1. SUFFICES ASSUME NEW x \in J PROVE Following(K, x) # m
      BY <1>1, <1>2 DEF J
    <3>2. x \in Nat /\ x > 0 /\ x \in K /\ x # m
      BY <1>2 DEF J
    <3>3. IsFollowing(m, K, 0)
      BY <1>2, <1>3, <1>6, FollowingIs
    <3>4. m <= x
      BY <1>2, <3>2, <3>3 DEF IsFollowing
    <3>5. IsFollowing(Following(K, x), K, x)
      BY <3>2, FollowingIs
    <3>6. QED
      BY <1>2, <3>2, <3>4, <3>5 DEF IsFollowing
  <2>5. \A x \in 1..MaxMethods : u.next[x] = IF x \in J THEN Following(J, x) ELSE links[x]
    BY <1>3, <1>5, <2>2, <2>4 DEF J, f
  <2>6. Links(u, J, links)
    BY <2>2, <2>3, <2>5 DEF Links, Null
  <2>7. QED
    BY <2>2, <2>6 DEF Before, f, u, J
<1>7. CASE w.first # m
  <2> DEFINE p == w.prev
  <2>1. u = [first |-> w.first, next |-> [w.next EXCEPT ![p] = f], prev |-> p]
    BY <1>4, <1>5, <1>7 DEF Unlink
  <2>2. p \in K /\ Following(K, p) = m
    BY <1>7 DEF Before
  <2>3. p \in Nat /\ p \in 1..MaxMethods /\ IsFollowing(m, K, p)
    BY <1>2, <2>2, FollowingIs
  <2>4. p < m /\ p # m
    BY <1>2, <2>3 DEF IsFollowing
  <2> DEFINE g == [w.next EXCEPT ![p] = f]
  <2> HIDE DEF f
  <2>4a. /\ g \in [1..MaxMethods -> 0..added]
         /\ \A x \in 1..MaxMethods : g[x] = IF x = p THEN f ELSE w.next[x]
    BY <1>4, <1>5
  <2>4b. u = [first |-> w.first, next |-> g, prev |-> p]
    BY <2>1
  <2> HIDE DEF u, g
  <2>4c. u.first = w.first /\ u.next = g /\ u.prev = p
    BY <2>4b
  <2>5. u \in Loop /\ u.first = w.first /\ u.prev = p
    BY <1>4, <2>4a, <2>4b, <2>4c DEF Loop
  <2>6. \A x \in 1..MaxMethods : u.next[x] = IF x = p THEN f ELSE w.next[x]
    BY <2>4a, <2>4c
  <2> HIDE DEF p, J
  <2>7. Following(J, p) = f /\ p \in J
    BY <1>1, <2>2, <2>3, <2>4 DEF J
  <2>8. w.first = Following(J, 0)
    BY <1>1, <1>2, <1>3, <1>7
  <2>9. \A x \in J : x # p => Following(J, x) = Following(K, x)
    <3>1. SUFFICES ASSUME NEW x \in J, x # p PROVE Following(K, x) # m
      BY <1>1, <1>2 DEF J
    <3>2. x \in Nat /\ x \in K /\ x # m
      BY <1>2 DEF J
    <3>3. \A y \in K : y > p => m <= y
      BY <1>2, <2>3 DEF IsFollowing
    <3>4. Following(K, x) = m => x < m /\ \A y \in K : y > x => m <= y
      BY <1>2, <3>2, FollowingIs DEF IsFollowing
    <3>5. QED
      BY <1>2, <2>2, <2>3, <2>4, <3>1, <3>2, <3>3, <3>4
  <2>10. \A x \in 1..MaxMethods : u.next[x] = IF x \in J THEN Following(J, x) ELSE links[x]
    <3>1. SUFFICES ASSUME NEW x \in 1..MaxMethods
                   PROVE  u.next[x] = IF x \in J THEN Following(J, x) ELSE links[x]
      OBVIOUS
    <3>2. CASE x = p
      BY <2>6, <2>7, <3>2
    <3>3. CASE x = m
      BY <1>5, <2>4, <2>6, <3>3 DEF f, J
    <3>4. CASE x # p /\ x # m
      BY <1>3, <2>6, <2>9, <3>4 DEF J
    <3>5. QED
      BY <3>2, <3>3, <3>4
  <2>11. Links(u, J, links)
    BY <2>5, <2>8, <2>10 DEF Links, Null
  <2>12. QED
    BY <2>5, <2>7, <2>11 DEF Before, f, u, J
<1>8. QED
  BY <1>6, <1>7

\* f goes over the list as Delete does
Deletes(f, path, types) ==
  f = [k \in 0..Len(List) |->
        IF k = 0 THEN [first |-> first, next |-> next, prev |-> first]
        ELSE IF Deleted(List[k], path, types) THEN Unlink(f[k - 1], List[k])
        ELSE [f[k - 1] EXCEPT !.prev = List[k]]]

(* The loop of a deletion is there.                                         *)
LEMMA DeletionLoop ==
  ASSUME TypeOK, Linked, NEW path, NEW types
  PROVE  \E f \in [0..Len(List) -> Loop] : Deletes(f, path, types)
<1> DEFINE l == List
           n == Len(List)
           e == [first |-> first, next |-> next, prev |-> first]
           once(m, w) == IF Deleted(m, path, types) THEN Unlink(w, m) ELSE [w EXCEPT !.prev = m]
           step == [k \in 1..n |-> [w \in Loop |-> once(l[k], w)]]
<1>1. n \in Nat /\ \A k \in 1..n : l[k] \in Held
  BY ListNow
<1>2. Held \subseteq 1..MaxMethods /\ Held \subseteq 1..added /\ added \in Nat
  BY HeldIs
<1>3. e \in Loop
  BY DEF TypeOK, Loop
<1>4. ASSUME NEW m \in Held, NEW w \in Loop PROVE once(m, w) \in Loop
  <2>1. /\ w.first \in 0..added /\ w.next \in [1..MaxMethods -> 0..added] /\ w.prev \in 0..added
        /\ w = [first |-> w.first, next |-> w.next, prev |-> w.prev]
    BY DEF Loop
  <2>2. m \in 1..MaxMethods /\ m \in 0..added /\ w.next[m] \in 0..added
    <3>1. m \in 1..MaxMethods /\ m \in 0..added
      BY <1>2
    <3>2. QED
      BY <2>1, <3>1
  <2>3. [w EXCEPT !.prev = m] \in Loop
    BY <2>1, <2>2 DEF Loop
  <2>4. [w EXCEPT !.first = w.next[m]] \in Loop
    BY <2>1, <2>2 DEF Loop
  <2>5. [w EXCEPT !.next[w.prev] = w.next[m]] \in Loop
    <3> DEFINE g == [w.next EXCEPT ![w.prev] = w.next[m]]
    <3>1. g \in [1..MaxMethods -> 0..added]
      BY <2>1, <2>2
    <3>2. [w EXCEPT !.next[w.prev] = w.next[m]] = [first |-> w.first, next |-> g, prev |-> w.prev]
      BY <2>1
    <3> HIDE DEF g
    <3>3. QED
      BY <2>1, <3>1, <3>2 DEF Loop
  <2>6. QED
    BY <2>3, <2>4, <2>5 DEF Unlink
<1> HIDE DEF once
<1>5. \A k \in 1..n : step[k] \in [Loop -> Loop]
  BY <1>1, <1>4
<1>6. PICK f \in [0..n -> Loop] : Repeats(f, e, step, n)
  <2> HIDE DEF step, n, e
  <2>1. QED
    BY <1>1, <1>3, <1>5, Repetition
<1>7. \A k \in 0..n : f[k] = IF k = 0 THEN e ELSE step[k][f[k - 1]]
  <2> HIDE DEF step, n, e
  <2>1. QED
    BY <1>6 DEF Repeats
<1>8. \A k \in 0..n : k # 0 => k \in 1..n /\ k - 1 \in 0..n
  BY <1>1
<1>9. \A k \in 0..n : k # 0 => step[k][f[k - 1]] = once(l[k], f[k - 1])
  <2> HIDE DEF n, l
  <2>1. QED
    BY <1>6, <1>8
<1> HIDE DEF step
<1>10. f = [k \in 0..n |-> IF k = 0 THEN e ELSE once(l[k], f[k - 1])]
  <2>1. f = [k \in 0..n |-> f[k]]
    BY <1>6
  <2> HIDE DEF n, l, e
  <2>2. QED
    BY <1>7, <1>9, <2>1
<1>11. Deletes(f, path, types)
  BY <1>10 DEF Deletes, once
<1>12. QED
  BY <1>6, <1>11

(* It takes the methods that are deleted, and no others, out of the list.   *)
LEMMA DeletionIs ==
  ASSUME TypeOK, Linked, NEW path, NEW types, NEW w, Deletes(w, path, types)
  PROVE  /\ w[Len(List)] \in Loop
         /\ Links(w[Len(List)], {m \in Held : ~ Deleted(m, path, types)}, next)
<1> DEFINE l == List
           n == Len(List)
           Gone(m) == Deleted(m, path, types)
           Left(k) == {m \in Held : Gone(m) => \A i \in 1..k : m # l[i]}
           Good(k) == /\ w[k] \in Loop /\ Links(w[k], Left(k), next)
                      /\ k < n => Before(w[k], Left(k), l[k + 1])
           T == {k \in 0..n : Good(k)}
<1>1. n \in Nat /\ Orders(l, n, Held)
  BY ListNow
<1>2. /\ Held \subseteq 1..MaxMethods /\ Held \subseteq 1..added /\ Numbers(Held)
      /\ added \in Nat /\ MaxMethods \in Nat
  BY HeldIs
<1>3. first = Following(Held, Null) /\ \A m \in Held : next[m] = Following(Held, m)
  BY DEF Linked
<1>4. /\ w[0] = [first |-> first, next |-> next, prev |-> first]
      /\ \A k \in 1..n : w[k] = IF Gone(l[k]) THEN Unlink(w[k - 1], l[k])
                                ELSE [w[k - 1] EXCEPT !.prev = l[k]]
  <2>1. \A k \in 0..n : w[k] = IF k = 0 THEN [first |-> first, next |-> next, prev |-> first]
          ELSE IF Gone(l[k]) THEN Unlink(w[k - 1], l[k]) ELSE [w[k - 1] EXCEPT !.prev = l[k]]
    BY DEF Deletes
  <2> HIDE DEF l, n, Gone
  <2>2. 0 \in 0..n /\ \A k \in 1..n : k \in 0..n /\ k # 0
    BY <1>1
  <2>3. QED
    BY <2>1, <2>2
<1> HIDE DEF l, n, Gone
<1>5. Good(0)
  <2>1. Left(0) = Held
    OBVIOUS
  <2>2. w[0] \in Loop
    BY <1>4 DEF TypeOK, Loop
  <2>3. Links(w[0], Held, next)
    BY <1>3, <1>4 DEF Links
  <2>4. 0 < n => w[0].first = l[1]
    BY <1>1, <1>3, <1>4 DEF Orders, Null
  <2>5. QED
    BY <2>1, <2>2, <2>3, <2>4 DEF Before
<1>6. ASSUME NEW k \in 0..n - 1, Good(k) PROVE Good(k + 1)
  <2> DEFINE m == l[k + 1]
             K == Left(k)
  <2>1. k + 1 \in 1..n /\ k < n /\ k + 1 - 1 = k
    BY <1>1
  <2>2. /\ m \in Held /\ m \in Nat /\ \A i \in 1..k : l[i] < m /\ l[i] \in Nat
    <3>1. \A i \in 1..k : i \in 1..n /\ i < k + 1
      BY <1>1, <2>1
    <3>2. QED
      BY <1>1, <1>2, <2>1, <3>1, OrderAscends
  <2>3. m \in K /\ K \subseteq Held /\ Numbers(K)
    BY <1>2, <2>2 DEF Numbers
  <2>4. Following(K, m) = Following(Held, m)
    <3> DEFINE f == Following(Held, m)
    <3>1. IsFollowing(f, Held, m)
      BY <1>2, <2>2, FollowingIs
    <3> HIDE DEF f
    <3>2. f \in Held /\ f > m => f \in K
      BY <1>2, <2>2 DEF Numbers
    <3>3. IsFollowing(f, K, m)
      <4> HIDE DEF K, m
      <4>1. QED
        BY <2>3, <3>1, <3>2 DEF IsFollowing
    <3> HIDE DEF K, m
    <3>4. QED
      BY <2>2, <2>3, <3>3, FollowingOnly DEF f
  <2>5. next[m] = Following(K, m)
    BY <1>3, <2>2, <2>4
  <2>6. k + 1 < n => Following(K, m) = l[k + 1 + 1] /\ l[k + 1 + 1] # Null
    <3>1. k + 1 < n => k + 1 + 1 \in 1..n /\ k + 1 # n
      BY <1>1, <2>1
    <3>2. Following(Held, m) = IF k + 1 = n THEN Null ELSE l[k + 1 + 1]
      BY <1>1, <2>1 DEF Orders
    <3>3. k + 1 < n => l[k + 1 + 1] # Null
      BY <1>1, <1>2, <3>1, OrderAscends
    <3>4. QED
      BY <2>4, <3>1, <3>2, <3>3
  <2>7. w[k + 1] = IF Gone(m) THEN Unlink(w[k], m) ELSE [w[k] EXCEPT !.prev = m]
    BY <1>4, <2>1
  <2>8. w[k] \in Loop /\ Links(w[k], K, next) /\ Before(w[k], K, m)
    BY <1>6, <2>1
  <2>9. Left(k + 1) = IF Gone(m) THEN K \ {m} ELSE K
    <3>1. \A i \in 1..k + 1 : i \in 1..k \/ i = k + 1
      BY <2>1
    <3>2. \A i \in 1..k : i \in 1..k + 1
      BY <2>1
    <3>3. k + 1 \in 1..k + 1
      BY <2>1
    <3>4. QED
      BY <3>1, <3>2, <3>3
  <2> HIDE DEF K, m, Left
  <2>10. CASE Gone(m)
    <3>1. K \subseteq 1..MaxMethods
      BY <1>2, <2>3
    <3>2. /\ w[k + 1] \in Loop /\ Links(w[k + 1], K \ {m}, next)
          /\ Following(K, m) # Null => Before(w[k + 1], K \ {m}, Following(K, m))
      BY <2>3, <2>5, <2>7, <2>8, <2>10, <3>1, UnlinkIs
    <3>3. QED
      BY <2>6, <2>9, <2>10, <3>2
  <2>11. CASE ~ Gone(m)
    <3>1. w[k + 1] = [first |-> w[k].first, next |-> w[k].next, prev |-> m]
      BY <2>7, <2>8, <2>11 DEF Loop
    <3>2. m \in 0..added
      BY <1>2, <2>2
    <3>3. w[k + 1] \in Loop
      BY <2>8, <3>1, <3>2 DEF Loop
    <3>4. Links(w[k + 1], K, next)
      BY <2>8, <3>1 DEF Links
    <3>5. k + 1 < n => Before(w[k + 1], K, l[k + 1 + 1])
      BY <2>3, <2>6, <3>1 DEF Before
    <3>6. QED
      BY <2>9, <2>11, <3>3, <3>4, <3>5
  <2>12. QED
    BY <2>10, <2>11
<1> HIDE DEF Good, Left
<1>7. Good(n)
  <2>1. 0 \in T /\ \A k \in 0..n - 1 : k \in T => k + 1 \in T
    BY <1>1, <1>5, <1>6
  <2> HIDE DEF T
  <2>2. Inductive(T, n)
    BY <2>1 DEF Inductive
  <2>3. n \in T
    BY <1>1, <2>2, AllNumbers
  <2>4. QED
    BY <2>3 DEF T
<1>8. Left(n) = {m \in Held : ~ Gone(m)}
  <2>1. {l[i] : i \in 1..n} = Held
    BY <1>1, <1>2, OrderCovers
  <2>2. QED
    BY <2>1 DEF Left
<1>9. QED
  BY <1>7, <1>8 DEF Good, l, n, Gone

(* Methods are deleted; the others keep their pointers in order.            *)
LEMMA DeleteLinks ==
  ASSUME TypeOK, Linked, NEW path, NEW types, Delete(path, types)
  PROVE  /\ Held' = {m \in Held : ~ Deleted(m, path, types)}
         /\ \A m \in Held' : m \in Held /\ method'[m] = method[m]
         /\ Linked' /\ TypeOK'
<1> DEFINE n == Len(List)
           w == CHOOSE f : Deletes(f, path, types)
           Rest == {m \in Held : ~ Deleted(m, path, types)}
<1>1. /\ first' = w[n].first /\ next' = w[n].next
      /\ method' = [m \in 1..MaxMethods |->
                      IF method[m] # NoMethod /\ Deleted(m, path, types) THEN NoMethod ELSE method[m]]
      /\ added' = added /\ UNCHANGED <<pc, msg, it, ret, argv, calls, reply>>
  BY DEF Delete, Deletes, walkVars
<1>2. Deletes(w, path, types)
  BY DeletionLoop
<1>3. w[n] \in Loop /\ Links(w[n], Rest, next)
  BY <1>2, DeletionIs
<1> HIDE DEF w, n
<1>4. \A m \in 1..MaxMethods : method'[m] = IF method[m] # NoMethod /\ Deleted(m, path, types)
                                            THEN NoMethod ELSE method[m]
  BY <1>1
<1>5. Held' = Rest /\ \A m \in Rest : m \in Held /\ method'[m] = method[m]
  BY <1>4 DEF Held
<1>6. Rest \subseteq 1..MaxMethods /\ Numbers(Rest)
  BY HeldIs DEF Numbers
<1> HIDE DEF Rest
<1>7. Linked'
  BY <1>1, <1>3, <1>5, <1>6 DEF Linked, Links
<1>8. first' \in 0..added /\ next' \in [1..MaxMethods -> 0..added]
  BY <1>1, <1>3 DEF Loop
<1>9. ASSUME NEW m \in 1..MaxMethods, next'[m] # Null PROVE next'[m] > m
  <2>1. CASE m \in Rest
    <3>1. IsFollowing(Following(Rest, m), Rest, m)
      BY <1>6, FollowingIs
    <3>2. next'[m] = Following(Rest, m)
      BY <1>1, <1>3, <2>1 DEF Links
    <3>3. QED
      BY <1>9, <3>1, <3>2 DEF IsFollowing
  <2>2. CASE m \notin Rest
    <3>1. next'[m] = next[m]
      BY <1>1, <1>3, <2>2 DEF Links
    <3>2. QED
      BY <1>9, <3>1 DEF TypeOK
  <2>3. QED
    BY <2>1, <2>2
<1>10. /\ method' \in [1..MaxMethods -> [path : Paths, types : Specs] \cup {NoMethod}]
       /\ \A m \in 1..MaxMethods : method'[m] # NoMethod => m <= added
  <2>1. /\ method \in [1..MaxMethods -> [path : Paths, types : Specs] \cup {NoMethod}]
        /\ \A m \in 1..MaxMethods : method[m] # NoMethod => m <= added
    BY DEF TypeOK
  <2>2. QED
    BY <1>1, <1>4, <2>1
<1>11. TypeOK'
  BY <1>1, <1>8, <1>9, <1>10 DEF TypeOK
<1>12. QED
  BY <1>5, <1>7, <1>11 DEF Rest

-----------------------------------------------------------------------------
(* Every step keeps the invariant. *)

(* Nothing is added yet, and nothing is walked.                             *)
LEMMA InitHolds == Init => IInv
<1> SUFFICES ASSUME Init PROVE IInv
  OBVIOUS
<1>1. MaxMethods \in Nat
  BY DispatchAssumption
<1>2. TypeOK
  <2>1. calls = << >> /\ << >> \in Seq([method : 1..added, argv : BOOLEAN, ret : 0..3])
    BY DEF Init
  <2>2. QED
    BY <1>1, <2>1 DEF Init, TypeOK, Null
<1>3. Held = {}
  BY DEF Init, Held
<1>4. Linked
  <2>1. Following({}, Null) = Null
    BY DEF Following
  <2>2. QED
    BY <1>3, <2>1 DEF Linked, Init
<1>5. Position /\ Order /\ Reached
  BY <1>3 DEF Position, Order, Reached, Init
<1>6. QED
  BY <1>2, <1>4, <1>5 DEF IInv

(* A step that leaves the list alone leaves its order,                      *)
LEMMA SameList ==
  ASSUME IInv, UNCHANGED listVars
  PROVE  Linked' /\ Held' = Held
<1>1. Held' = Held
  BY DEF listVars, Held
<1>2. QED
  BY <1>1 DEF listVars, Linked, IInv

\* what TypeOK says of the walk
WalkTypes ==
  /\ pc \in {"idle", "walk", "handler", "enumerate", "crashed"}
  /\ msg \in Messages \cup {NoMessage} /\ it \in 0..added
  /\ ret \in 0..2 /\ argv \in BOOLEAN
  /\ calls \in Seq([method : 1..added, argv : BOOLEAN, ret : 0..3])

(* and its types.                                                           *)
LEMMA SameTypesOfList ==
  ASSUME IInv, UNCHANGED listVars, WalkTypes'
  PROVE  TypeOK'
BY DEF IInv, TypeOK, WalkTypes, listVars

(* The calls are a sequence of records.                                     *)
LEMMA CallsAre ==
  ASSUME TypeOK
  PROVE  /\ Len(calls) \in Nat /\ DOMAIN calls = 1..Len(calls)
         /\ calls # << >> => Len(calls) \in DOMAIN calls
         /\ \A i \in DOMAIN calls :
              /\ calls[i] \in [method : 1..added, argv : BOOLEAN, ret : 0..3]
              /\ calls[i].method \in 1..added /\ calls[i].method \in Nat
<1> DEFINE C == [method : 1..added, argv : BOOLEAN, ret : 0..3]
<1>1. calls \in Seq(C) /\ added \in Nat
  BY HeldIs DEF TypeOK
<1>2. \A c \in C : c.method \in 1..added /\ c.method \in Nat
  BY <1>1
<1> HIDE DEF C
<1>3. /\ Len(calls) \in Nat /\ DOMAIN calls = 1..Len(calls) /\ \A i \in DOMAIN calls : calls[i] \in C
      /\ calls # << >> => Len(calls) # 0
  BY <1>1
<1>4. QED
  BY <1>2, <1>3 DEF C

(* The method behind the walk's is the next that is there.                  *)
LEMMA NextIs ==
  ASSUME TypeOK, Linked, NEW m \in Held
  PROVE  /\ m \in Nat /\ m \in 1..added
         /\ next[m] = Null \/ (next[m] \in Held /\ next[m] > m /\ next[m] \in Nat)
         /\ next[m] \in 0..added
         /\ \A x \in Held : x > m => next[m] # Null /\ next[m] <= x
<1>1. Numbers(Held) /\ Held \subseteq 1..added /\ added \in Nat
  BY HeldIs
<1>2. m \in Nat /\ next[m] = Following(Held, m)
  BY <1>1 DEF Numbers, Linked
<1>3. IsFollowing(next[m], Held, m)
  BY <1>1, <1>2, FollowingIs
<1>4. \A x \in Held : x \in Nat /\ x # Null
  BY <1>1 DEF Numbers
<1>5. next[m] = Null \/ (next[m] \in Held /\ next[m] > m /\ next[m] \in Nat)
  BY <1>3, <1>4 DEF IsFollowing
<1>6. next[m] \in 0..added
  BY <1>1, <1>5 DEF Null
<1>7. \A x \in Held : x > m => next[m] # Null /\ next[m] <= x
  <2>1. SUFFICES ASSUME NEW x \in Held, x > m PROVE next[m] # Null /\ next[m] <= x
    OBVIOUS
  <2>2. x \in Nat /\ ~ (x <= m)
    BY <1>2, <1>4, <2>1
  <2>3. QED
    BY <1>3, <1>4, <2>1, <2>2 DEF IsFollowing
<1>8. QED
  BY <1>1, <1>2, <1>5, <1>6, <1>7

(* A message arrives.                                                       *)
LEMMA ReceiveKeeps ==
  ASSUME IInv, Receive
  PROVE  IInv'
<1>1. /\ pc = "idle" /\ msg' \in Messages /\ it' = first /\ pc' = "walk"
      /\ UNCHANGED listVars /\ ret' = ret /\ argv' = argv /\ calls' = calls
      /\ calls = << >>
  BY DEF Receive, IInv, Position
<1>2. Linked' /\ Held' = Held
  BY <1>1, SameList
<1>3. TypeOK'
  <2>1. WalkTypes'
    BY <1>1 DEF IInv, TypeOK, WalkTypes, listVars
  <2>2. QED
    BY <1>1, <2>1, SameTypesOfList
<1>4. /\ first # Null => first \in Held
      /\ \A m \in Held : first # Null /\ m >= first
  <2>1. Numbers(Held) /\ first = Following(Held, 0)
    BY HeldIs DEF IInv, Linked, Null
  <2>2. IsFollowing(first, Held, 0)
    BY <2>1, FollowingIs
  <2>3. QED
    BY <2>1, <2>2 DEF IsFollowing, Numbers, Null
<1>5. Position'
  BY <1>1, <1>2, <1>4 DEF Position
<1>6. Order'
  BY <1>1 DEF Order
<1>7. Reached'
  BY <1>1, <1>2, <1>4 DEF Reached
<1>8. QED
  BY <1>2, <1>3, <1>5, <1>6, <1>7 DEF IInv

(* A method that does not take the message is passed over.                  *)
LEMMA SkipKeeps ==
  ASSUME IInv, Skip
  PROVE  IInv'
<1>1. /\ pc = "walk" /\ it # Null /\ ~ Takes(it) /\ it' = next[it] /\ pc' = pc /\ msg' = msg
      /\ UNCHANGED listVars /\ method' = method /\ ret' = ret /\ argv' = argv /\ calls' = calls
  BY DEF Skip, listVars
<1>2. Linked' /\ Held' = Held
  BY <1>1, SameList
<1>3. TypeOK /\ Linked /\ Position /\ Order /\ Reached
  BY DEF IInv
<1>4. it \in Held /\ msg \in Messages
  BY <1>1, <1>3 DEF Position
<1>5. /\ it \in Nat
      /\ it' = Null \/ (it' \in Held /\ it' > it /\ it' \in Nat)
      /\ it' \in 0..added
      /\ \A x \in Held : x > it => it' # Null /\ it' <= x
  BY <1>1, <1>3, <1>4, NextIs
<1>6. TypeOK'
  <2>1. WalkTypes'
    BY <1>1, <1>3, <1>5 DEF TypeOK, WalkTypes, listVars
  <2>2. QED
    BY <1>1, <2>1, SameTypesOfList
<1>7. Position'
  BY <1>1, <1>2, <1>4, <1>5 DEF Position
<1>8. Order'
  <2>1. \A i \in DOMAIN calls : calls[i].method < it /\ calls[i].method \in Nat
    <3>1. QED
      BY <1>1, <1>3, CallsAre DEF Order
  <2>2. it' # Null => \A i \in DOMAIN calls : calls[i].method < it'
    BY <1>5, <2>1
  <2>3. QED
    BY <1>1, <1>3, <2>2 DEF Order, Breaks
<1>9. Reached'
  <2>1. SUFFICES ASSUME NEW m \in Held, Takes(m)' PROVE m \in Called' \/ (it' # Null /\ m >= it')
    BY <1>2 DEF Reached
  <2>2. Takes(m) /\ m # it /\ Called' = Called
    BY <1>1, <2>1 DEF Takes, PathTakes, SameTypes, Called
  <2>3. m \in Called \/ m >= it
    BY <1>1, <1>3, <2>1, <2>2 DEF Reached, Taken
  <2>4. m \in Nat
    BY <1>3, <2>1, NextIs
  <2>5. QED
    BY <1>5, <2>2, <2>3, <2>4
<1>10. QED
  BY <1>2, <1>6, <1>7, <1>8, <1>9 DEF IInv

(* The handler of a method that takes the message is called.                *)
LEMMA CallKeeps ==
  ASSUME IInv, Call
  PROVE  IInv'
<1> DEFINE c == [method |-> it, argv |-> argv \/ ~ SameTypes(it), ret |-> 3]
           n == Len(calls)
<1>1. /\ pc = "walk" /\ it # Null /\ Takes(it) /\ it' = it /\ pc' = "handler" /\ msg' = msg
      /\ UNCHANGED listVars /\ method' = method /\ ret' = ret /\ argv' = argv
      /\ calls' = Append(calls, c)
  BY DEF Call, listVars
<1>2. Linked' /\ Held' = Held
  BY <1>1, SameList
<1>3. TypeOK /\ Linked /\ Position /\ Order /\ Reached
  BY DEF IInv
<1>4. it \in Held /\ msg \in Messages /\ it \in Nat /\ it \in 1..added
  <2>1. it \in Held /\ msg \in Messages
    BY <1>1, <1>3 DEF Position
  <2>2. QED
    BY <1>3, <2>1, NextIs
<1>5. c \in [method : 1..added, argv : BOOLEAN, ret : 0..3] /\ c.method = it
  <2>1. (argv \/ ~ SameTypes(it)) \in BOOLEAN
    OBVIOUS
  <2>2. QED
    BY <1>4, <2>1
<1> HIDE DEF c
<1>6. TypeOK'
  <2> DEFINE C == [method : 1..added, argv : BOOLEAN, ret : 0..3]
  <2>1. calls \in Seq(C) /\ c \in C
    BY <1>3, <1>5 DEF TypeOK
  <2> HIDE DEF C
  <2>2. calls' \in Seq(C)
    BY <1>1, <2>1
  <2>3. WalkTypes'
    BY <1>1, <1>3, <2>2 DEF TypeOK, WalkTypes, listVars, C
  <2>4. QED
    BY <1>1, <2>3, SameTypesOfList
<1>7. n \in Nat /\ DOMAIN calls = 1..n /\ \A i \in 1..n : calls[i].method \in Nat /\ calls[i].method < it
  BY <1>1, <1>3, CallsAre DEF Order
<1>8. /\ Len(calls') = n + 1 /\ DOMAIN calls' = 1..n + 1 /\ calls'[n + 1] = c
      /\ \A i \in 1..n : calls'[i] = calls[i]
  <2>1. calls \in Seq([method : 1..added, argv : BOOLEAN, ret : 0..3])
    BY <1>3 DEF TypeOK
  <2>2. QED
    BY <1>1, <2>1
<1> HIDE DEF n
<1>9. Position'
  <2>1. calls' # << >> /\ Last(calls') = c
    BY <1>7, <1>8 DEF Last
  <2>2. Takes(it)'
    BY <1>1 DEF Takes, PathTakes, SameTypes
  <2>3. QED
    BY <1>1, <1>2, <1>4, <1>5, <2>1, <2>2 DEF Position
<1>10. Order'
  <2>1. ASSUME NEW i \in 1..n + 1, NEW j \in 1..n + 1, i < j
        PROVE  calls'[i].method < calls'[j].method
    <3>1. i \in 1..n
      BY <1>7, <2>1
    <3>2. CASE j \in 1..n
      BY <1>3, <1>7, <1>8, <2>1, <3>1, <3>2 DEF Order
    <3>3. CASE j = n + 1
      BY <1>5, <1>7, <1>8, <3>1, <3>3
    <3>4. QED
      BY <1>7, <3>2, <3>3
  <2>2. ASSUME NEW i \in 1..n, calls[i].ret = 0 PROVE IsPattern(msg.path)
    <3>1. CASE i = n
      <4>1. calls # << >> /\ Last(calls) = calls[i]
        BY <1>7, <3>1 DEF Last, n
      <4>2. ~ Breaks(Last(calls).ret)
        BY <1>1, <1>3, <4>1 DEF Order
      <4>3. QED
        BY <2>2, <4>1, <4>2 DEF Breaks
    <3>2. CASE i # n
      <4>1. i \in 1..Len(calls) - 1
        <5>1. i \in 1..n - 1
          BY <1>7, <3>2
        <5>2. QED
          BY <5>1 DEF n
      <4>2. QED
        BY <1>3, <2>2, <4>1 DEF Order
    <3>3. QED
      BY <3>1, <3>2
  <2>3. \A i \in 1..Len(calls') - 1 : calls'[i].ret = 0 => IsPattern(msg'.path)
    BY <1>1, <1>7, <1>8, <2>2
  <2>4. QED
    BY <1>1, <1>8, <2>1, <2>3 DEF Order
<1>11. Reached'
  <2>1. SUFFICES ASSUME NEW m \in Held, Takes(m)' PROVE m \in Called' \/ (it' # Null /\ m >= it')
    BY <1>2 DEF Reached
  <2>2. Takes(m)
    BY <1>1, <2>1 DEF Takes, PathTakes, SameTypes
  <2>3. m \in Called \/ m >= it
    BY <1>1, <1>3, <2>1, <2>2 DEF Reached, Taken
  <2>4. m \in Called => m \in Called'
    <3>1. \A i \in 1..n : i \in 1..n + 1
      BY <1>7
    <3>2. QED
      BY <1>7, <1>8, <3>1 DEF Called
  <2>5. QED
    BY <1>1, <2>3, <2>4
<1>12. QED
  BY <1>2, <1>6, <1>9, <1>10, <1>11 DEF IInv

(* The handler returns.                                                     *)
LEMMA ReturnKeeps ==
  ASSUME IInv, Return
  PROVE  IInv'
<1> DEFINE n == Len(calls)
<1>1. PICK r \in 0..2 :
        /\ ret' = r /\ calls' = [calls EXCEPT ![n].ret = r]
        /\ IF Breaks(r) THEN it' = Null ELSE it' = next[it]
  BY DEF Return
<1>2. /\ pc = "handler" /\ pc' = "walk" /\ msg' = msg /\ argv' = (argv /\ SameTypes(it))
      /\ UNCHANGED listVars /\ method' = method
  BY DEF Return, listVars
<1>3. Linked' /\ Held' = Held
  BY <1>2, SameList
<1>4. TypeOK /\ Linked /\ Position /\ Order /\ Reached
  BY DEF IInv
<1>5. it \in Held /\ msg \in Messages /\ it # Null /\ calls # << >> /\ Last(calls).method = it
  BY <1>2, <1>4 DEF Position
<1>6. /\ it \in Nat
      /\ next[it] = Null \/ (next[it] \in Held /\ next[it] > it /\ next[it] \in Nat)
      /\ next[it] \in 0..added
      /\ \A x \in Held : x > it => next[it] # Null /\ next[it] <= x
      /\ added \in Nat
  BY <1>4, <1>5, NextIs, HeldIs
<1>7. /\ n \in Nat /\ n \in 1..n /\ DOMAIN calls = 1..n /\ calls[n].method = it
      /\ \A i \in 1..n : calls[i].method \in Nat
                      /\ calls[i] \in [method : 1..added, argv : BOOLEAN, ret : 0..3]
  BY <1>4, <1>5, CallsAre DEF Last
<1> DEFINE c == [calls[n] EXCEPT !.ret = r]
<1>8. /\ c \in [method : 1..added, argv : BOOLEAN, ret : 0..3] /\ c.method = it /\ c.ret = r
  BY <1>7
<1>9. calls' = [calls EXCEPT ![n] = c]
  BY <1>1
<1> HIDE DEF c
<1>10. TypeOK' /\ Len(calls') = n /\ DOMAIN calls' = 1..n
  <2> DEFINE C == [method : 1..added, argv : BOOLEAN, ret : 0..3]
  <2>1. calls \in Seq(C) /\ c \in C
    BY <1>4, <1>8 DEF TypeOK
  <2> HIDE DEF C
  <2>2. calls' \in Seq(C) /\ Len(calls') = n
    BY <1>7, <1>9, <2>1, ExceptSeq
  <2>3. it' \in 0..added /\ argv' \in BOOLEAN /\ ret' \in 0..2
    BY <1>1, <1>2, <1>6 DEF Null
  <2>4. WalkTypes'
    BY <1>2, <1>4, <2>2, <2>3 DEF TypeOK, WalkTypes, listVars, C
  <2>5. QED
    BY <1>2, <1>7, <1>9, <2>2, <2>4, SameTypesOfList
<1> HIDE DEF n
<1>11. \A i \in 1..n : /\ calls'[i] = IF i = n THEN c ELSE calls[i]
                       /\ calls'[i].method = calls[i].method
  BY <1>7, <1>8, <1>9
<1>12. calls' # << >> /\ Last(calls') = c
  BY <1>7, <1>10, <1>11 DEF Last
<1>13. Position'
  BY <1>1, <1>2, <1>3, <1>5, <1>6 DEF Position
<1>14. \A i \in 1..n : calls[i].method <= it
  <2>1. ASSUME NEW i \in 1..n PROVE calls[i].method <= it
    <3>1. CASE i = n
      BY <1>6, <1>7, <3>1
    <3>2. CASE i # n
      <4>1. i < n /\ i \in DOMAIN calls /\ n \in DOMAIN calls
        BY <1>7, <3>2
      <4>2. calls[i].method < calls[n].method
        BY <1>4, <4>1 DEF Order
      <4>3. QED
        BY <1>6, <1>7, <4>2
    <3>3. QED
      BY <3>1, <3>2
  <2>2. QED
    BY <2>1
<1>15. Order'
  <2>1. \A i, j \in 1..n : i < j => calls'[i].method < calls'[j].method
    BY <1>4, <1>7, <1>11 DEF Order
  <2>2. it' # Null => \A i \in 1..n : calls'[i].method < it'
    BY <1>1, <1>6, <1>7, <1>11, <1>14
  <2>3. \A i \in 1..n - 1 : calls'[i].ret = 0 => IsPattern(msg.path)
    <3>1. \A i \in 1..n - 1 : i \in 1..n /\ i # n
      BY <1>7
    <3>2. QED
      BY <1>4, <1>11, <3>1 DEF Order, n
  <2>4. it' # Null => ~ Breaks(r)
    BY <1>1
  <2>5. QED
    BY <1>1, <1>2, <1>8, <1>10, <1>12, <2>1, <2>2, <2>3, <2>4 DEF Order, Breaks
<1>16. Reached'
  <2>1. SUFFICES ASSUME NEW m \in Held, Takes(m)'
                 PROVE  \/ m \in Called' \/ (it' # Null /\ m >= it')
                        \/ (Taken' /\ m > Last(calls').method)
    BY <1>3 DEF Reached
  <2>2. Takes(m)
    BY <1>2, <2>1 DEF Takes, PathTakes, SameTypes
  <2>3. m \in Called \/ m >= it
    BY <1>2, <1>4, <1>5, <2>1, <2>2 DEF Reached, Taken
  <2>4. Called' = Called
    BY <1>7, <1>10, <1>11 DEF Called
  <2>5. it \in Called
    BY <1>7 DEF Called
  <2>6. m \in Nat
    BY <1>4, <2>1, NextIs
  <2>7. CASE m \in Called
    BY <2>4, <2>7
  <2>8. CASE m > it /\ Breaks(r)
    <3>1. Taken'
      BY <1>1, <1>2, <1>8, <1>12, <2>8 DEF Taken, Breaks
    <3>2. QED
      BY <1>8, <1>12, <2>8, <3>1
  <2>9. CASE m > it /\ ~ Breaks(r)
    BY <1>1, <1>6, <2>6, <2>9
  <2>10. QED
    BY <1>6, <2>3, <2>5, <2>6, <2>7, <2>8, <2>9
<1>17. QED
  BY <1>3, <1>10, <1>13, <1>15, <1>16 DEF IInv

(* The walk ends, and a reply is made or not.                               *)
LEMMA EndWalkKeeps ==
  ASSUME IInv, EndWalk
  PROVE  IInv'
<1>1. /\ pc = "walk" /\ it = Null /\ it' = Null /\ UNCHANGED listVars
      /\ \/ Enumerates /\ pc' = "enumerate" /\ UNCHANGED <<msg, ret, argv, calls>>
         \/ Leave
  BY DEF EndWalk
<1>2. Linked' /\ Held' = Held
  BY <1>1, SameList
<1>3. TypeOK /\ Linked /\ Position /\ Order /\ Reached
  BY DEF IInv
<1>4. << >> \in Seq([method : 1..added', argv : BOOLEAN, ret : 0..3])
  OBVIOUS
<1>5. TypeOK'
  <2> DEFINE C == Seq([method : 1..added', argv : BOOLEAN, ret : 0..3])
  <2>3. added' = added /\ it' = it
    BY <1>1 DEF listVars
  <2>4. WalkTypes
    BY <1>3 DEF TypeOK, WalkTypes
  <2>5. calls' \in C
    BY <1>1, <1>4, <2>3, <2>4 DEF WalkTypes, Leave
  <2> HIDE DEF C
  <2>6. /\ pc' \in {"idle", "walk", "handler", "enumerate", "crashed"}
        /\ msg' \in Messages \cup {NoMessage} /\ it' \in 0..added' /\ ret' \in 0..2
    BY <1>1, <2>3, <2>4 DEF WalkTypes, Leave
  <2>7. argv' \in BOOLEAN
    BY <1>1, <2>4 DEF WalkTypes, Leave
  <2>1. WalkTypes'
    BY <2>5, <2>6, <2>7 DEF WalkTypes, C
  <2>2. QED
    BY <1>1, <2>1, SameTypesOfList
<1>6. Position'
  BY <1>1, <1>3 DEF Position, Leave, Enumerates
<1>7. Order'
  BY <1>1, <1>3 DEF Order, Leave, Breaks
<1>8. Reached'
  BY <1>1 DEF Reached, Leave
<1>9. QED
  BY <1>2, <1>5, <1>6, <1>7, <1>8 DEF IInv

(* The names are replied, or argv is read though it is NULL.                *)
LEMMA EnumerateKeeps ==
  ASSUME IInv, Enumerate
  PROVE  IInv'
<1>1. /\ pc = "enumerate" /\ it' = it /\ UNCHANGED listVars
      /\ \/ pc' = "crashed" /\ UNCHANGED <<msg, ret, argv, calls>>
         \/ Leave
  BY DEF Enumerate
<1>2. Linked' /\ Held' = Held
  BY <1>1, SameList
<1>3. TypeOK /\ Linked /\ Position /\ Order /\ Reached /\ it = Null
  BY <1>1 DEF IInv, Position
<1>4. << >> \in Seq([method : 1..added', argv : BOOLEAN, ret : 0..3])
  OBVIOUS
<1>5. TypeOK'
  <2> DEFINE C == Seq([method : 1..added', argv : BOOLEAN, ret : 0..3])
  <2>3. added' = added /\ it' = it
    BY <1>1 DEF listVars
  <2>4. WalkTypes
    BY <1>3 DEF TypeOK, WalkTypes
  <2>5. calls' \in C
    BY <1>1, <1>4, <2>3, <2>4 DEF WalkTypes, Leave
  <2> HIDE DEF C
  <2>6. /\ pc' \in {"idle", "walk", "handler", "enumerate", "crashed"}
        /\ msg' \in Messages \cup {NoMessage} /\ it' \in 0..added' /\ ret' \in 0..2
    BY <1>1, <2>3, <2>4 DEF WalkTypes, Leave
  <2>7. argv' \in BOOLEAN
    BY <1>1, <2>4 DEF WalkTypes, Leave
  <2>1. WalkTypes'
    BY <2>5, <2>6, <2>7 DEF WalkTypes, C
  <2>2. QED
    BY <1>1, <2>1, SameTypesOfList
<1>6. Position'
  BY <1>1, <1>3 DEF Position, Leave
<1>7. Order'
  BY <1>1, <1>3 DEF Order, Leave, Breaks
<1>8. Reached'
  BY <1>1 DEF Reached, Leave
<1>9. QED
  BY <1>2, <1>5, <1>6, <1>7, <1>8 DEF IInv

(* What the walk needs of the list, while a handler or nobody changes it:   *)
(* its method stays, and what is added comes after it.                      *)
LEMMA WalkKeeps ==
  ASSUME IInv, Caller, UNCHANGED <<pc, msg, walkVars>>, TypeOK', Linked',
         it # Null => it \in Held' /\ method'[it] = method[it],
         \A m \in Held' : (m \in Held /\ method'[m] = method[m]) \/ \A x \in Held : m >= x
  PROVE  IInv'
<1>1. /\ pc \in {"idle", "handler"} /\ pc' = pc /\ msg' = msg /\ it' = it /\ ret' = ret
      /\ argv' = argv /\ calls' = calls
  BY DEF Caller, walkVars
<1>2. Position /\ Order /\ Reached
  BY DEF IInv
<1>3. ASSUME NEW m, method'[m] = method[m] PROVE Takes(m)' <=> Takes(m)
  BY <1>1, <1>3 DEF Takes, PathTakes, SameTypes
<1>4. it # Null => (Takes(it)' <=> Takes(it))
  BY <1>1 DEF Takes, PathTakes, SameTypes
<1>5. Position'
  <2>1. pc = "idle" => it = Null
    BY <1>2 DEF Position
  <2>2. pc' = "handler" => it' # Null /\ Takes(it)' /\ calls' # << >> /\ Last(calls').method = it'
    BY <1>1, <1>2, <1>4 DEF Position
  <2>3. QED
    BY <1>1, <1>2, <2>1, <2>2 DEF Position
<1>6. Order'
  BY <1>1, <1>2 DEF Order
<1>7. Reached'
  <2>1. SUFFICES ASSUME pc = "handler", NEW m \in Held', Takes(m)'
                 PROVE  m \in Called' \/ (it' # Null /\ m >= it')
    BY <1>1 DEF Reached
  <2>2. it # Null /\ it \in Held /\ Called' = Called
    BY <1>1, <1>2, <2>1 DEF Position, Called
  <2>3. CASE m \in Held /\ method'[m] = method[m]
    BY <1>1, <1>2, <1>3, <2>1, <2>2, <2>3 DEF Reached, Taken
  <2>4. CASE \A x \in Held : m >= x
    BY <1>1, <2>2, <2>4
  <2>5. QED
    BY <2>1, <2>3, <2>4
<1>8. QED
  BY <1>5, <1>6, <1>7 DEF IInv

(* Methods are added before and while a message is handled.                 *)
LEMMA AddKeeps ==
  ASSUME IInv, NEW path \in Paths, NEW types \in Specs, Add(path, types)
  PROVE  IInv'
<1>1. /\ Held' = Held \cup {added'} /\ added' \in Nat /\ \A m \in Held : m < added'
      /\ \A m \in Held : method'[m] = method[m]
      /\ Linked' /\ TypeOK'
  BY AddLinks DEF IInv
<1>2. Caller /\ UNCHANGED <<pc, msg, walkVars>>
  BY DEF Add
<1>3. \A x \in Held : x \in Nat
  BY HeldIs DEF IInv, Numbers
<1>4. it # Null => it \in Held' /\ method'[it] = method[it]
  BY <1>1 DEF IInv, Position
<1>5. \A m \in Held' : (m \in Held /\ method'[m] = method[m]) \/ \A x \in Held : m >= x
  BY <1>1, <1>3
<1>6. QED
  BY <1>1, <1>2, <1>4, <1>5, WalkKeeps

(* Methods are deleted, but never the one whose handler runs.               *)
LEMMA DeleteKeeps ==
  ASSUME IInv, NEW path, NEW types, Delete(path, types)
  PROVE  IInv'
<1>1. /\ Held' = {m \in Held : ~ Deleted(m, path, types)}
      /\ \A m \in Held' : m \in Held /\ method'[m] = method[m]
      /\ Linked' /\ TypeOK'
  BY DeleteLinks DEF IInv
<1>2. Caller /\ UNCHANGED <<pc, msg, walkVars>> /\ (pc = "handler" => ~ Deleted(it, path, types))
  BY DEF Delete
<1>3. it # Null => it \in Held' /\ method'[it] = method[it]
  <2>1. it # Null => it \in Held /\ pc = "handler"
    BY <1>2 DEF IInv, Position, Caller
  <2>2. QED
    BY <1>1, <1>2, <2>1
<1>4. QED
  BY <1>1, <1>2, <1>3, WalkKeeps

(* The invariant is inductive.                                              *)
LEMMA NextKeeps ==
  ASSUME IInv, [Next]_vars
  PROVE  IInv'
<1>1. ASSUME AddMethod PROVE IInv'
  BY <1>1, AddKeeps DEF AddMethod
<1>2. ASSUME DelMethod PROVE IInv'
  BY <1>2, DeleteKeeps DEF DelMethod
<1>3. ASSUME Dispatch PROVE IInv'
  BY <1>3, ReceiveKeeps, SkipKeeps, CallKeeps, ReturnKeeps, EndWalkKeeps, EnumerateKeeps DEF Dispatch
<1>4. ASSUME UNCHANGED vars PROVE IInv'
  <2>1. /\ UNCHANGED listVars /\ method' = method /\ pc' = pc /\ msg' = msg /\ it' = it
        /\ ret' = ret /\ argv' = argv /\ calls' = calls
    BY <1>4 DEF vars, listVars, walkVars
  <2>2. Linked' /\ Held' = Held
    BY <2>1, SameList
  <2>3. TypeOK'
    BY <2>1 DEF IInv, TypeOK, listVars
  <2>4. Position' /\ Order'
    BY <2>1, <2>2 DEF IInv, Position, Order, Takes, PathTakes, SameTypes, Breaks, Enumerates
  <2>5. Reached'
    BY <2>1, <2>2
      DEF IInv, Reached, Takes, PathTakes, SameTypes, Called, Taken, Breaks
  <2>6. QED
    BY <2>2, <2>3, <2>4, <2>5 DEF IInv
<1>5. QED
  BY <1>1, <1>2, <1>3, <1>4 DEF Next

(* The pointers link the methods in the order in which they were added,     *)
(* and the walk of dispatch_method has called those it passed that take     *)
(* the message, whatever handlers do to the list.                           *)
THEOREM Invariant == Spec => []IInv
<1>1. IInv /\ [Next]_vars => IInv'
  BY NextKeeps
<1>2. QED
  BY InitHolds, <1>1, PTL DEF Spec

(* The variables keep their types; no method points to itself, to one       *)
(* before it or to one that was never added.                                *)
THEOREM TypesAreKept == Spec => []TypeOK
<1>1. IInv => TypeOK
  BY DEF IInv
<1>2. QED
  BY Invariant, <1>1, PTL

-----------------------------------------------------------------------------
(* The calls of a message. *)

\* The matcher agrees with the meaning of every pattern, on the paths of the methods.
MatchAgrees ==
  \A p \in {m.path : m \in Messages} \cup (Deletions \ {NoPath}), q \in Paths \ {NoPath} :
    IsPattern(p) => (Match(q, p) <=> StandsFor(p, q))

(* Then the methods that take the message are those that want it.           *)
LEMMA TakesIsWants ==
  ASSUME MatchAgrees, TypeOK, msg \in Messages, NEW m \in Held
  PROVE  Takes(m) <=> Wants(m)
<1> DEFINE q == method[m].path
<1>1. q \in Paths
  <2>1. method[m] \in [path : Paths, types : Specs]
    BY HeldIs
  <2>2. QED
    BY <2>1
<1>2. q # NoPath => ~ IsPattern(q)
  BY <1>1, DispatchAssumption
<1>3. PathTakes(m) <=> (q = NoPath \/ StandsFor(msg.path, q))
  <2>1. CASE q = NoPath
    BY <2>1 DEF PathTakes
  <2>2. CASE q # NoPath /\ IsPattern(msg.path)
    <3>1. q # msg.path
      BY <1>2, <2>2
    <3>2. Match(q, msg.path) <=> StandsFor(msg.path, q)
      BY <1>1, <2>2 DEF MatchAgrees
    <3>3. QED
      BY <2>2, <3>1, <3>2 DEF PathTakes
  <2>3. CASE q # NoPath /\ ~ IsPattern(msg.path)
    BY <2>3 DEF PathTakes, StandsFor
  <2>4. QED
    BY <2>1, <2>2, <2>3
<1>4. QED
  BY <1>3 DEF Takes, Wants

(* What the invariant says of calls.                                        *)
LEMMA CallsAreRight ==
  ASSUME MatchAgrees, IInv
  PROVE  EachMatchOnceInOrder
<1>1. TypeOK /\ Linked /\ Position /\ Order /\ Reached /\ Registered = Held
  BY ListNow DEF IInv
<1>2. pc = "handler" => it \in Registered /\ Wants(it)
  BY <1>1, TakesIsWants DEF Position
<1>3. ASSUME pc = "walk", it = Null
      PROVE  \A m \in Registered : Wants(m) =>
               \/ m \in Called
               \/ (calls # << >> /\ Last(calls).ret = 0 /\ ~ IsPattern(msg.path)) /\ m > Last(calls).method
  <2>1. SUFFICES ASSUME NEW m \in Held, Wants(m)
                 PROVE  m \in Called \/ (Taken /\ m > Last(calls).method)
    BY <1>1 DEF Taken, Breaks
  <2>2. Takes(m)
    BY <1>1, <1>3, <2>1, TakesIsWants DEF Position
  <2>3. QED
    BY <1>1, <1>3, <2>1, <2>2 DEF Reached
<1>4. QED
  BY <1>1, <1>2, <1>3 DEF EachMatchOnceInOrder, Order

(* The handlers called for a message are those of the methods that want it, *)
(* in order, each once, and none of them is forgotten.                      *)
THEOREM MatchesAreCalled ==
  ASSUME MatchAgrees
  PROVE  Spec => []EachMatchOnceInOrder
<1>1. IInv => EachMatchOnceInOrder
  BY CallsAreRight
<1>2. QED
  BY Invariant, <1>1, PTL

-----------------------------------------------------------------------------
(* The table of methods. *)

(* One more at the end is in order, too.                                    *)
LEMMA OrderAppend ==
  ASSUME NEW S, Numbers(S), NEW b, NEW n, Orders(b, n, S), NEW a \in Nat, a # Null, \A x \in S : x < a
  PROVE  /\ Numbers(S \cup {a}) /\ b \in Seq(S) /\ Len(b) = n
         /\ Orders(Append(b, a), n + 1, S \cup {a})
<1> DEFINE T == S \cup {a}
           c == [i \in 1..n + 1 |-> IF i <= n THEN b[i] ELSE a]
<1>1. n \in Nat /\ b \in [1..n -> S] /\ b \in Seq(S) /\ Len(b) = n
  BY DEF Orders
<1>2. Append(b, a) = c
  <2>1. b \in Seq(T) /\ a \in T
    BY <1>1
  <2> HIDE DEF T
  <2> DEFINE d == Append(b, a)
  <2>2. d \in Seq(T) /\ Len(d) = n + 1 /\ \A i \in 1..n + 1 : d[i] = IF i = n + 1 THEN a ELSE b[i]
    BY <1>1, <2>1
  <2> HIDE DEF d
  <2>3. \A i \in 1..n + 1 : d[i] = IF i <= n THEN b[i] ELSE a
    BY <1>1, <2>2
  <2>4. d = [i \in 1..n + 1 |-> d[i]]
    BY <1>1, <2>2
  <2>5. QED
    BY <2>3, <2>4 DEF d
<1>3. \A i \in 1..n : i \in 1..n + 1 /\ i <= n /\ i # n + 1 /\ c[i] = b[i] /\ b[i] \in S
                    /\ b[i] \in Nat /\ b[i] # Null /\ b[i] < a
  BY <1>1, OrderAscends
<1>4. n + 1 \in 1..n + 1 /\ c[n + 1] = a /\ n + 1 \in Nat /\ n + 1 # 0 /\ 0 \in Nat /\ 0 < a /\ 1 \in 1..n + 1
  BY <1>1 DEF Null
<1>5. c \in [1..n + 1 -> T]
  BY <1>1
<1> HIDE DEF c, T
<1>6. /\ Numbers(T) /\ Following(T, a) = Null
      /\ \A m \in Nat : m < a =>
           Following(T, m) = IF Following(S, m) # Null THEN Following(S, m) ELSE a
  <2>1. ASSUME NEW m \in Nat, m < a
        PROVE  /\ Numbers(T) /\ Following(T, a) = Null
               /\ Following(T, m) = IF Following(S, m) # Null THEN Following(S, m) ELSE a
    BY <2>1, FollowingWith DEF T
  <2>2. QED
    BY <1>4, <2>1
<1>7. Following(T, 0) = c[1]
  <2>1. Following(S, 0) = IF n = 0 THEN Null ELSE b[1]
    BY DEF Orders
  <2>2. n = 0 => c[1] = a
    BY <1>4
  <2>3. n # 0 => 1 \in 1..n
    BY <1>1
  <2>4. QED
    BY <1>3, <1>4, <1>6, <2>1, <2>2, <2>3
<1>8. ASSUME NEW i \in 1..n + 1
      PROVE  Following(T, c[i]) = IF i = n + 1 THEN Null ELSE c[i + 1]
  <2>1. CASE i = n + 1
    BY <1>4, <1>6, <2>1
  <2>2. CASE i # n + 1
    <3>1. i \in 1..n /\ (i = n \/ i + 1 \in 1..n)
      BY <1>1, <2>2
    <3>2. Following(S, b[i]) = IF i = n THEN Null ELSE b[i + 1]
      BY <3>1 DEF Orders
    <3>3. CASE i = n
      BY <1>3, <1>4, <1>6, <2>2, <3>1, <3>2, <3>3
    <3>4. CASE i # n
      BY <1>3, <1>6, <2>2, <3>1, <3>2, <3>4
    <3>5. QED
      BY <3>3, <3>4
  <2>3. QED
    BY <2>1, <2>2
<1>9. Orders(c, n + 1, T)
  BY <1>4, <1>5, <1>7, <1>8 DEF Orders
<1>10. QED
  BY <1>1, <1>2, <1>6, <1>9 DEF T

(* The same of the list after a step.                                       *)
LEMMA ListThen ==
  ASSUME TypeOK', Linked'
  PROVE  List' \in Seq(Held') /\ Orders(List', Len(List'), Held') /\ Numbers(Held')
<1>1. MaxMethods \in Nat /\ Held' \subseteq 1..MaxMethods
  BY DispatchAssumption DEF Held
<1>2. next' \in [1..MaxMethods -> 0..MaxMethods]
  BY <1>1 DEF TypeOK
<1>3. List' = ListFrom(first', next')
  BY DEF List
<1>4. QED
  BY <1>1, <1>2, <1>3, ListIs DEF Linked

(* The table is the records of the list.                                    *)
LEMMA KeptIs ==
  ASSUME TypeOK, Linked
  PROVE  /\ Kept = [i \in 1..Len(List) |-> method[List[i]]]
         /\ Kept \in Seq(Table!Method) /\ Len(Kept) = Len(List)
<1>1. List \in Seq(Held) /\ Len(List) \in Nat /\ DOMAIN List = 1..Len(List)
  BY ListNow
<1>2. \A m \in Held : method[m] \in Table!Method
  BY HeldIs DEF Table!Method
<1>3. \A i \in 1..Len(List) : List[i] \in Held
  BY <1>1
<1>4. Kept = [i \in 1..Len(List) |-> method[List[i]]]
  BY <1>1 DEF Kept
<1> DEFINE n == Len(List)
           k == [i \in 1..n |-> method[List[i]]]
<1>5. n \in Nat /\ \A i \in 1..n : k[i] \in Table!Method
  BY <1>1, <1>2, <1>3
<1>6. k \in Seq(Table!Method) /\ Len(k) = n
  <2> HIDE DEF n
  <2>1. QED
    BY <1>5
<1>7. QED
  BY <1>4, <1>6

(* A method added is the newest of the table.                               *)
LEMMA AddIsAdd ==
  ASSUME IInv, NEW path \in Paths, NEW types \in Specs, Add(path, types)
  PROVE  Table!AddNewest([path |-> path, types |-> types])
<1> DEFINE l == List
           n == Len(List)
           a == added'
           new == [path |-> path, types |-> types]
<1>1. TypeOK /\ Linked
  BY DEF IInv
<1>2. /\ Held' = Held \cup {a} /\ a \in Nat /\ \A m \in Held : m < a
      /\ method'[a] = new /\ \A m \in Held : method'[m] = method[m]
      /\ Linked' /\ TypeOK'
  BY <1>1, AddLinks
<1>3. a # Null /\ Numbers(Held)
  BY <1>1, <1>2, HeldIs DEF Add, Null
<1>4. l \in Seq(Held) /\ n \in Nat /\ Orders(l, n, Held)
  BY <1>1, ListNow
<1>5. List' = Append(l, a)
  <2>1. Orders(List', Len(List'), Held') /\ Numbers(Held')
    BY <1>2, ListThen
  <2> HIDE DEF l, n, a
  <2>2. Orders(Append(l, a), n + 1, Held')
    BY <1>2, <1>3, <1>4, OrderAppend
  <2>3. QED
    BY <2>1, <2>2, OrderOnly
<1>6. Kept = [i \in 1..n |-> method[l[i]]] /\ Kept \in Seq(Table!Method) /\ Len(Kept) = n
  BY <1>1, KeptIs
<1>7. Kept' = [i \in DOMAIN List' |-> method'[List'[i]]]
  BY DEF Kept
<1> HIDE DEF l, n, a, new
<1>8. DOMAIN List' = 1..n + 1 /\ \A i \in 1..n + 1 : List'[i] = IF i = n + 1 THEN a ELSE l[i]
  <2>1. l \in Seq(Held \cup {a}) /\ Len(l) = n
    BY <1>4 DEF l, n
  <2>2. QED
    BY <1>4, <1>5, <2>1
<1>9. \A i \in 1..n + 1 : i # n + 1 => i \in 1..n /\ l[i] \in Held
  <2>1. Len(l) = n
    BY DEF l, n
  <2>2. QED
    BY <1>4, <2>1
<1>10. Kept' = [i \in 1..n + 1 |-> IF i = n + 1 THEN new ELSE method[l[i]]]
  BY <1>2, <1>7, <1>8, <1>9
<1>11. Append(Kept, new) = [i \in 1..n + 1 |-> IF i = n + 1 THEN new ELSE method[l[i]]]
  <2>1. new \in Table!Method
    BY DEF new, Table!Method
  <2>2. Append(Kept, new) = [i \in 1..n + 1 |-> IF i = n + 1 THEN new ELSE Kept[i]]
    BY <1>4, <1>6, <2>1
  <2>3. \A i \in 1..n + 1 : i # n + 1 => Kept[i] = method[l[i]]
    BY <1>6, <1>9
  <2>4. QED
    BY <2>2, <2>3
<1>12. QED
  BY <1>10, <1>11 DEF Table!AddNewest, new

\* f goes over the table as Without does
Removes(f, Gone) ==
  f = [k \in 0..Len(Kept) |->
        IF k = 0 THEN << >>
        ELSE IF Kept[k] \in Gone THEN f[k - 1] ELSE Append(f[k - 1], Kept[k])]

(* The recursion of the removal is there.                                   *)
LEMMA RemovalLoop ==
  ASSUME TypeOK, Linked, NEW Gone
  PROVE  \E f \in [0..Len(Kept) -> Seq(Table!Method)] : Removes(f, Gone)
<1> DEFINE n == Len(Kept)
           V == Seq(Table!Method)
           once(m, s) == IF m \in Gone THEN s ELSE Append(s, m)
           step == [k \in 1..n |-> [s \in V |-> once(Kept[k], s)]]
<1>1. n \in Nat /\ Kept \in V /\ << >> \in V
  BY KeptIs, ListNow
<1>2. \A k \in 1..n : Kept[k] \in Table!Method
  <2> DEFINE M == Table!Method
  <2>1. Kept \in Seq(M)
    BY <1>1
  <2> HIDE DEF M
  <2>2. \A k \in 1..Len(Kept) : Kept[k] \in M
    BY <2>1
  <2>3. QED
    BY <2>2 DEF M
<1>3. ASSUME NEW m \in Table!Method, NEW s \in V PROVE once(m, s) \in V
  <2> DEFINE M == Table!Method
  <2>1. m \in M /\ s \in Seq(M)
    BY <1>3
  <2> HIDE DEF M
  <2>2. Append(s, m) \in Seq(M)
    BY <2>1
  <2>3. QED
    BY <1>3, <2>2 DEF M
<1> HIDE DEF once, V, n
<1>4. \A k \in 1..n : step[k] \in [V -> V]
  BY <1>2, <1>3 DEF n
<1>5. PICK f \in [0..n -> V] : Repeats(f, << >>, step, n)
  <2> HIDE DEF step
  <2>1. QED
    BY <1>1, <1>4, Repetition
<1>6. \A k \in 0..n : f[k] = IF k = 0 THEN << >> ELSE step[k][f[k - 1]]
  <2> HIDE DEF step
  <2>1. QED
    BY <1>5 DEF Repeats
<1>7. \A k \in 0..n : k # 0 => k \in 1..n /\ k - 1 \in 0..n
  BY <1>1
<1>8. \A k \in 0..n : k # 0 => step[k][f[k - 1]] = once(Kept[k], f[k - 1])
  BY <1>5, <1>7
<1> HIDE DEF step
<1>9. f = [k \in 0..n |-> IF k = 0 THEN << >> ELSE once(Kept[k], f[k - 1])]
  <2>1. f = [k \in 0..n |-> f[k]]
    BY <1>5
  <2>2. QED
    BY <1>6, <1>8, <2>1
<1>10. Removes(f, Gone)
  BY <1>9 DEF Removes, once, n
<1>11. QED
  BY <1>5, <1>10 DEF n, V

(* What is left of the table are the others, in order.                      *)
LEMMA RemovalIs ==
  ASSUME TypeOK, Linked, NEW Gone
  PROVE  \E b \in Seq(Held) : /\ Orders(b, Len(b), {m \in Held : method[m] \notin Gone})
                             /\ Table!Without(Gone) = [i \in 1..Len(b) |-> method[b[i]]]
<1> DEFINE l == List
           n == Len(List)
           f == CHOOSE g : Removes(g, Gone)
           Left(k) == {m \in Held : method[m] \notin Gone /\ \E i \in 1..k : m = l[i]}
           Good(k) == \E b \in Seq(Held) : /\ Orders(b, Len(b), Left(k))
                                          /\ f[k] = [i \in 1..Len(b) |-> method[b[i]]]
           T == {k \in 0..n : Good(k)}
<1>1. n \in Nat /\ Orders(l, n, Held) /\ Numbers(Held)
  BY ListNow, HeldIs
<1>2. Kept = [i \in 1..n |-> method[l[i]]] /\ Len(Kept) = n
  BY KeptIs
<1>3. Removes(f, Gone)
  BY RemovalLoop
<1>4. Table!Without(Gone) = f[n]
  BY <1>2 DEF Table!Without, Removes
<1> HIDE DEF l, n, f
<1>5. /\ f[0] = << >>
      /\ \A k \in 1..n : f[k] = IF method[l[k]] \in Gone THEN f[k - 1]
                                ELSE Append(f[k - 1], method[l[k]])
  <2>1. \A k \in 0..n : f[k] = IF k = 0 THEN << >>
          ELSE IF Kept[k] \in Gone THEN f[k - 1] ELSE Append(f[k - 1], Kept[k])
    BY <1>2, <1>3 DEF Removes
  <2>2. 0 \in 0..n /\ \A k \in 1..n : k \in 0..n /\ k # 0 /\ Kept[k] = method[l[k]]
    BY <1>1, <1>2
  <2>3. QED
    BY <2>1, <2>2
<1>6. Good(0)
  <2> DEFINE b == << >>
  <2>1. Left(0) = {} /\ b \in Seq(Held) /\ Len(b) = 0
    OBVIOUS
  <2>2. Following({}, 0) = Null
    BY DEF Following
  <2>3. Orders(b, 0, {})
    BY <2>2 DEF Orders
  <2>4. f[0] = [i \in 1..Len(b) |-> method[b[i]]]
    BY <1>5
  <2> HIDE DEF Left
  <2>5. QED
    BY <2>1, <2>3, <2>4
<1>7. ASSUME NEW k \in 0..n - 1, Good(k) PROVE Good(k + 1)
  <2> DEFINE m == l[k + 1]
             K == Left(k)
  <2>1. k + 1 \in 1..n /\ k < n /\ k + 1 - 1 = k /\ k \in Nat
    BY <1>1
  <2>2. /\ m \in Held /\ m \in Nat /\ m # Null /\ \A i \in 1..k : l[i] < m
    <3>1. \A i \in 1..k : i \in 1..n /\ i < k + 1
      BY <1>1, <2>1
    <3>2. QED
      BY <1>1, <2>1, <3>1, OrderAscends
  <2>3. f[k + 1] = IF method[m] \in Gone THEN f[k] ELSE Append(f[k], method[m])
    BY <1>5, <2>1
  <2>4. PICK b \in Seq(Held) : Orders(b, Len(b), K) /\ f[k] = [i \in 1..Len(b) |-> method[b[i]]]
    BY <1>7
  <2>5. /\ K \subseteq Held /\ Numbers(K) /\ \A x \in K : x < m
    BY <1>1, <2>2 DEF Numbers
  <2>6. Left(k + 1) = IF method[m] \in Gone THEN K ELSE K \cup {m}
    <3>1. \A i \in 1..k + 1 : i \in 1..k \/ i = k + 1
      BY <2>1
    <3>2. \A i \in 1..k : i \in 1..k + 1
      BY <2>1
    <3>3. k + 1 \in 1..k + 1
      BY <2>1
    <3>4. QED
      BY <2>2, <3>1, <3>2, <3>3
  <2> HIDE DEF K, m, Left
  <2>7. CASE method[m] \in Gone
    BY <2>3, <2>4, <2>6, <2>7
  <2>8. CASE method[m] \notin Gone
    <3> DEFINE c == Append(b, m)
               j == Len(b)
               s == [i \in 1..j |-> method[b[i]]]
    <3>1. Orders(c, j + 1, K \cup {m}) /\ j \in Nat
      <4>1. Orders(b, j, K) /\ j \in Nat
        BY <2>4
      <4> HIDE DEF j
      <4>2. QED
        BY <2>2, <2>5, <4>1, OrderAppend
    <3>2. /\ c \in Seq(Held) /\ Len(c) = j + 1
          /\ \A i \in 1..j + 1 : c[i] = IF i = j + 1 THEN m ELSE b[i]
      BY <2>2, <2>4
    <3> HIDE DEF c, j
    <3>3. Append(s, method[m]) = [i \in 1..j + 1 |-> IF i = j + 1 THEN method[m] ELSE s[i]]
      <4> DEFINE A == {method[b[i]] : i \in 1..j} \cup {method[m]}
      <4>1. s \in Seq(A) /\ Len(s) = j /\ method[m] \in A
        BY <3>1
      <4> HIDE DEF A, s
      <4>2. QED
        BY <3>1, <4>1
    <3>4. \A i \in 1..j + 1 : i # j + 1 => s[i] = method[b[i]]
      BY <3>1
    <3> HIDE DEF s
    <3>5. Append(s, method[m]) = [i \in 1..j + 1 |-> method[c[i]]]
      BY <3>2, <3>3, <3>4
    <3>6. f[k + 1] = [i \in 1..Len(c) |-> method[c[i]]]
      BY <2>3, <2>4, <2>8, <3>2, <3>5 DEF s, j
    <3>7. Orders(c, Len(c), Left(k + 1))
      BY <2>6, <2>8, <3>1, <3>2
    <3>8. QED
      BY <3>2, <3>6, <3>7
  <2>9. QED
    BY <2>7, <2>8
<1>8. Left(n) = {m \in Held : method[m] \notin Gone}
  <2>1. {l[i] : i \in 1..n} = Held
    BY <1>1, OrderCovers
  <2>2. QED
    BY <2>1
<1> HIDE DEF Good
<1>9. Good(n)
  <2>1. 0 \in T /\ \A k \in 0..n - 1 : k \in T => k + 1 \in T
    BY <1>1, <1>6, <1>7
  <2> HIDE DEF T
  <2>2. Inductive(T, n)
    BY <2>1 DEF Inductive
  <2>3. n \in T
    BY <1>1, <2>2, AllNumbers
  <2>4. QED
    BY <2>3 DEF T
<1> HIDE DEF Left
<1>10. QED
  BY <1>4, <1>8, <1>9 DEF Good

(* A deletion removes from the table what lo.h says.                        *)
LEMMA DeleteIsRemove ==
  ASSUME MatchAgrees, IInv, NEW path \in Deletions, NEW types \in Specs, Delete(path, types)
  PROVE  Table!RemoveAll(path, types)
<1> DEFINE Gone == {m \in Table!Method : Table!Given(path, m) /\ m.types = types}
           Rest == {m \in Held : method[m] \notin Gone}
<1>1. TypeOK /\ Linked
  BY DEF IInv
<1>2. /\ Held' = {m \in Held : ~ Deleted(m, path, types)}
      /\ \A m \in Held' : m \in Held /\ method'[m] = method[m]
      /\ Linked' /\ TypeOK'
  BY <1>1, DeleteLinks
<1>3. ASSUME NEW m \in Held PROVE Deleted(m, path, types) <=> method[m] \in Gone
  <2> DEFINE q == method[m].path
  <2>1. method[m] \in Table!Method /\ q \in Paths
    <3>1. method[m] \in [path : Paths, types : Specs]
      BY <1>1, HeldIs
    <3>2. QED
      BY <3>1 DEF Table!Method
  <2>2. method[m] \in Gone <=> Table!Given(path, method[m]) /\ method[m].types = types
    BY <2>1
  <2>3. q # NoPath => ~ IsPattern(q)
    BY <2>1, DispatchAssumption
  <2>4. CASE NoPath \in {path, q}
    BY <2>2, <2>4 DEF Deleted, Table!Given
  <2>5. CASE NoPath \notin {path, q} /\ IsPattern(path)
    <3>1. q # path
      BY <2>3, <2>5
    <3>2. Match(q, path) <=> StandsFor(path, q)
      BY <2>1, <2>5 DEF MatchAgrees
    <3>3. Table!Given(path, method[m]) <=> StandsFor(path, q)
      BY <2>5 DEF Table!Given, Table!StandsFor, StandsFor, Table!IsPattern, IsPattern, Table!Means, Means, Table!Special, Special
    <3> HIDE DEF Gone, q
    <3>4. QED
      BY <2>2, <2>5, <3>1, <3>2, <3>3 DEF Deleted, q
  <2>6. CASE NoPath \notin {path, q} /\ ~ IsPattern(path)
    <3>1. Table!Given(path, method[m]) <=> q = path
      BY <2>6 DEF Table!Given, Table!StandsFor, Table!IsPattern, IsPattern, Table!Special, Special
    <3>2. QED
      BY <2>2, <2>6, <3>1 DEF Deleted
  <2>7. QED
    BY <2>4, <2>5, <2>6
<1> HIDE DEF Gone
<1>4. Held' = Rest
  BY <1>2, <1>3
<1>5. PICK b \in Seq(Held) : /\ Orders(b, Len(b), Rest)
                            /\ Table!Without(Gone) = [i \in 1..Len(b) |-> method[b[i]]]
  BY <1>1, RemovalIs
<1>6. Orders(List', Len(List'), Held') /\ Numbers(Held')
  BY <1>2, ListThen
<1> HIDE DEF Rest
<1>7. List' = b
  BY <1>4, <1>5, <1>6, OrderOnly
<1>8. Kept' = [i \in DOMAIN List' |-> method'[List'[i]]]
  BY DEF Kept
<1> DEFINE n == Len(b)
<1>9. n \in Nat /\ b \in [1..n -> Rest]
  BY <1>5 DEF Orders
<1> HIDE DEF n
<1>10. Kept' = [i \in 1..n |-> method[b[i]]]
  BY <1>2, <1>4, <1>7, <1>8, <1>9
<1>11. Kept' = Table!Without(Gone)
  BY <1>5, <1>10 DEF n
<1>12. QED
  BY <1>11 DEF Table!RemoveAll, Gone

(* Nothing else changes the table.                                          *)
LEMMA StepsOfTable ==
  ASSUME MatchAgrees, IInv, [Next]_vars
  PROVE  [Table!MethodsNext]_Kept
<1>1. ASSUME AddMethod PROVE Table!MethodsNext
  <2>1. PICK path \in Paths, types \in Specs : Add(path, types)
    BY <1>1 DEF AddMethod
  <2>2. Table!AddNewest([path |-> path, types |-> types])
    BY <2>1, AddIsAdd
  <2>3. [path |-> path, types |-> types] \in Table!Method
    BY DEF Table!Method
  <2>4. QED
    BY <2>2, <2>3 DEF Table!MethodsNext
<1>2. ASSUME DelMethod PROVE Table!MethodsNext
  <2>1. PICK path \in Deletions, types \in Specs : Delete(path, types)
    BY <1>2 DEF DelMethod
  <2>2. Table!RemoveAll(path, types)
    BY <2>1, DeleteIsRemove
  <2>3. QED
    BY <2>2 DEF Table!MethodsNext
<1>3. ASSUME Dispatch \/ UNCHANGED vars PROVE Kept' = Kept
  <2>1. UNCHANGED listVars
    BY <1>3 DEF Dispatch, Receive, Skip, Call, Return, EndWalk, Enumerate, vars
  <2>2. List' = List
    BY <2>1 DEF List, listVars
  <2>3. QED
    BY <2>1, <2>2 DEF Kept, listVars
<1>4. QED
  BY <1>1, <1>2, <1>3 DEF Next

(* The pointers implement the table of methods that lo.h describes.         *)
THEOREM PointersImplementTable ==
  ASSUME MatchAgrees
  PROVE  Spec => ImplementsMethodTable
<1>1. Init => Table!MethodsInit
  <2>1. SUFFICES ASSUME Init PROVE Kept = << >>
    BY DEF Table!MethodsInit
  <2>2. TypeOK /\ Linked /\ Held = {}
    BY <2>1, InitHolds DEF IInv, Init, Held
  <2>3. Orders(List, Len(List), {})
    BY <2>2, ListNow
  <2>4. Len(List) = 0
    <3> DEFINE n == Len(List)
    <3>1. n \in Nat /\ List \in [1..n -> {}]
      BY <2>3 DEF Orders
    <3> HIDE DEF n
    <3>2. n # 0 => 1 \in 1..n
      BY <3>1
    <3>3. n = 0
      BY <3>1, <3>2
    <3>4. QED
      BY <3>3 DEF n
  <2>5. QED
    BY <2>2, <2>4, KeptIs
<1>2. IInv /\ [Next]_vars => [Table!MethodsNext]_Kept
  BY StepsOfTable
<1>3. QED
  BY Invariant, <1>1, <1>2, PTL DEF Spec, ImplementsMethodTable, Table!MethodTable

-----------------------------------------------------------------------------
(* The replies. *)

(* There is a first place, the end if no other.                             *)
LEMMA FindIs ==
  ASSUME NEW p, Len(p) \in Nat, NEW j \in 1..Len(p) + 1, NEW C
  PROVE  /\ Find(p, j, C) \in j..Len(p) + 1
         /\ Find(p, j, C) = Len(p) + 1 \/ p[Find(p, j, C)] \in C
         /\ \A l \in j..Find(p, j, C) - 1 : p[l] \notin C
<1> DEFINE n == Len(p)
           T == {k \in j..n + 1 : k = n + 1 \/ p[k] \in C}
<1> HIDE DEF n
<1>1. n \in Nat /\ j \in Nat /\ j \in 1..n + 1
  BY DEF n
<1>2. T \subseteq Nat /\ n + 1 \in T
  BY <1>1
<1>3. PICK k \in T : \A l \in T : k <= l
  <2> HIDE DEF T
  <2>1. QED
    BY <1>2, LeastElement
<1>4. k \in j..n + 1 /\ (k = n + 1 \/ p[k] \in C) /\ \A l \in j..k - 1 : p[l] \notin C
  <2>1. k \in j..n + 1 /\ (k = n + 1 \/ p[k] \in C) /\ k \in Nat
    BY <1>1, <1>3
  <2>2. ASSUME NEW l \in j..k - 1 PROVE p[l] \notin C
    <3>1. l \in j..n + 1 /\ ~ (k <= l)
      BY <1>1, <2>1
    <3>2. l \notin T
      BY <1>3, <3>1
    <3>3. QED
      BY <3>1, <3>2
  <2>3. QED
    BY <2>1, <2>2
<1>5. Find(p, j, C) = CHOOSE x \in j..n + 1 : /\ x = n + 1 \/ p[x] \in C
                                            /\ \A l \in j..x - 1 : p[l] \notin C
  BY DEF Find, n
<1>6. QED
  BY <1>4, <1>5 DEF n

(* The segment of a path below another is what comes next in it.            *)
LEMMA SegmentIs ==
  ASSUME NEW p \in Seq(Character), NEW q \in Seq(Character), IsPrefix(p, q)
  PROVE  /\ Segment(q, Len(p)) \in Seq(Character)
         /\ IsPrefix(p \o Segment(q, Len(p)), q)
<1> DEFINE n == Len(p)
           m == Len(q)
           f == Find(q, n + 1, {"/"})
           s == SubSeq(q, n + 1, f - 1)
<1>1. n \in Nat /\ m \in Nat /\ n <= m /\ SubSeq(p, 1, n) = SubSeq(q, 1, n)
  BY DEF IsPrefix
<1>2. \A i \in 1..n : p[i] \in Character
  BY ElementOfSeq
<1>3. \A i \in 1..m : q[i] \in Character
  BY ElementOfSeq
<1>4. f \in n + 1..m + 1
  <2>1. n + 1 \in 1..m + 1
    BY <1>1
  <2>2. QED
    BY <1>1, <2>1, FindIs
<1> HIDE DEF n, m, f
<1>5. /\ s \in Seq(Character) /\ Len(s) = f - 1 - n
      /\ \A i \in 1..f - 1 - n : s[i] = q[n + i]
  <2>1. \A i \in n + 1..f - 1 : q[i] \in Character
    BY <1>1, <1>3, <1>4
  <2>2. n + 1 \in Int /\ f - 1 \in Int
    BY <1>1, <1>4
  <2>3. /\ s \in Seq(Character) /\ Len(s) = IF n + 1 <= f - 1 THEN f - 1 - (n + 1) + 1 ELSE 0
        /\ \A i \in 1..f - 1 - (n + 1) + 1 : s[i] = q[n + 1 + i - 1]
    <3> HIDE DEF s
    <3>1. QED
      BY <2>1, <2>2, SubSeqProperties DEF s
  <2> HIDE DEF s
  <2>4. f - 1 - (n + 1) + 1 = f - 1 - n /\ \A i \in 1..f - 1 - n : n + 1 + i - 1 = n + i
    BY <1>1, <1>4
  <2>5. QED
    BY <1>1, <1>4, <2>3, <2>4
<1> HIDE DEF s
<1>6. \A i \in 1..n : p[i] = q[i]
  <2>1. \A i \in 1..n : SubSeq(p, 1, n)[i] = p[i] /\ SubSeq(q, 1, n)[i] = q[i]
    <3>1. 1 \in Int /\ n \in Int /\ n - 1 + 1 = n /\ \A i \in 1..n : 1 + i - 1 = i /\ q[i] \in Character
      BY <1>1, <1>3
    <3>2. \A i \in 1..n - 1 + 1 : SubSeq(p, 1, n)[i] = p[1 + i - 1]
      BY <1>2, <3>1, SubSeqProperties
    <3>3. \A i \in 1..n - 1 + 1 : SubSeq(q, 1, n)[i] = q[1 + i - 1]
      BY <3>1, SubSeqProperties
    <3>4. QED
      BY <3>1, <3>2, <3>3
  <2>2. QED
    BY <1>1, <2>1
<1> DEFINE c == p \o s
           e == f - 1
<1>7. /\ c \in Seq(Character) /\ Len(c) = e
      /\ \A i \in 1..e : c[i] = q[i]
  <2>1. /\ c \in Seq(Character) /\ Len(c) = Len(p) + Len(s)
        /\ \A i \in 1..Len(p) + Len(s) : c[i] = IF i <= Len(p) THEN p[i] ELSE s[i - Len(p)]
    BY <1>5, ConcatProperties
  <2> HIDE DEF c
  <2>2. Len(p) = n /\ n + (f - 1 - n) = e /\ e \in Nat
    BY <1>1, <1>4 DEF n
  <2> HIDE DEF e
  <2>3. Len(c) = e /\ \A i \in 1..e : c[i] = IF i <= n THEN p[i] ELSE s[i - n]
    BY <1>5, <2>1, <2>2
  <2>4. ASSUME NEW i \in 1..e PROVE c[i] = q[i]
    <3>1. CASE i <= n
      <4>1. i \in 1..n
        BY <1>1, <2>2, <3>1
      <4>2. QED
        BY <1>6, <2>3, <3>1, <4>1
    <3>2. CASE ~ (i <= n)
      <4>1. i - n \in 1..f - 1 - n /\ n + (i - n) = i
        BY <1>1, <1>4, <2>2, <3>2 DEF e
      <4>2. s[i - n] = q[i]
        BY <1>5, <4>1
      <4>3. QED
        BY <2>3, <3>2, <4>2
    <3>3. QED
      BY <3>1, <3>2
  <2>5. QED
    BY <2>1, <2>3, <2>4
<1> HIDE DEF c
<1>8. e \in Nat /\ e <= m
  BY <1>1, <1>4
<1> HIDE DEF e
<1>9. SubSeq(c, 1, e) = SubSeq(q, 1, e)
  <2>1. SubSeq(c, 1, e) = [i \in 1..e |-> c[i]]
    <3>1. 1 \in Int /\ e \in Int /\ \A i \in 1..e : c[i] \in Character
      BY <1>7, <1>8, <1>3
    <3>2. QED
      BY <1>8
  <2>2. SubSeq(q, 1, e) = [i \in 1..e |-> q[i]]
    BY <1>8
  <2>3. QED
    BY <1>7, <2>1, <2>2
<1>10. IsPrefix(c, q)
  BY <1>7, <1>8, <1>9 DEF IsPrefix, m
<1>11. Segment(q, Len(p)) = s
  BY DEF Segment, s, f, n
<1>12. QED
  BY <1>5, <1>10, <1>11 DEF c

\* f collects the names as Names does
Collects(f, path) ==
  f = [k \in 0..Len(List) |->
        IF k = 0 THEN << >>
        ELSE LET name == Segment(method[List[k]].path, Len(path))
                 before == f[k - 1]
             IN  IF Under(List[k], path) /\ NewName(before, name)
                 THEN Append(before, name) ELSE before]

(* A method below a path has one more segment.                              *)
LEMMA UnderIs ==
  ASSUME TypeOK, NEW path \in Seq(Character), NEW m \in Held, Under(m, path)
  PROVE  /\ Segment(method[m].path, Len(path)) \in Seq(Character)
         /\ IsPrefix(path \o Segment(method[m].path, Len(path)), method[m].path)
<1>1. method[m] \in [path : Paths, types : Specs]
  BY HeldIs
<1>2. method[m].path \in Paths \ {NoPath} /\ IsPrefix(path, method[m].path)
  BY <1>1 DEF Under
<1>3. method[m].path \in Seq(Character)
  BY <1>2, DispatchAssumption
<1>4. QED
  BY <1>2, <1>3, SegmentIs

(* The recursion that collects the names is there.                          *)
LEMMA NamesLoop ==
  ASSUME TypeOK, Linked, NEW path \in Seq(Character)
  PROVE  \E f \in [0..Len(List) -> Seq(Seq(Character))] : Collects(f, path)
<1> DEFINE n == Len(List)
           C == Seq(Character)
           V == Seq(C)
           name(m) == Segment(method[m].path, Len(path))
           once(m, s) == IF Under(m, path) /\ NewName(s, name(m)) THEN Append(s, name(m)) ELSE s
           step == [k \in 1..n |-> [s \in V |-> once(List[k], s)]]
<1>1. n \in Nat /\ << >> \in V
  BY ListNow
<1>2. \A k \in 1..n : List[k] \in Held
  BY ListNow
<1>3. ASSUME NEW m \in Held, NEW s \in V PROVE once(m, s) \in V
  <2>1. Under(m, path) => name(m) \in C
    BY UnderIs
  <2> HIDE DEF C, name
  <2>2. QED
    BY <2>1
<1> HIDE DEF once, V, n, C
<1>4. \A k \in 1..n : step[k] \in [V -> V]
  BY <1>2, <1>3
<1>5. PICK f \in [0..n -> V] : Repeats(f, << >>, step, n)
  <2> HIDE DEF step
  <2>1. QED
    BY <1>1, <1>4, Repetition
<1>6. \A k \in 0..n : f[k] = IF k = 0 THEN << >> ELSE step[k][f[k - 1]]
  <2> HIDE DEF step
  <2>1. QED
    BY <1>5 DEF Repeats
<1>7. \A k \in 0..n : k # 0 => k \in 1..n /\ k - 1 \in 0..n
  BY <1>1
<1>8. \A k \in 0..n : k # 0 => step[k][f[k - 1]] = once(List[k], f[k - 1])
  BY <1>5, <1>7
<1> HIDE DEF step
<1>9. f = [k \in 0..n |-> IF k = 0 THEN << >> ELSE once(List[k], f[k - 1])]
  <2>1. f = [k \in 0..n |-> f[k]]
    BY <1>5
  <2>2. QED
    BY <1>6, <1>8, <2>1
<1>10. Collects(f, path)
  BY <1>9 DEF Collects, once, n
<1>11. QED
  BY <1>5, <1>10 DEF n, V, C

\* names are the next segments of the paths of the methods in S below path, each once
NamesOf(names, path, S) ==
  /\ names \in Seq(Seq(Character))
  /\ \A i, j \in DOMAIN names : names[i] = names[j] => i = j
  /\ \A m \in S : Under(m, path) =>
       \E i \in DOMAIN names : names[i] = Segment(method[m].path, Len(path))
  /\ \A i \in DOMAIN names :
       \E m \in S : Under(m, path) /\ Segment(method[m].path, Len(path)) = names[i]

(* It collects each name once, and all of them.                             *)
LEMMA NamesAre ==
  ASSUME TypeOK, Linked, NEW path \in Seq(Character)
  PROVE  NamesOf(Names(path), path, Held)
<1> DEFINE l == List
           n == Len(List)
           f == CHOOSE g : Collects(g, path)
           name(m) == Segment(method[m].path, Len(path))
           Seen(k) == {l[i] : i \in 1..k}
           T == {k \in 0..n : NamesOf(f[k], path, Seen(k))}
<1>1. n \in Nat /\ (\A k \in 1..n : l[k] \in Held) /\ Orders(l, n, Held) /\ Numbers(Held)
  BY ListNow, HeldIs
<1>2. Collects(f, path)
  BY NamesLoop
<1>3. Names(path) = f[n]
  BY DEF Names, Collects
<1>4. /\ f[0] = << >>
      /\ \A k \in 1..n : f[k] = IF Under(l[k], path) /\ NewName(f[k - 1], name(l[k]))
                                THEN Append(f[k - 1], name(l[k])) ELSE f[k - 1]
  <2> HIDE DEF f
  <2>1. \A k \in 0..n : f[k] = IF k = 0 THEN << >>
          ELSE IF Under(l[k], path) /\ NewName(f[k - 1], name(l[k]))
               THEN Append(f[k - 1], name(l[k])) ELSE f[k - 1]
    BY <1>2 DEF Collects
  <2> HIDE DEF l, n, name
  <2>2. 0 \in 0..n /\ \A k \in 1..n : k \in 0..n /\ k # 0
    BY <1>1
  <2>3. QED
    BY <2>1, <2>2
<1> HIDE DEF l, n, f
<1>5. NamesOf(f[0], path, Seen(0))
  BY <1>4 DEF NamesOf
<1>6. ASSUME NEW k \in 0..n - 1, NamesOf(f[k], path, Seen(k)) PROVE NamesOf(f[k + 1], path, Seen(k + 1))
  <2> DEFINE m == l[k + 1]
             a == name(m)
             s == f[k]
             K == Seen(k)
  <2>1. k + 1 \in 1..n /\ k + 1 - 1 = k /\ m \in Held
    BY <1>1
  <2>2. Seen(k + 1) = K \cup {m}
    <3>1. \A i \in 1..k + 1 : i \in 1..k \/ i = k + 1
      BY <2>1
    <3>2. \A i \in 1..k : i \in 1..k + 1
      BY <2>1
    <3>3. k + 1 \in 1..k + 1
      BY <2>1
    <3>4. QED
      BY <3>1, <3>2, <3>3
  <2>3. f[k + 1] = IF Under(m, path) /\ NewName(s, a) THEN Append(s, a) ELSE s
    BY <1>4, <2>1
  <2>4. Under(m, path) => a \in Seq(Character)
    BY <2>1, UnderIs
  <2>5. NamesOf(s, path, K)
    BY <1>6
  <2>6. \A x : name(x) = Segment(method[x].path, Len(path))
    OBVIOUS
  <2>7. a = name(m)
    OBVIOUS
  <2>8. s \in Seq(Seq(Character)) /\ Len(s) \in Nat /\ DOMAIN s = 1..Len(s)
    BY <2>5 DEF NamesOf
  <2> HIDE DEF m, a, s, K, Seen, name
  <2>9. CASE Under(m, path) /\ NewName(s, a)
    <3> DEFINE r == Append(s, a)
               j == Len(s)
               C == Seq(Character)
    <3>1. a \in C /\ s \in Seq(C)
      BY <2>4, <2>8, <2>9
    <3> HIDE DEF C
    <3>2. r \in Seq(C) /\ Len(r) = j + 1 /\ \A i \in 1..j + 1 : r[i] = IF i = j + 1 THEN a ELSE s[i]
      BY <2>8, <3>1
    <3>3. DOMAIN r = 1..j + 1 /\ j \in Nat
      BY <2>8, <3>2
    <3>4. \A i \in 1..j : s[i] # a
      BY <2>9 DEF NewName, Contains
    <3>5. DOMAIN s = 1..j
      BY <2>8
    <3> HIDE DEF r, j
    <3>6. \A i, h \in DOMAIN r : r[i] = r[h] => i = h
      <4>1. \A i \in 1..j + 1 : i = j + 1 \/ i \in 1..j
        BY <3>3
      <4>2. \A i \in 1..j : i \in 1..j + 1 /\ i # j + 1 /\ r[i] = s[i]
        BY <3>2, <3>3
      <4>3. j + 1 \in 1..j + 1 /\ r[j + 1] = a
        BY <3>2, <3>3
      <4>4. \A i, h \in 1..j : s[i] = s[h] => i = h
        BY <2>5, <3>5 DEF NamesOf
      <4>5. QED
        BY <3>3, <3>4, <4>1, <4>2, <4>3, <4>4
    <3>7. ASSUME NEW x \in K \cup {m}, Under(x, path) PROVE \E i \in DOMAIN r : r[i] = name(x)
      <4>1. CASE x = m
        <5>1. j + 1 \in DOMAIN r /\ r[j + 1] = a
          BY <3>2, <3>3
        <5>2. QED
          BY <2>7, <4>1, <5>1
      <4>2. CASE x \in K
        <5>1. PICK i \in 1..j : s[i] = name(x)
          BY <2>5, <2>6, <3>5, <3>7, <4>2 DEF NamesOf
        <5>2. i \in DOMAIN r /\ r[i] = s[i]
          BY <3>2, <3>3
        <5>3. QED
          BY <5>1, <5>2
      <4>3. QED
        BY <4>1, <4>2
    <3>8. ASSUME NEW i \in DOMAIN r PROVE \E x \in K \cup {m} : Under(x, path) /\ name(x) = r[i]
      <4>1. CASE i = j + 1
        BY <2>7, <2>9, <3>2, <3>3, <4>1
      <4>2. CASE i # j + 1
        <5>1. i \in 1..j /\ r[i] = s[i]
          BY <3>2, <3>3, <4>2
        <5>2. PICK x \in K : Under(x, path) /\ name(x) = s[i]
          BY <2>5, <2>6, <3>5, <5>1 DEF NamesOf
        <5>3. QED
          BY <5>1, <5>2
      <4>3. QED
        BY <4>1, <4>2
    <3>9. NamesOf(r, path, K \cup {m})
      BY <2>6, <3>2, <3>6, <3>7, <3>8 DEF NamesOf, C
    <3>10. QED
      BY <2>2, <2>3, <2>9, <3>9 DEF r
  <2>10. CASE ~ (Under(m, path) /\ NewName(s, a))
    <3>1. Under(m, path) => \E i \in DOMAIN s : s[i] = name(m)
      BY <2>7, <2>8, <2>10 DEF NewName, Contains
    <3>2. NamesOf(s, path, K \cup {m})
      BY <2>5, <2>6, <3>1 DEF NamesOf
    <3>3. QED
      BY <2>2, <2>3, <2>10, <3>2
  <2>11. QED
    BY <2>9, <2>10
<1>7. Seen(n) = Held
  BY <1>1, OrderCovers
<1> HIDE DEF Seen
<1>8. NamesOf(f[n], path, Seen(n))
  <2>1. 0 \in T /\ \A k \in 0..n - 1 : k \in T => k + 1 \in T
    BY <1>1, <1>5, <1>6
  <2> HIDE DEF T
  <2>2. Inductive(T, n)
    BY <2>1 DEF Inductive
  <2>3. n \in T
    BY <1>1, <2>2, AllNumbers
  <2>4. QED
    BY <2>3 DEF T
<1>9. QED
  BY <1>3, <1>7, <1>8

(* A reply is the names below the message's path, and no handler took it.   *)
LEMMA ReplyIs ==
  ASSUME IInv, Next, reply' # reply, reply' # NoReply
  PROVE  /\ \A i \in DOMAIN calls : calls[i].ret = 0 => IsPattern(msg.path) /\ i < Len(calls)
         /\ NamesOf(reply', msg.path, Held)
         /\ msg.path \in Seq(Character)
<1>1. Enumerate /\ reply' = Names(msg.path)
  <2>1. Enumerate
    BY DEF Next, AddMethod, Add, DelMethod, Delete, Dispatch, Receive, Skip, Call, Return, EndWalk, walkVars
  <2>2. QED
    BY <2>1 DEF Enumerate
<1>2. TypeOK /\ Linked /\ Position /\ Order /\ pc = "enumerate" /\ ret = 1 /\ msg \in Messages
  BY <1>1 DEF IInv, Enumerate, Position, Enumerates
<1>3. msg.path \in Seq(Character)
  BY <1>2, DispatchAssumption
<1>4. NamesOf(reply', msg.path, Held)
  BY <1>1, <1>2, <1>3, NamesAre
<1>5. ASSUME NEW i \in DOMAIN calls, calls[i].ret = 0 PROVE IsPattern(msg.path) /\ i < Len(calls)
  <2> DEFINE n == Len(calls)
  <2>1. n \in Nat /\ i \in 1..n
    BY <1>2, CallsAre
  <2>2. calls # << >> /\ Last(calls) = calls[n]
    BY <2>1 DEF Last
  <2>3. calls[n].ret = 1
    BY <1>2, <2>2 DEF Order
  <2>4. \A j \in 1..n - 1 : calls[j].ret = 0 => IsPattern(msg.path)
    BY <1>2 DEF Order
  <2> HIDE DEF n
  <2>5. i \in 1..n - 1 /\ i < n
    BY <1>5, <2>1, <2>3
  <2>6. QED
    BY <1>5, <2>4, <2>5 DEF n
<1>6. QED
  BY <1>3, <1>4, <1>5

(* What an enumeration replies is what is below the path, and all of it.    *)
THEOREM RepliesAreRight == Spec => RepliesAreTruthful
<1> DEFINE Truthful ==
      reply' # reply /\ reply' # NoReply =>
        LET p == msg.path IN
        /\ \A i \in DOMAIN calls : calls[i].ret = 0 => IsPattern(p) /\ i < Len(calls)
        /\ \A i, j \in DOMAIN reply' : reply'[i] = reply'[j] => i = j
        /\ \A m \in Registered : Under(m, p) =>
             \E i \in DOMAIN reply' : IsPrefix(p \o reply'[i], method[m].path)
        /\ \A i \in DOMAIN reply' :
             \E m \in Registered : Under(m, p) /\ Segment(method[m].path, Len(p)) = reply'[i]
<1>1. IInv /\ [Next]_vars => [Truthful]_vars
  <2>1. SUFFICES ASSUME IInv, Next, reply' # reply, reply' # NoReply PROVE Truthful
    BY DEF vars, walkVars
  <2> DEFINE p == msg.path
  <2>2. /\ \A i \in DOMAIN calls : calls[i].ret = 0 => IsPattern(p) /\ i < Len(calls)
        /\ NamesOf(reply', p, Held) /\ p \in Seq(Character)
    BY <2>1, ReplyIs
  <2>3. TypeOK /\ Linked /\ Registered = Held
    BY <2>1, ListNow DEF IInv
  <2> HIDE DEF p
  <2>4. ASSUME NEW m \in Registered, Under(m, p)
        PROVE  \E i \in DOMAIN reply' : IsPrefix(p \o reply'[i], method[m].path)
    <3>1. PICK i \in DOMAIN reply' : reply'[i] = Segment(method[m].path, Len(p))
      BY <2>2, <2>3, <2>4 DEF NamesOf
    <3>2. IsPrefix(p \o Segment(method[m].path, Len(p)), method[m].path)
      BY <2>2, <2>3, <2>4, UnderIs
    <3>3. QED
      BY <3>1, <3>2
  <2>5. /\ \A i, j \in DOMAIN reply' : reply'[i] = reply'[j] => i = j
        /\ \A i \in DOMAIN reply' :
             \E m \in Registered : Under(m, p) /\ Segment(method[m].path, Len(p)) = reply'[i]
    BY <2>2, <2>3 DEF NamesOf
  <2>6. QED
    BY <2>2, <2>4, <2>5 DEF p
<1>2. QED
  BY Invariant, <1>1, PTL DEF Spec, RepliesAreTruthful

-----------------------------------------------------------------------------
(* Patterns without lists. *)

\* a part that is a plain character, a ? for any one, or a * for any string of them
Plain(part, c) == part.means = {<<c>>} /\ c \notin {"*", "?", "[", "{"}
AnyOne(part, c, s, N) ==
  /\ c = "?"
  /\ \A b, e \in 0..N : b <= e => (SubSeq(s, b + 1, e) \in part.means <=> e = b + 1)
AnyText(part, c, s, N) ==
  /\ c = "*"
  /\ \A b, e \in 0..N : b <= e => SubSeq(s, b + 1, e) \in part.means

\* p is a pattern of n such parts
WithoutLists(p, n, parts, s, N) ==
  /\ Len(parts) = n /\ Len(p) = n
  /\ \A k \in 1..n : \/ Plain(parts[k], p[k])
                     \/ AnyOne(parts[k], p[k], s, N)
                     \/ AnyText(parts[k], p[k], s, N)

\* f matches p from every place on, as Match does
Matches(f, s, p) ==
  f = [j \in 1..Len(p) + 1 |->
        IF j > Len(p) THEN {Len(s) + 1}
        ELSE LET rest == f[j + 1]
             IN  CASE p[j] = "*" -> IF j = Len(p) THEN 1..Len(s) + 1
                                    ELSE IF p[j + 1] = "*" THEN rest
                                    ELSE Star(s, rest)
                   [] p[j] = "?" -> {i \in 1..Len(s) : i + 1 \in rest}
                   [] p[j] = "[" -> Set(s, p, j, f)
                   [] p[j] = "{" -> Braces(s, p, j, f)
                   [] OTHER -> {i \in 1..Len(s) : s[i] = p[j] /\ i + 1 \in rest}]

\* one place of a pattern without lists, rest: where what is behind it matches
OnePlace(s, p, j, rest) ==
  IF p[j] = "*" THEN IF j = Len(p) THEN 1..Len(s) + 1
                     ELSE IF p[j + 1] = "*" THEN rest ELSE Star(s, rest)
  ELSE IF p[j] = "?" THEN {i \in 1..Len(s) : i + 1 \in rest}
  ELSE {i \in 1..Len(s) : s[i] = p[j] /\ i + 1 \in rest}

\* s has N characters, and p n, none of which begins a list
Bare(s, N, p, n) == Len(s) = N /\ Len(p) = n /\ \A k \in 1..n : p[k] \notin {"[", "{"}

\* f has the places at which each place of p matches
MatchesOf(f, s, N, p, n) ==
  f[n + 1] = {N + 1} /\ \A j \in 1..n : f[j] = OnePlace(s, p, j, f[j + 1])

(* The recursion of the matcher is there, and goes on from place to place.  *)
LEMMA MatchesIs ==
  ASSUME NEW s, NEW N \in Nat, NEW p, NEW n \in Nat, Bare(s, N, p, n)
  PROVE  \E f : MatchesOf(f, s, N, p, n) /\ (Match(s, p) <=> 1 \in f[1])
<1> DEFINE V == SUBSET (1..N + 1)
           step == [t \in 1..n |-> [rest \in V |-> OnePlace(s, p, n + 1 - t, rest)]]
           match == CHOOSE f : Matches(f, s, p)
<1>0. n = Len(p) /\ N = Len(s) /\ \A k \in 1..n : p[k] \notin {"[", "{"}
  BY DEF Bare
<1>1. n \in Nat /\ N \in Nat
  OBVIOUS
<1>2. ASSUME NEW j \in 1..n, NEW rest \in V PROVE OnePlace(s, p, j, rest) \in V
  <2>1. 1..N \subseteq 1..N + 1
    BY <1>1
  <2>2. QED
    BY <1>0, <2>1 DEF OnePlace, Star
<1>3. PICK r \in [0..n -> V] : Repeats(r, {N + 1}, step, n)
  <2>1. {N + 1} \in V
    BY <1>1
  <2>2. \A t \in 1..n : n + 1 - t \in 1..n
    BY <1>1
  <2> HIDE DEF V
  <2>3. \A t \in 1..n : step[t] \in [V -> V]
    BY <1>2, <2>2
  <2> HIDE DEF step
  <2>4. QED
    BY <1>1, <2>1, <2>3, Repetition
<1>4. \A t \in 0..n : r[t] = IF t = 0 THEN {N + 1} ELSE step[t][r[t - 1]]
  <2> HIDE DEF V, step
  <2>1. QED
    BY <1>3 DEF Repeats
<1> DEFINE g == [j \in 1..n + 1 |-> r[n + 1 - j]]
<1>5. g[n + 1] = {N + 1} /\ \A j \in 1..n : g[j] = OnePlace(s, p, j, g[j + 1])
  <2> HIDE DEF V
  <2>1. g[n + 1] = r[0] /\ r[0] = {N + 1}
    <3>1. n + 1 \in 1..n + 1 /\ n + 1 - (n + 1) = 0 /\ 0 \in 0..n
      BY <1>1
    <3>2. g[n + 1] = r[0]
      BY <3>1
    <3> HIDE DEF g, step
    <3>3. QED
      BY <1>4, <3>1, <3>2
  <2>2. ASSUME NEW j \in 1..n PROVE g[j] = OnePlace(s, p, j, g[j + 1])
    <3> DEFINE t == n + 1 - j
    <3>1. t \in 1..n /\ t \in 0..n /\ t # 0 /\ t - 1 \in 0..n /\ n + 1 - t = j
      BY <1>1
    <3>2. g[j] = r[t] /\ g[j + 1] = r[t - 1] /\ r[t - 1] \in V
      <4>1. j \in 1..n + 1 /\ j + 1 \in 1..n + 1 /\ n + 1 - (j + 1) = t - 1
        BY <1>1
      <4>2. QED
        BY <1>3, <3>1, <4>1
    <3> HIDE DEF t, g
    <3>3. r[t] = step[t][r[t - 1]]
      BY <1>4, <3>1
    <3>4. QED
      BY <3>1, <3>2, <3>3
  <2>3. QED
    BY <2>1, <2>2
<1> HIDE DEF step
<1>6. Matches(g, s, p)
  <2>1. g = [j \in 1..n + 1 |-> g[j]]
    OBVIOUS
  <2> HIDE DEF g
  <2>2. ASSUME NEW j \in 1..n + 1
        PROVE  g[j] = IF j > n THEN {N + 1} ELSE
                      LET rest == g[j + 1]
                      IN  CASE p[j] = "*" -> IF j = n THEN 1..N + 1
                                             ELSE IF p[j + 1] = "*" THEN rest ELSE Star(s, rest)
                            [] p[j] = "?" -> {i \in 1..N : i + 1 \in rest}
                            [] p[j] = "[" -> Set(s, p, j, g)
                            [] p[j] = "{" -> Braces(s, p, j, g)
                            [] OTHER -> {i \in 1..N : s[i] = p[j] /\ i + 1 \in rest}
    <3>1. CASE j = n + 1
      <4>1. j > n
        BY <1>1, <3>1
      <4>2. QED
        BY <1>5, <3>1, <4>1
    <3>2. CASE j # n + 1
      <4>0. j \in 1..n /\ ~ (j > n)
        BY <1>1, <3>2
      <4>1. j \in 1..n /\ ~ (j > n) /\ p[j] \notin {"[", "{"}
        BY <1>0, <4>0
            <4>2. g[j] = OnePlace(s, p, j, g[j + 1])
        BY <1>5, <4>1
      <4>3. CASE p[j] = "*"
        BY <1>0, <4>1, <4>2, <4>3 DEF OnePlace
      <4>4. CASE p[j] = "?"
        BY <1>0, <4>1, <4>2, <4>4 DEF OnePlace
      <4>5. CASE p[j] \notin {"*", "?"}
        BY <1>0, <4>1, <4>2, <4>5 DEF OnePlace
      <4>6. QED
        BY <4>3, <4>4, <4>5
    <3>3. QED
      BY <3>1, <3>2
  <2>3. QED
    BY <1>0, <2>1, <2>2 DEF Matches
<1> HIDE DEF g
<1>7. Matches(match, s, p)
  BY <1>6
<1>8. Match(s, p) <=> 1 \in match[1]
  BY DEF Match, Matches
<1> HIDE DEF match
<1>9. match[n + 1] = {N + 1}
  <2>1. n + 1 \in 1..n + 1 /\ n + 1 > n
    BY <1>1
  <2>2. QED
    BY <1>0, <1>7, <2>1 DEF Matches
<1>10. ASSUME NEW j \in 1..n PROVE match[j] = OnePlace(s, p, j, match[j + 1])
  <2>1. j \in 1..n + 1 /\ ~ (j > n) /\ p[j] # "[" /\ p[j] # "{"
    <3>1. j \in 1..n + 1 /\ ~ (j > n)
      BY <1>1
    <3>2. QED
      BY <1>0, <3>1
  <2> DEFINE rest == match[j + 1]
  <2>2. match[j] = CASE p[j] = "*" -> IF j = n THEN 1..N + 1
                                      ELSE IF p[j + 1] = "*" THEN rest ELSE Star(s, rest)
                     [] p[j] = "?" -> {i \in 1..N : i + 1 \in rest}
                     [] p[j] = "[" -> Set(s, p, j, match)
                     [] p[j] = "{" -> Braces(s, p, j, match)
                     [] OTHER -> {i \in 1..N : s[i] = p[j] /\ i + 1 \in rest}
    BY <1>0, <1>7, <2>1 DEF Matches
  <2> HIDE DEF rest
  <2>3. CASE p[j] = "*"
    BY <1>0, <2>1, <2>2, <2>3 DEF OnePlace, rest
  <2>4. CASE p[j] = "?"
    BY <1>0, <2>1, <2>2, <2>4 DEF OnePlace, rest
  <2>5. CASE p[j] \notin {"*", "?"}
    BY <1>0, <2>1, <2>2, <2>5 DEF OnePlace, rest
  <2>6. QED
    BY <2>3, <2>4, <2>5
<1>11. QED
  BY <1>8, <1>9, <1>10 DEF MatchesOf

(* Where a star matches, it matches from every place before, too.           *)
LEMMA StarMatchesBefore ==
  ASSUME NEW s, NEW N \in Nat, NEW p, NEW n \in Nat, Bare(s, N, p, n),
         NEW f, MatchesOf(f, s, N, p, n), NEW j \in 1..n, p[j] = "*",
         NEW i \in 1..N + 1, NEW k \in f[j], k \in 1..N + 1, i <= k
  PROVE  i \in f[j]
<1> DEFINE Back(h) == \A x, y \in 1..N + 1 : x <= y /\ y \in f[h] => x \in f[h]
           T == {t \in 0..n : \A h \in 1..n : h > n - t /\ p[h] = "*" => Back(h)}
<1>0. n = Len(p) /\ N = Len(s)
  BY DEF Bare
<1>1. 0 \in T
  OBVIOUS
<1>2. ASSUME NEW t \in 0..n - 1, t \in T PROVE t + 1 \in T
  <2>1. t + 1 \in 0..n
    OBVIOUS
  <2>2. SUFFICES ASSUME NEW h \in 1..n, h > n - (t + 1), p[h] = "*" PROVE Back(h)
    BY <2>1
  <2>3. CASE h > n - t
    BY <1>2, <2>2, <2>3
  <2>4. CASE h = n
    <3>1. f[h] = 1..N + 1
      BY <1>0, <2>2, <2>4 DEF MatchesOf, OnePlace
    <3>2. QED
      BY <3>1
  <2>5. CASE h # n /\ p[h + 1] = "*"
    <3>1. h + 1 \in 1..n /\ h + 1 > n - t
      BY <2>2, <2>5
    <3>2. Back(h + 1)
      BY <1>2, <2>5, <3>1
    <3>3. f[h] = f[h + 1]
      BY <1>0, <2>2, <2>5 DEF MatchesOf, OnePlace
    <3>4. QED
      BY <3>2, <3>3
  <2>6. CASE h # n /\ p[h + 1] # "*"
    <3>1. f[h] = {x \in 1..N : \E y \in x..N : y \in f[h + 1]}
      BY <1>0, <2>2, <2>6 DEF MatchesOf, OnePlace, Star
    <3> DEFINE rest == f[h + 1]
    <3> HIDE DEF rest
    <3>2. SUFFICES ASSUME NEW x \in 1..N + 1, NEW y \in 1..N + 1, x <= y, y \in f[h]
                   PROVE  x \in f[h]
      OBVIOUS
    <3>3. PICK z \in y..N : z \in rest
      BY <3>1, <3>2 DEF rest
    <3>4. x \in 1..N /\ z \in x..N
      BY <3>2, <3>3
    <3>5. QED
      BY <3>1, <3>3, <3>4 DEF rest
  <2>7. QED
    BY <2>4, <2>5, <2>6
<1> HIDE DEF T
<1>3. Inductive(T, n)
  BY <1>1, <1>2 DEF Inductive
<1>4. n \in T
  BY <1>3, AllNumbers
<1>5. Back(j)
  <2>1. j > n - n
    OBVIOUS
  <2>2. QED
    BY <1>4, <2>1 DEF T
<1>6. QED
  BY <1>5

(* A place matches where its part means what comes next, and the rest       *)
(* matches behind that.                                                     *)
LEMMA PlaceIs ==
  ASSUME NEW s, NEW N \in Nat, NEW p, NEW n \in Nat, Bare(s, N, p, n), s \in Seq(Character),
         NEW parts, WithoutLists(p, n, parts, s, N),
         NEW f, MatchesOf(f, s, N, p, n), NEW k \in 1..n, NEW b \in 0..N
  PROVE  b + 1 \in f[k] <=>
           \E e \in 0..N : b <= e /\ SubSeq(s, b + 1, e) \in parts[k].means /\ e + 1 \in f[k + 1]
<1> DEFINE rest == f[k + 1]
           Piece(e) == SubSeq(s, b + 1, e)
           means == parts[k].means
<1>0. n = Len(p) /\ N = Len(s)
  BY DEF Bare
<1>1. f[k] = OnePlace(s, p, k, rest)
  BY DEF MatchesOf
<1>2. Plain(parts[k], p[k]) \/ AnyOne(parts[k], p[k], s, N) \/ AnyText(parts[k], p[k], s, N)
  BY DEF WithoutLists
<1> HIDE DEF rest
<1>3. CASE Plain(parts[k], p[k])
  <2> DEFINE c == p[k]
  <2>1. f[k] = {i \in 1..N : s[i] = c /\ i + 1 \in rest} /\ means = {<<c>>}
    BY <1>0, <1>1, <1>3 DEF OnePlace, Plain
  <2>2. ASSUME NEW e \in 0..N, b <= e
        PROVE  Piece(e) = <<c>> <=> e = b + 1 /\ s[b + 1] = c
    <3>1. \A i \in 1..N : s[i] \in Character
      BY <1>0, ElementOfSeq
    <3>2. \A i \in b + 1..e : s[i] \in Character
      BY <2>2, <3>1
    <3> DEFINE q == Piece(e)
    <3>3. /\ b + 1 \in Int /\ e \in Int /\ (IF b + 1 <= e THEN e - (b + 1) + 1 ELSE 0) = e - b
          /\ e - (b + 1) + 1 = e - b
      BY <2>2
    <3>4. Len(q) = e - b /\ \A i \in 1..e - b : q[i] = s[b + 1 + i - 1]
      <4>1. /\ Len(q) = IF b + 1 <= e THEN e - (b + 1) + 1 ELSE 0
            /\ \A i \in 1..e - (b + 1) + 1 : q[i] = s[b + 1 + i - 1]
        BY <3>2, <3>3, SubSeqProperties
      <4>2. QED
        BY <3>3, <4>1
    <3>5. q \in Seq(Character)
      BY <3>2, <3>3, SubSeqProperties
    <3> HIDE DEF q, c
    <3>6. q = <<c>> => e = b + 1 /\ s[b + 1] = c
      <4>1. SUFFICES ASSUME q = <<c>> PROVE e = b + 1 /\ s[b + 1] = c
        OBVIOUS
      <4>2. Len(q) = 1 /\ q[1] = c
        BY <4>1
      <4>3. e = b + 1
        <5>1. e - b = 1
          BY <3>4, <4>2
        <5>2. QED
          BY <5>1
      <4>4. 1 \in 1..e - b /\ b + 1 + 1 - 1 = b + 1
        BY <4>3
      <4>5. QED
        BY <3>4, <4>2, <4>3, <4>4
    <3>7. e = b + 1 /\ s[b + 1] = c => q = <<c>>
      <4>1. SUFFICES ASSUME e = b + 1, s[b + 1] = c PROVE q = <<c>>
        OBVIOUS
      <4>2. e - b = 1 /\ 1 \in 1..e - b /\ b + 1 + 1 - 1 = b + 1
        BY <4>1
      <4>3. Len(q) = 1 /\ q[1] = c
        BY <3>4, <4>1, <4>2
      <4>4. QED
        BY <3>5, <4>3
    <3>8. QED
      BY <3>6, <3>7 DEF q, c
  <2> HIDE DEF c, Piece
  <2>3. b + 1 \in f[k] => b + 1 \in 0..N /\ b <= b + 1 /\ Piece(b + 1) \in means /\ b + 1 + 1 \in rest
    <3>1. SUFFICES ASSUME b + 1 \in f[k]
                   PROVE  b + 1 \in 0..N /\ b <= b + 1 /\ Piece(b + 1) \in means /\ b + 1 + 1 \in rest
      OBVIOUS
    <3>2. b + 1 \in 0..N /\ b <= b + 1
      BY <2>1, <3>1
    <3>3. QED
      BY <2>1, <2>2, <3>1, <3>2
  <2>4. ASSUME NEW e \in 0..N, b <= e, Piece(e) \in means, e + 1 \in rest PROVE b + 1 \in f[k]
    <3>1. e = b + 1 /\ s[b + 1] = c
      BY <2>1, <2>2, <2>4
    <3>2. b + 1 \in 1..N
      BY <2>4, <3>1
    <3>3. QED
      BY <2>1, <2>4, <3>1, <3>2
  <2>5. QED
    BY <2>3, <2>4 DEF rest, Piece
<1>4. CASE AnyOne(parts[k], p[k], s, N)
  <2>1. f[k] = {i \in 1..N : i + 1 \in rest}
    BY <1>0, <1>1, <1>4 DEF OnePlace, AnyOne
  <2>2. \A e \in 0..N : b <= e => (Piece(e) \in means <=> e = b + 1)
    BY <1>4 DEF AnyOne
  <2> HIDE DEF Piece, means
  <2>3. b + 1 \in f[k] => b + 1 \in 0..N /\ b <= b + 1 /\ Piece(b + 1) \in means /\ b + 1 + 1 \in rest
    <3>1. b + 1 \in f[k] => b + 1 \in 0..N /\ b <= b + 1
      BY <2>1
    <3>2. QED
      BY <2>1, <2>2, <3>1
  <2>4. ASSUME NEW e \in 0..N, b <= e, Piece(e) \in means, e + 1 \in rest PROVE b + 1 \in f[k]
    <3>1. e = b + 1
      BY <2>2, <2>4
    <3>2. b + 1 \in 1..N
      BY <2>4, <3>1
    <3>3. QED
      BY <2>1, <2>4, <3>1, <3>2
  <2>5. QED
    BY <2>3, <2>4 DEF rest, Piece, means
<1>5. CASE AnyText(parts[k], p[k], s, N)
  <2>1. p[k] = "*" /\ \A e \in 0..N : b <= e => Piece(e) \in means
    BY <1>5 DEF AnyText
  <2> HIDE DEF Piece, means
  <2>2. SUFFICES b + 1 \in f[k] <=> \E e \in 0..N : b <= e /\ e + 1 \in rest
    BY <2>1 DEF Piece, means, rest
  <2>3. CASE k = n
    <3>1. f[k] = 1..N + 1
      BY <1>0, <1>1, <2>1, <2>3 DEF OnePlace
    <3>2. rest = {N + 1}
      BY <2>3 DEF rest, MatchesOf
    <3>3. N \in 0..N /\ b <= N /\ b + 1 \in 1..N + 1
      OBVIOUS
    <3>4. QED
      BY <3>1, <3>2, <3>3
  <2>4. CASE k # n /\ p[k + 1] = "*"
    <3>1. f[k] = rest
      BY <1>0, <1>1, <2>1, <2>4 DEF OnePlace
    <3>2. k + 1 \in 1..n
      BY <2>4
    <3>3. ASSUME NEW e \in 0..N, b <= e, e + 1 \in rest PROVE b + 1 \in rest
      <4>1. b + 1 \in 1..N + 1 /\ e + 1 \in 1..N + 1 /\ b + 1 <= e + 1
        BY <3>3
      <4>2. QED
        BY <2>4, <3>2, <3>3, <4>1, StarMatchesBefore DEF rest
    <3>4. b + 1 \in rest => b \in 0..N /\ b <= b /\ b + 1 \in rest
      OBVIOUS
    <3>5. QED
      BY <3>1, <3>3, <3>4
  <2>5. CASE k # n /\ p[k + 1] # "*"
    <3>1. f[k] = {x \in 1..N : \E y \in x..N : y \in rest}
      BY <1>0, <1>1, <2>1, <2>5 DEF OnePlace, Star
    <3>2. k + 1 \in 1..n
      BY <2>5
    <3>3. rest \subseteq 1..N
      BY <1>0, <2>5, <3>2 DEF rest, MatchesOf, OnePlace
    <3>4. ASSUME NEW e \in 0..N, b <= e, e + 1 \in rest PROVE b + 1 \in f[k]
      <4>1. e + 1 \in 1..N
        BY <3>3, <3>4
      <4>2. b + 1 \in 1..N /\ e + 1 \in b + 1..N
        BY <3>4, <4>1
      <4>3. QED
        BY <3>1, <3>4, <4>2
    <3>5. ASSUME b + 1 \in f[k] PROVE \E e \in 0..N : b <= e /\ e + 1 \in rest
      <4>1. PICK y \in b + 1..N : y \in rest
        BY <3>1, <3>5
      <4>2. y - 1 \in 0..N /\ b <= y - 1 /\ y - 1 + 1 = y
        BY <4>1
      <4>3. QED
        BY <4>1, <4>2
    <3>6. QED
      BY <3>4, <3>5
  <2>6. QED
    BY <2>3, <2>4, <2>5
<1>6. QED
  BY <1>2, <1>3, <1>4, <1>5

\* ends has where each part may end, as Means does
EndsOf(ends, s, N, parts, n) ==
  /\ ends[0] = {0}
  /\ \A k \in 1..n : ends[k] = {e \in 0..N : \E b \in ends[k - 1] :
                                b <= e /\ SubSeq(s, b + 1, e) \in parts[k].means}

\* f has the same as the recursive function of Means
Ends(f, s, N, parts, n) ==
  f = [k \in 0..n |->
        IF k = 0 THEN {0}
        ELSE LET starts == f[k - 1]
             IN  {e \in 0..N : \E b \in starts :
                    b <= e /\ SubSeq(s, b + 1, e) \in parts[k].means}]

(* The recursion of the meaning is there.                                   *)
LEMMA EndsIs ==
  ASSUME NEW s, NEW N \in Nat, NEW p, NEW n \in Nat, NEW parts, Bare(s, N, p, n),
         WithoutLists(p, n, parts, s, N)
  PROVE  \E f \in [0..n -> SUBSET (0..N)] : EndsOf(f, s, N, parts, n) /\ (Means(s, parts) <=> N \in f[n])
<1> DEFINE V == SUBSET (0..N)
           once(k, starts) == {e \in 0..N : \E b \in starts :
                                 b <= e /\ SubSeq(s, b + 1, e) \in parts[k].means}
           step == [k \in 1..n |-> [starts \in V |-> once(k, starts)]]
           ends == CHOOSE f : Ends(f, s, N, parts, n)
<1>0. Len(s) = N /\ Len(parts) = n
  BY DEF Bare, WithoutLists
<1>1. \A k \in 1..n : \A starts \in V : once(k, starts) \in V
  OBVIOUS
<1>2. {0} \in V
  OBVIOUS
<1> HIDE DEF once
<1>3. PICK f \in [0..n -> V] : Repeats(f, {0}, step, n)
  <2> HIDE DEF V
  <2>1. \A k \in 1..n : step[k] \in [V -> V]
    BY <1>1
  <2> HIDE DEF step
  <2>2. QED
    BY <1>2, <2>1, Repetition
<1> HIDE DEF V
<1>4. \A k \in 0..n : f[k] = IF k = 0 THEN {0} ELSE step[k][f[k - 1]]
  <2> HIDE DEF step
  <2>1. QED
    BY <1>3 DEF Repeats
<1>5. \A k \in 0..n : k # 0 => k \in 1..n /\ k - 1 \in 0..n
  OBVIOUS
<1>6. \A k \in 0..n : k # 0 => step[k][f[k - 1]] = once(k, f[k - 1])
  BY <1>3, <1>5
<1> HIDE DEF step
<1>7. f = [k \in 0..n |-> IF k = 0 THEN {0} ELSE once(k, f[k - 1])]
  <2>1. f = [k \in 0..n |-> f[k]]
    BY <1>3
  <2>2. QED
    BY <1>4, <1>6, <2>1
<1>8. Ends(f, s, N, parts, n)
  BY <1>7 DEF Ends, once
<1>9. Ends(ends, s, N, parts, n)
  BY <1>8
<1>10. Means(s, parts) <=> N \in ends[n]
  BY <1>0 DEF Means, Ends
<1> HIDE DEF ends
<1>11. EndsOf(ends, s, N, parts, n)
  <2>1. \A k \in 0..n : ends[k] = IF k = 0 THEN {0} ELSE once(k, ends[k - 1])
    BY <1>9 DEF Ends, once
  <2>2. 0 \in 0..n /\ \A k \in 1..n : k \in 0..n /\ k # 0
    OBVIOUS
  <2>3. QED
    BY <2>1, <2>2 DEF EndsOf, once
<1>12. ends \in [0..n -> V]
  <2>1. \A k \in 0..n : ends[k] \in V
    <3>1. \A k \in 1..n : ends[k] \in V
      BY <1>11 DEF EndsOf, V
    <3>2. ends[0] \in V
      BY <1>2, <1>11 DEF EndsOf
    <3>3. \A k \in 0..n : k = 0 \/ k \in 1..n
      OBVIOUS
    <3>4. QED
      BY <3>1, <3>2, <3>3
  <2>2. ends = [k \in 0..n |-> ends[k]]
    BY <1>9 DEF Ends
  <2>3. QED
    BY <2>1, <2>2
<1>13. QED
  BY <1>10, <1>11, <1>12 DEF V

(* From the front and from the back the same is found.                      *)
LEMMA EndsMeet ==
  ASSUME NEW s \in Seq(Character), NEW N \in Nat, NEW p, NEW n \in Nat, NEW parts, Bare(s, N, p, n),
         WithoutLists(p, n, parts, s, N), NEW f, MatchesOf(f, s, N, p, n),
         NEW ends \in [0..n -> SUBSET (0..N)], EndsOf(ends, s, N, parts, n)
  PROVE  N \in ends[n] <=> 1 \in f[1]
<1> DEFINE Meet(k) == \E e \in ends[k] : e + 1 \in f[k + 1]
           T == {k \in 0..n : Meet(k) <=> Meet(0)}
<1>1. 0 \in T
  OBVIOUS
<1>2. ASSUME NEW k \in 0..n - 1, k \in T PROVE k + 1 \in T
  <2> DEFINE j == k + 1
             Fits(b, e) == b <= e /\ SubSeq(s, b + 1, e) \in parts[j].means
  <2>1. j \in 1..n /\ j - 1 = k /\ j \in 0..n /\ k \in 0..n
    OBVIOUS
  <2>2. ends[k] \subseteq 0..N
    BY <2>1
  <2>3. ends[j] = {e \in 0..N : \E b \in ends[k] : Fits(b, e)}
    BY <2>1 DEF EndsOf
  <2>4. \A b \in 0..N : b + 1 \in f[j] <=> \E e \in 0..N : Fits(b, e) /\ e + 1 \in f[j + 1]
    <3> HIDE DEF j
    <3>1. ASSUME NEW b \in 0..N
          PROVE  b + 1 \in f[j] <=>
                   \E e \in 0..N : b <= e /\ SubSeq(s, b + 1, e) \in parts[j].means /\ e + 1 \in f[j + 1]
      BY <2>1, PlaceIs
    <3>2. QED
      BY <3>1
  <2> HIDE DEF Fits
  <2>5. Meet(k) <=> Meet(j)
    BY <2>2, <2>3, <2>4
  <2>6. QED
    BY <1>2, <2>1, <2>5
<1>3. Meet(n) <=> Meet(0)
  <2> HIDE DEF T
  <2>1. Inductive(T, n)
    BY <1>1, <1>2 DEF Inductive
  <2>2. n \in T
    BY <2>1, AllNumbers
  <2>3. QED
    BY <2>2 DEF T
<1>4. Meet(0) <=> 1 \in f[1]
  <2>1. ends[0] = {0} /\ 0 + 1 = 1
    BY DEF EndsOf
  <2>2. QED
    BY <2>1
<1>5. Meet(n) <=> N \in ends[n]
  <2>1. f[n + 1] = {N + 1} /\ ends[n] \subseteq 0..N
    BY DEF MatchesOf
  <2>2. \A e \in ends[n] : e + 1 = N + 1 => e = N
    BY <2>1
  <2>3. QED
    BY <2>1, <2>2
<1>6. QED
  BY <1>3, <1>4, <1>5

(* For a pattern of plain characters, ? and * the matcher says what the     *)
(* comments of the file say: the parts of the pattern stand for the string. *)
THEOREM WithoutListsAgree ==
  ASSUME NEW s \in Seq(Character), NEW p, IsPattern(p), Len(p) \in Nat,
         WithoutLists(p, Len(p), Patterns[p], s, Len(s))
  PROVE  Match(s, p) <=> StandsFor(p, s)
<1>1. PICK N \in Nat, n \in Nat : N = Len(s) /\ n = Len(p)
  OBVIOUS
<1> DEFINE parts == Patterns[p]
<1>2. WithoutLists(p, n, parts, s, N)
  BY <1>1
<1>3. Bare(s, N, p, n)
  <2>1. \A k \in 1..n : p[k] \notin {"[", "{"}
    BY <1>2 DEF WithoutLists, Plain, AnyOne, AnyText
  <2>2. QED
    BY <1>1, <2>1 DEF Bare
<1>4. StandsFor(p, s) <=> Means(s, parts)
  BY DEF StandsFor
<1> HIDE DEF parts
<1>5. PICK f : MatchesOf(f, s, N, p, n) /\ (Match(s, p) <=> 1 \in f[1])
  BY <1>3, MatchesIs
<1>6. PICK ends \in [0..n -> SUBSET (0..N)] :
        EndsOf(ends, s, N, parts, n) /\ (Means(s, parts) <=> N \in ends[n])
  BY <1>2, <1>3, EndsIs
<1>7. QED
  BY <1>2, <1>3, <1>4, <1>5, <1>6, EndsMeet

\* the patterns of messages and deletions have no lists, and mean what they should on the paths
WildcardsOnly ==
  \A p \in {m.path : m \in Messages} \cup (Deletions \ {NoPath}), q \in Paths \ {NoPath} :
    IsPattern(p) => Len(p) \in Nat /\ WithoutLists(p, Len(p), Patterns[p], q, Len(q))

(* With such patterns nothing else has to be assumed of the matcher.        *)
COROLLARY WildcardsAgree ==
  ASSUME WildcardsOnly
  PROVE  MatchAgrees
<1>1. SUFFICES ASSUME NEW p \in {m.path : m \in Messages} \cup (Deletions \ {NoPath}),
                      NEW q \in Paths \ {NoPath}, IsPattern(p)
               PROVE  Match(q, p) <=> StandsFor(p, q)
  BY DEF MatchAgrees
<1>2. q \in Seq(Character)
  BY DispatchAssumption
<1>3. Len(p) \in Nat /\ WithoutLists(p, Len(p), Patterns[p], q, Len(q))
  BY <1>1 DEF WildcardsOnly
<1>4. QED
  BY <1>1, <1>2, <1>3, WithoutListsAgree
=============================================================================
