--------------------------- MODULE CellSpaceProofs ---------------------------
(***************************************************************************)
(* What holds of the worlds of every size from 4 up, whatever the radius   *)
(* and the area asked for: neighbourhoods are mutual, a Moore              *)
(* neighbourhood is the ball of its radius, a wire cube is the shell of    *)
(* its box, and the default poll list follows the sweep.                   *)
(***************************************************************************)
EXTENDS CellSpace, FiniteSetTheorems, FunctionTheorems, SequenceTheorems, TLAPS

-----------------------------------------------------------------------------
(* Numbers and their digits. *)

(* Quotient and remainder. *)
LEMMA Division ==
  ASSUME NEW x \in Int, NEW s \in Nat \ {0}
  PROVE  x = s * (x \div s) + (x % s) /\ x % s \in 0..s - 1 /\ x \div s \in Int
  OBVIOUS

(* A multiple of s is 0 or at least s away from 0. *)
LEMMA Multiple ==
  ASSUME NEW s \in Nat \ {0}, NEW k \in Int
  PROVE  /\ k >= 1 => s * k >= s
         /\ k <= -1 => s * k <= -s
  OBVIOUS

(* There is one quotient and one remainder. *)
LEMMA DivisionUnique ==
  ASSUME NEW s \in Nat \ {0}, NEW a \in Int, NEW b \in 0..s - 1
  PROVE  (s * a + b) \div s = a /\ (s * a + b) % s = b
<1> DEFINE x == s * a + b
           c == x \div s
           d == x % s
<1>1. x \in Int /\ c \in Int /\ d \in 0..s - 1 /\ x = s * c + d
  BY Division
<1>2. s * (c - a) = b - d
  BY <1>1
<1>3. ~ (c - a >= 1) /\ ~ (c - a <= -1)
  BY <1>1, <1>2, Multiple
<1>4. c = a
  BY <1>1, <1>3
<1>5. QED
  BY <1>1, <1>2, <1>4

\* m has the digits y, x, z to the base s
HasDigits(m, s, x, y, z) ==
  /\ x \in 0..s - 1 /\ y \in 0..s - 1 /\ z \in 0..s - 1
  /\ m = s * (s * y + x) + z

(* Division finds the digits, *)
LEMMA DigitsAre ==
  ASSUME NEW s \in Nat \ {0}, NEW m, NEW x, NEW y, NEW z, HasDigits(m, s, x, y, z)
  PROVE  /\ m % s = z /\ (m \div s) % s = x /\ m \div (s * s) = y
         /\ m \in 0..Cube(s) - 1
<1>1. x \in 0..s - 1 /\ y \in 0..s - 1 /\ z \in 0..s - 1 /\ x \in Int /\ y \in Int /\ z \in Int
  BY DEF HasDigits
<1> DEFINE a == s * y + x
<1>2. a \in Int /\ m = s * a + z
  BY <1>1 DEF HasDigits
<1>3. m \div s = a /\ m % s = z
  <2> HIDE DEF a
  <2>1. QED
    BY <1>1, <1>2, DivisionUnique
<1>4. a % s = x
  BY <1>1, DivisionUnique
<1>5. s * s \in Nat \ {0} /\ s * x + z \in 0..s * s - 1
  <2>1. s * s \in Nat \ {0} /\ s * x + z \in Nat
    BY <1>1
  <2>2. s * x <= s * (s - 1)
    BY <1>1
  <2>3. s * (s - 1) = s * s - s
    OBVIOUS
  <2>4. s * x + z <= s * s - 1
    BY <1>1, <2>1, <2>2, <2>3
  <2>5. QED
    BY <2>1, <2>4
<1>6. m = (s * s) * y + (s * x + z)
  BY <1>1, <1>2
<1>7. m \div (s * s) = y
  <2> DEFINE w == s * s
             b == s * x + z
  <2>1. w \in Nat \ {0} /\ b \in 0..w - 1 /\ y \in Int /\ m = w * y + b
    BY <1>1, <1>5, <1>6
  <2>2. m \div w = y
    <3> HIDE DEF w, b
    <3>1. QED
      BY <2>1, DivisionUnique
  <2>3. QED
    BY <2>2
<1>8. m \in 0..Cube(s) - 1
  <2>1. (s * s) * y <= (s * s) * (s - 1)
    BY <1>1, <1>5
  <2>2. (s * s) * (s - 1) = s * s * s - s * s
    OBVIOUS
  <2>3. (s * s) * y >= 0
    BY <1>1, <1>5
  <2>4. QED
    BY <1>1, <1>5, <1>6, <2>1, <2>2, <2>3 DEF Cube
<1>9. QED
  BY <1>3, <1>4, <1>7, <1>8

(* and every number below the cube of the base has them. *)
LEMMA EveryNumberHasDigits ==
  ASSUME NEW s \in Nat \ {0}, NEW m \in 0..Cube(s) - 1
  PROVE  HasDigits(m, s, (m \div s) % s, m \div (s * s), m % s)
<1> DEFINE a == m \div s
           z == m % s
           y == a \div s
           x == a % s
<1>1. m \in Int /\ s * s * s \in Int /\ m <= s * s * s - 1 /\ m >= 0
  BY DEF Cube
<1>2. a \in Int /\ z \in 0..s - 1 /\ m = s * a + z
  BY <1>1, Division
<1>3. y \in Int /\ x \in 0..s - 1 /\ a = s * y + x
  BY <1>2, Division
<1> HIDE DEF a, x, y, z
<1>4. m = s * (s * y + x) + z
  BY <1>2, <1>3
<1>5. s * s \in Nat \ {0} /\ s * x + z \in 0..s * s - 1
  <2>1. s * s \in Nat \ {0} /\ s * x + z \in Nat
    BY <1>2, <1>3
  <2>2. s * x <= s * (s - 1)
    BY <1>3
  <2>3. s * (s - 1) = s * s - s
    OBVIOUS
  <2>4. s * x + z <= s * s - 1
    BY <1>2, <1>3, <2>1, <2>2, <2>3
  <2>5. QED
    BY <2>1, <2>4
<1>6. m = (s * s) * y + (s * x + z)
  BY <1>2, <1>3, <1>4
<1>7. m \div (s * s) = y
  <2> DEFINE w == s * s
             b == s * x + z
  <2>1. w \in Nat \ {0} /\ b \in 0..w - 1 /\ y \in Int /\ m = w * y + b
    BY <1>3, <1>5, <1>6
  <2>2. m \div w = y
    <3> HIDE DEF w, b
    <3>1. QED
      BY <2>1, DivisionUnique
  <2>3. QED
    BY <2>2
<1>8. y \in 0..s - 1
  <2>1. ~ (y <= -1)
    <3>1. SUFFICES ASSUME y <= -1 PROVE FALSE
      OBVIOUS
    <3>2. (s * s) * y <= -(s * s)
      BY <1>3, <1>5, <3>1, Multiple
    <3>3. QED
      BY <1>1, <1>3, <1>5, <1>6, <3>2
  <2>2. ~ (y >= s)
    <3>1. SUFFICES ASSUME y >= s PROVE FALSE
      OBVIOUS
    <3>2. (s * s) * (y - s) >= 0
      BY <1>3, <1>5, <3>1
    <3>3. (s * s) * (y - s) = (s * s) * y - s * s * s
      BY <1>3
    <3>4. QED
      BY <1>1, <1>3, <1>5, <1>6, <3>2, <3>3
  <2>3. QED
    BY <1>3, <2>1, <2>2
<1>9. x = (m \div s) % s /\ z = m % s
  BY DEF a, x, z
<1>10. QED
  BY <1>2, <1>3, <1>4, <1>7, <1>8, <1>9 DEF HasDigits

-----------------------------------------------------------------------------
(* Places of the torus. *)

(* wrapi from 0 to size - 1 is the remainder, also below 0. *)
LEMMA WrapIs ==
  ASSUME NEW x \in Int
  PROVE  WrapI(x, 0, Size - 1) = x % Size /\ x % Size \in Coordinate
<1>1. Size \in Nat \ {0}
  BY SpaceAssumption
<1>2. ((x - 0) % (Size - 1 - 0 + 1)) + 0 = x % Size
  <2>1. x - 0 = x /\ Size - 1 - 0 + 1 = Size
    BY <1>1
  <2>2. x % Size \in Int
    BY <1>1, Division
  <2>3. QED
    BY <2>1, <2>2
<1>3. QED
  BY <1>1, <1>2, Division DEF WrapI, Coordinate

(* The step back undoes the step. *)
LEMMA ThereAndBack ==
  ASSUME NEW p \in Coordinate, NEW q \in Coordinate, NEW d \in Int, (p + d) % Size = q
  PROVE  (q - d) % Size = p
<1>1. Size \in Nat \ {0} /\ p + d \in Int /\ p \in 0..Size - 1 /\ q \in Int
  BY SpaceAssumption DEF Coordinate
<1>2. PICK k \in Int : p + d = Size * k + q
  BY <1>1, Division
<1>3. q - d = Size * (-k) + p
  BY <1>1, <1>2
<1>4. -k \in Int
  OBVIOUS
<1>5. (Size * (-k) + p) % Size = p
  BY <1>1, <1>4, DivisionUnique
<1>6. QED
  BY <1>3, <1>5

\* offsets
Triple == Int \X Int \X Int

(* Places and offsets are triples, *)
LEMMA TripleIs ==
  ASSUME NEW A, NEW f, DOMAIN f = 1..3, f = [i \in 1..3 |-> f[i]], \A i \in 1..3 : f[i] \in A
  PROVE  f \in A \X A \X A
<1>1. 1..3 = {1, 2, 3}
  OBVIOUS
<1>2. f = <<f[1], f[2], f[3]>>
  OBVIOUS
<1>3. QED
  BY <1>1, <1>2

(* equal when their parts are. *)
LEMMA TriplesEqual ==
  ASSUME NEW A, NEW p \in A \X A \X A, NEW q \in A \X A \X A, \A i \in 1..3 : p[i] = q[i]
  PROVE  p = q
  OBVIOUS

(* setHabitat wraps each part: the neighbour is a cell of the world. *)
LEMMA NeighbourIs ==
  ASSUME NEW p \in Place, NEW d \in Triple
  PROVE  /\ Neighbour(p, d) \in Place
         /\ \A i \in 1..3 : Neighbour(p, d)[i] = (p[i] + d[i]) % Size
<1>1. \A i \in 1..3 : p[i] \in Coordinate /\ d[i] \in Int
  BY DEF Place, Triple
<1>2. \A i \in 1..3 : p[i] + d[i] \in Int
  BY <1>1, SpaceAssumption DEF Coordinate
<1> DEFINE f == Neighbour(p, d)
<1>3. f = [i \in 1..3 |-> WrapI(p[i] + d[i], 0, Size - 1)]
  BY DEF Neighbour
<1>4. \A i \in 1..3 : f[i] = (p[i] + d[i]) % Size /\ f[i] \in Coordinate
  BY <1>2, <1>3, WrapIs
<1>5. DOMAIN f = 1..3 /\ f = [i \in 1..3 |-> f[i]]
  BY <1>3
<1> HIDE DEF f
<1>6. f \in Coordinate \X Coordinate \X Coordinate
  BY <1>4, <1>5, TripleIs
<1>7. QED
  BY <1>4, <1>6 DEF Place, f

-----------------------------------------------------------------------------
(* Neighbourhoods are mutual. *)

(* Sets of which one is mapped onto the other, one to one, have one size. *)
LEMMA SameSize ==
  ASSUME NEW S, NEW T, IsFiniteSet(S), NEW F \in [S -> T],
         \A a, b \in S : F[a] = F[b] => a = b,
         \A t \in T : \E s \in S : F[s] = t
  PROVE  Cardinality(T) = Cardinality(S) /\ IsFiniteSet(T)
<1>1. F \in Bijection(S, T)
  BY Fun_IsBij
<1>2. ExistsBijection(S, T)
  BY <1>1, Fun_ExistsBij
<1>3. QED
  BY <1>2, FS_Bijection

\* the last offset is the opposite of the first, and so on inwards
Symmetric(ds) ==
  /\ ds \in Seq(Triple)
  /\ \A i \in 1..Len(ds) : \A c \in 1..3 : ds[Len(ds) + 1 - i][c] = -ds[i][c]

(* The opposite offset leads back. *)
LEMMA Back ==
  ASSUME NEW ds, Symmetric(ds), NEW p \in Place, NEW q \in Place, NEW i \in 1..Len(ds),
         Neighbour(p, ds[i]) = q
  PROVE  Neighbour(q, ds[Len(ds) + 1 - i]) = p
<1> DEFINE j == Len(ds) + 1 - i
<1>1. Len(ds) \in Nat /\ j \in 1..Len(ds) /\ ds[i] \in Triple /\ ds[j] \in Triple
  BY DEF Symmetric
<1>2. \A c \in 1..3 : ds[j][c] = -ds[i][c]
  BY DEF Symmetric
<1> HIDE DEF j
<1>3. \A c \in 1..3 : p[c] \in Coordinate /\ q[c] \in Coordinate /\ ds[i][c] \in Int
  BY <1>1 DEF Place, Triple
<1>4. \A c \in 1..3 : (p[c] + ds[i][c]) % Size = q[c]
  BY <1>1, NeighbourIs
<1>5. \A c \in 1..3 : (q[c] - ds[i][c]) % Size = p[c]
  BY <1>3, <1>4, ThereAndBack
<1>6. /\ Neighbour(q, ds[j]) \in Place
      /\ \A c \in 1..3 : Neighbour(q, ds[j])[c] = (q[c] + ds[j][c]) % Size
  BY <1>1, NeighbourIs
<1>7. \A c \in 1..3 : q[c] + ds[j][c] = q[c] - ds[i][c]
  BY <1>2, <1>3 DEF Coordinate
<1>8. \A c \in 1..3 : Neighbour(q, ds[j])[c] = p[c]
  BY <1>5, <1>6, <1>7
<1> DEFINE n == Neighbour(q, ds[j])
<1>9. n \in Place /\ \A c \in 1..3 : n[c] = p[c]
  BY <1>6, <1>8
<1> HIDE DEF n
<1>10. n = p
  BY <1>9, TriplesEqual DEF Place
<1>11. QED
  BY <1>10 DEF n, j

(* So the offsets that lead from p to q are as many as those that lead from q to p. *)
LEMMA TimesMutual ==
  ASSUME NEW ds, Symmetric(ds), NEW p \in Place, NEW q \in Place
  PROVE  Times(q, Neighbours(p, ds)) = Times(p, Neighbours(q, ds))
<1> DEFINE N == Len(ds)
           At(a, b) == {i \in 1..N : Neighbour(a, ds[i]) = b}
           F == [i \in At(p, q) |-> N + 1 - i]
<1>1. N \in Nat /\ DOMAIN ds = 1..N
  BY DEF Symmetric
<1>2. \A a, b : {i \in DOMAIN Neighbours(a, ds) : Neighbours(a, ds)[i] = b} = At(a, b)
  BY <1>1 DEF Neighbours
<1>3. \A a, b \in Place : \A i \in At(a, b) : N + 1 - i \in At(b, a)
  <2> SUFFICES ASSUME NEW a \in Place, NEW b \in Place, NEW i \in At(a, b)
               PROVE  N + 1 - i \in At(b, a)
    OBVIOUS
  <2>1. i \in 1..N /\ Neighbour(a, ds[i]) = b
    OBVIOUS
  <2>2. Neighbour(b, ds[N + 1 - i]) = a
    BY <2>1, Back
  <2>3. N + 1 - i \in 1..N
    BY <1>1, <2>1
  <2>4. QED
    BY <2>2, <2>3
<1>4. IsFiniteSet(At(p, q))
  <2>1. IsFiniteSet(1..N)
    BY <1>1, FS_Interval
  <2>2. QED
    BY <2>1, FS_Subset
<1>5. \A i \in At(p, q) \cup At(q, p) : i \in Int /\ N + 1 - (N + 1 - i) = i
  BY <1>1
<1> HIDE DEF At
<1>6. F \in [At(p, q) -> At(q, p)]
  BY <1>3
<1>7. \A a, b \in At(p, q) : F[a] = F[b] => a = b
  <2> SUFFICES ASSUME NEW a \in At(p, q), NEW b \in At(p, q), N + 1 - a = N + 1 - b PROVE a = b
    OBVIOUS
  <2>1. QED
    BY <1>1, <1>5
<1>8. \A t \in At(q, p) : \E s \in At(p, q) : F[s] = t
  <2> SUFFICES ASSUME NEW t \in At(q, p) PROVE \E s \in At(p, q) : F[s] = t
    OBVIOUS
  <2>1. N + 1 - t \in At(p, q) /\ N + 1 - (N + 1 - t) = t
    BY <1>3, <1>5
  <2>2. QED
    BY <2>1
<1> HIDE DEF F
<1>9. Cardinality(At(q, p)) = Cardinality(At(p, q))
  BY <1>4, <1>6, <1>7, <1>8, SameSize
<1>10. QED
  BY <1>2, <1>9 DEF Times

(* The neighbours of a cell are in the order of the offsets. *)
LEMMA NeighboursAre ==
  ASSUME NEW ds \in Seq(Triple), NEW p \in Place
  PROVE  /\ Neighbours(p, ds) \in Seq(Place)
         /\ \A i \in DOMAIN ds : Neighbours(p, ds)[i] = Neighbour(p, ds[i])
         /\ DOMAIN Neighbours(p, ds) = 1..Len(ds) /\ Len(Neighbours(p, ds)) = Len(ds)
<1>1. Len(ds) \in Nat /\ DOMAIN ds = 1..Len(ds) /\ \A i \in 1..Len(ds) : ds[i] \in Triple
  OBVIOUS
<1> DEFINE s == Neighbours(p, ds)
<1>2. s = [i \in 1..Len(ds) |-> Neighbour(p, ds[i])]
  BY <1>1 DEF Neighbours
<1>3. \A i \in 1..Len(ds) : Neighbour(p, ds[i]) \in Place
  BY <1>1, NeighbourIs
<1> HIDE DEF s
<1>4. s \in Seq(Place) /\ Len(s) = Len(ds)
  BY <1>1, <1>2, <1>3
<1>5. QED
  BY <1>1, <1>2, <1>4 DEF s

(* With symmetric offsets, Mutual holds. *)
LEMMA MutualOf ==
  ASSUME Symmetric(offsets)
  PROVE  Mutual
<1> DEFINE near == [p \in Place |-> Neighbours(p, offsets)]
<1>1. \A p \in Place : near[p] = Neighbours(p, offsets)
  OBVIOUS
<1>2. \A p \in Place : near[p] \in Seq(Place)
  BY <1>1, NeighboursAre DEF Symmetric
<1>3. ASSUME NEW p \in Place, NEW q \in {near[p][i] : i \in DOMAIN near[p]}
      PROVE  Times(q, near[p]) = Times(p, near[q])
  <2>1. q \in Place
    BY <1>2
  <2>2. QED
    BY <1>1, <2>1, TimesMutual
<1> HIDE DEF near
<1>4. QED
  BY <1>2, <1>3 DEF Mutual, near

\* half of the cells around the middle one
Half(r) == 4 * (r * r * r) + 6 * (r * r) + 3 * r

(* A cube of an odd number of cells has a middle, with as many before it as after it. *)
LEMMA MiddleIs ==
  ASSUME NEW r \in Nat
  PROVE  LET s == 2 * r + 1 IN
         /\ s \in Nat \ {0} /\ Half(r) \in Nat /\ Cube(s) = 2 * Half(r) + 1
         /\ (Cube(s) - 1) \div 2 = Half(r)
<1> DEFINE s == 2 * r + 1
<1>1. Half(r) \in Nat
  BY DEF Half
<1>2. Cube(s) = 2 * Half(r) + 1
  BY DEF Half, Cube
<1> HIDE DEF s
<1>3. Cube(s) - 1 = 2 * Half(r) + 0
  BY <1>1, <1>2
<1>4. (2 * Half(r) + 0) \div 2 = Half(r)
  BY <1>1, DivisionUnique
<1>5. s \in Nat \ {0}
  BY DEF s
<1>6. QED
  BY <1>1, <1>2, <1>3, <1>4, <1>5 DEF s

\* the n-th offset collected is that of the m-th cell visited
Visit(n, r) == IF n <= Half(r) THEN n - 1 ELSE n

\* the offset of the m-th cell visited
Offset(m, r) ==
  LET s == 2 * r + 1 IN <<((m \div s) % s) - r, (m \div (s * s)) - r, (m % s) - r>>

(* initMoore, in these terms. *)
LEMMA MooreIs ==
  ASSUME NEW r \in Nat
  PROVE  Moore(r) = [n \in 1..2 * Half(r) |-> Offset(Visit(n, r), r)]
<1> DEFINE s == 2 * r + 1
<1>1. /\ Half(r) \in Nat /\ Cube(s) = 2 * Half(r) + 1
      /\ (Cube(s) - 1) \div 2 = Half(r)
  BY MiddleIs
<1>2. Cube(s) - 1 = 2 * Half(r)
  BY <1>1
<1> HIDE DEF s
<1>3. QED
  BY <1>1, <1>2 DEF Moore, Offset, Visit, s

(* The offset by the digits, *)
LEMMA OffsetOf ==
  ASSUME NEW r \in Nat, NEW m, NEW x, NEW y, NEW z, HasDigits(m, 2 * r + 1, x, y, z)
  PROVE  Offset(m, r) = <<x - r, y - r, z - r>> /\ m \in 0..2 * Half(r)
<1> DEFINE s == 2 * r + 1
<1>1. s \in Nat \ {0} /\ Half(r) \in Nat /\ Cube(s) = 2 * Half(r) + 1
  BY MiddleIs
<1>2. HasDigits(m, s, x, y, z)
  OBVIOUS
<1> HIDE DEF s
<1>3. /\ m % s = z /\ (m \div s) % s = x /\ m \div (s * s) = y
      /\ m \in 0..Cube(s) - 1
  BY <1>1, <1>2, DigitsAre
<1>4. m \in 0..2 * Half(r)
  BY <1>1, <1>3
<1>5. QED
  BY <1>3, <1>4 DEF Offset, s

(* which each cell visited has. *)
LEMMA DigitsOf ==
  ASSUME NEW r \in Nat, NEW m \in 0..2 * Half(r)
  PROVE  \E x, y, z \in 0..2 * r : HasDigits(m, 2 * r + 1, x, y, z)
<1> DEFINE s == 2 * r + 1
<1>1. s \in Nat \ {0} /\ Half(r) \in Nat /\ Cube(s) = 2 * Half(r) + 1 /\ s - 1 = 2 * r
  BY MiddleIs
<1> HIDE DEF s
<1>2. m \in 0..Cube(s) - 1
  BY <1>1
<1>3. HasDigits(m, s, (m \div s) % s, m \div (s * s), m % s)
  BY <1>1, <1>2, EveryNumberHasDigits
<1>4. (m \div s) % s \in 0..2 * r /\ m \div (s * s) \in 0..2 * r /\ m % s \in 0..2 * r
  BY <1>1, <1>3 DEF HasDigits
<1>5. QED
  BY <1>3, <1>4 DEF s

(* The n-th offset from the end is the opposite of the n-th. *)
LEMMA Mirrored ==
  ASSUME NEW r \in Nat, NEW n \in 1..2 * Half(r)
  PROVE  LET a == Offset(Visit(n, r), r)
             b == Offset(Visit(2 * Half(r) + 1 - n, r), r)
         IN  a \in Triple /\ \A c \in 1..3 : b[c] = -a[c]
<1> DEFINE s == 2 * r + 1
           H == Half(r)
           m == Visit(n, r)
           k == Visit(2 * H + 1 - n, r)
<1>1. s \in Nat \ {0} /\ H \in Nat /\ Cube(s) = 2 * H + 1
  BY MiddleIs
<1>2. m \in 0..2 * H /\ k = 2 * H - m
  <2> HIDE DEF H
  <2>1. QED
    BY <1>1 DEF Visit, H
<1>3. PICK x, y, z \in 0..2 * r : HasDigits(m, s, x, y, z)
  BY <1>2, DigitsOf
<1>4. HasDigits(k, s, 2 * r - x, 2 * r - y, 2 * r - z)
  <2>1. m = s * (s * y + x) + z
    BY <1>3 DEF HasDigits
  <2>2. 2 * H = s * (s * (2 * r) + 2 * r) + 2 * r
    BY DEF Half
  <2>3. k = s * (s * (2 * r) + 2 * r) + 2 * r - (s * (s * y + x) + z)
    BY <1>2, <2>1, <2>2
  <2>4. s * (s * (2 * r) + 2 * r) + 2 * r - (s * (s * y + x) + z)
          = s * (s * (2 * r - y) + (2 * r - x)) + (2 * r - z)
    BY <1>3
  <2>5. 2 * r - x \in 0..s - 1 /\ 2 * r - y \in 0..s - 1 /\ 2 * r - z \in 0..s - 1
    BY <1>3
  <2>6. QED
    BY <2>3, <2>4, <2>5 DEF HasDigits
<1>5. Offset(m, r) = <<x - r, y - r, z - r>>
  BY <1>3, OffsetOf
<1>6. Offset(k, r) = <<2 * r - x - r, 2 * r - y - r, 2 * r - z - r>>
  BY <1>4, OffsetOf
<1>7. 1..3 = {1, 2, 3}
  OBVIOUS
<1> HIDE DEF m, k
<1>8. Offset(m, r) \in Triple /\ \A c \in 1..3 : Offset(k, r)[c] = -Offset(m, r)[c]
  BY <1>3, <1>5, <1>6, <1>7 DEF Triple
<1>9. QED
  BY <1>8 DEF m, k

(* So the Moore offsets are symmetric; *)
LEMMA MooreSymmetric ==
  ASSUME NEW r \in Nat
  PROVE  Symmetric(Moore(r)) /\ Len(Moore(r)) = 2 * Half(r)
<1> DEFINE ds == [n \in 1..2 * Half(r) |-> Offset(Visit(n, r), r)]
           L == 2 * Half(r)
<1>1. L \in Nat
  BY MiddleIs
<1>2. \A n \in 1..L : Offset(Visit(n, r), r) \in Triple
  BY Mirrored
<1>3. ds \in Seq(Triple) /\ Len(ds) = L
  <2> HIDE DEF L
  <2>1. ds = [n \in 1..L |-> Offset(Visit(n, r), r)]
    BY DEF L
  <2> HIDE DEF ds
  <2>2. QED
    BY <1>1, <1>2, <2>1
<1>4. ASSUME NEW i \in 1..L, NEW c \in 1..3
      PROVE  ds[L + 1 - i][c] = -ds[i][c]
  <2>1. L + 1 - i \in 1..L
    BY <1>1
  <2>2. QED
    BY <2>1, Mirrored
<1>5. Moore(r) = ds
  BY MooreIs
<1> HIDE DEF ds, L
<1>6. Symmetric(ds)
  BY <1>3, <1>4 DEF Symmetric
<1>7. QED
  BY <1>3, <1>5, <1>6 DEF L

(* those of a negative radius too: there are none; *)
LEMMA MooreEmpty ==
  ASSUME NEW r \in Int, r < 0
  PROVE  Symmetric(Moore(r)) /\ Moore(r) = << >>
<1> DEFINE s == 2 * r + 1
<1>1. s <= -1
  OBVIOUS
<1>2. Cube(s) <= -1
  <2>1. s * s >= 1
    BY <1>1
  <2>2. s * s * s <= -1
    BY <1>1, <2>1
  <2>3. QED
    BY <2>2 DEF Cube
<1>3. 1..Cube(s) - 1 = {}
  <2>1. Cube(s) \in Int
    BY DEF Cube
  <2>2. QED
    BY <1>2, <2>1
<1>4. DOMAIN Moore(r) = {}
  BY <1>3 DEF Moore
<1>5. Moore(r) = << >>
  BY <1>4 DEF Moore
<1>6. << >> \in Seq(Triple) /\ Len(<< >>) = 0
  OBVIOUS
<1>7. QED
  BY <1>5, <1>6 DEF Symmetric

(* and the six of Neumann. *)
LEMMA NeumannSymmetric ==
  ASSUME NEW r
  PROVE  Symmetric(Neumann(r))
<1> DEFINE ds == Neumann(r)
<1>1. ds \in Seq(Triple) /\ Len(ds) = 6
  BY DEF Neumann, Triple
<1>2. 1..3 = {1, 2, 3} /\ 1..6 = {1, 2, 3, 4, 5, 6}
  OBVIOUS
<1>3. \A i \in 1..6 : \A c \in 1..3 : ds[6 + 1 - i][c] = -ds[i][c]
  BY <1>2 DEF Neumann
<1>4. QED
  BY <1>1, <1>3 DEF Symmetric

(* Whatever is asked for. *)
LEMMA OffsetsSymmetric ==
  ASSUME NEW kind, NEW r \in Int
  PROVE  Symmetric(Offsets(kind, r))
  BY MooreSymmetric, MooreEmpty, NeumannSymmetric DEF Offsets

-----------------------------------------------------------------------------
(* A Moore neighbourhood is a ball. *)

\* the offsets of a ball of radius r, but for the middle
Steps(r) == {e \in (-r..r) \X (-r..r) \X (-r..r) : e # <<0, 0, 0>>}

\* which cell visited has the offset e
NumberOf(r, e) ==
  LET s == 2 * r + 1 IN s * (s * (e[2] + r) + (e[1] + r)) + (e[3] + r)

(* Every offset is that of one cell visited, *)
LEMMA NumberIs ==
  ASSUME NEW r \in Nat, NEW e \in (-r..r) \X (-r..r) \X (-r..r)
  PROVE  /\ NumberOf(r, e) \in 0..2 * Half(r)
         /\ Offset(NumberOf(r, e), r) = e
         /\ NumberOf(r, e) = Half(r) => e = <<0, 0, 0>>
<1> DEFINE m == NumberOf(r, e)
<1>1. /\ e = <<e[1], e[2], e[3]>>
      /\ e[1] \in -r..r /\ e[2] \in -r..r /\ e[3] \in -r..r
  OBVIOUS
<1>2. HasDigits(m, 2 * r + 1, e[1] + r, e[2] + r, e[3] + r)
  BY <1>1 DEF HasDigits, NumberOf
<1> HIDE DEF m
<1>3. Offset(m, r) = <<e[1] + r - r, e[2] + r - r, e[3] + r - r>> /\ m \in 0..2 * Half(r)
  <2>1. \A x, y, z : HasDigits(m, 2 * r + 1, x, y, z) =>
          Offset(m, r) = <<x - r, y - r, z - r>> /\ m \in 0..2 * Half(r)
    BY OffsetOf
  <2>2. QED
    BY <1>2, <2>1
<1>4. Offset(m, r) = e
  <2>1. e[1] + r - r = e[1] /\ e[2] + r - r = e[2] /\ e[3] + r - r = e[3]
    BY <1>1
  <2>2. QED
    BY <1>1, <1>3, <2>1
<1>5. HasDigits(Half(r), 2 * r + 1, r, r, r)
  <2>1. Half(r) = (2 * r + 1) * ((2 * r + 1) * r + r) + r
    BY DEF Half
  <2>2. QED
    BY <2>1 DEF HasDigits
<1>6. Offset(Half(r), r) = <<r - r, r - r, r - r>>
  BY <1>5, OffsetOf
<1>7. r - r = 0
  OBVIOUS
<1>8. QED
  BY <1>3, <1>4, <1>6, <1>7 DEF m

(* and every cell visited has an offset of the ball. *)
LEMMA NumberOfOffset ==
  ASSUME NEW r \in Nat, NEW m \in 0..2 * Half(r)
  PROVE  /\ Offset(m, r) \in (-r..r) \X (-r..r) \X (-r..r)
         /\ NumberOf(r, Offset(m, r)) = m
<1>1. PICK x, y, z \in 0..2 * r : HasDigits(m, 2 * r + 1, x, y, z)
  BY DigitsOf
<1>2. Offset(m, r) = <<x - r, y - r, z - r>>
  BY <1>1, OffsetOf
<1>3. x - r + r = x /\ y - r + r = y /\ z - r + r = z
  BY <1>1
<1>4. NumberOf(r, Offset(m, r)) = (2 * r + 1) * ((2 * r + 1) * y + x) + z
  BY <1>2, <1>3 DEF NumberOf
<1>5. QED
  BY <1>1, <1>2, <1>4 DEF HasDigits

(* So initMoore collects every offset of the ball but the middle, once. *)
LEMMA MooreCovers ==
  ASSUME NEW r \in Nat
  PROVE  /\ Moore(r) \in [1..2 * Half(r) -> Steps(r)]
         /\ \A a, b \in 1..2 * Half(r) : Moore(r)[a] = Moore(r)[b] => a = b
         /\ \A e \in Steps(r) : \E n \in 1..2 * Half(r) : Moore(r)[n] = e
<1> DEFINE H == Half(r)
           f == Moore(r)
<1>1. H \in Nat /\ f = [n \in 1..2 * H |-> Offset(Visit(n, r), r)]
  BY MiddleIs, MooreIs
<1>2. \A n \in 1..2 * H : f[n] = Offset(Visit(n, r), r)
  BY <1>1
<1>3. \A n \in 1..2 * H : Visit(n, r) \in 0..2 * H /\ Visit(n, r) # H
  <2> HIDE DEF H
  <2>1. QED
    BY <1>1 DEF Visit, H
<1>4. \A a, b \in 1..2 * H : Visit(a, r) = Visit(b, r) => a = b
  <2> HIDE DEF H
  <2>1. QED
    BY <1>1 DEF Visit, H
<1>5. ASSUME NEW n \in 1..2 * H PROVE f[n] \in Steps(r)
  <2>1. /\ f[n] \in (-r..r) \X (-r..r) \X (-r..r)
        /\ NumberOf(r, f[n]) = Visit(n, r)
    BY <1>2, <1>3, NumberOfOffset
  <2>2. NumberOf(r, <<0, 0, 0>>) = H
    <3>1. NumberOf(r, <<0, 0, 0>>) = (2 * r + 1) * ((2 * r + 1) * (0 + r) + (0 + r)) + (0 + r)
      BY DEF NumberOf
    <3>2. QED
      BY <3>1 DEF Half
  <2>3. QED
    BY <1>3, <2>1, <2>2 DEF Steps
<1>6. ASSUME NEW a \in 1..2 * H, NEW b \in 1..2 * H, f[a] = f[b] PROVE a = b
  <2>1. NumberOf(r, f[a]) = Visit(a, r) /\ NumberOf(r, f[b]) = Visit(b, r)
    BY <1>2, <1>3, NumberOfOffset
  <2>2. QED
    BY <1>4, <1>6, <2>1
<1>7. ASSUME NEW e \in Steps(r) PROVE \E n \in 1..2 * H : f[n] = e
  <2> DEFINE m == NumberOf(r, e)
  <2>1. e \in (-r..r) \X (-r..r) \X (-r..r) /\ e # <<0, 0, 0>>
    BY DEF Steps
  <2>2. m \in 0..2 * H /\ Offset(m, r) = e /\ m # H
    BY <2>1, NumberIs
  <2> DEFINE n == IF m < H THEN m + 1 ELSE m
  <2>3. n \in 1..2 * H /\ Visit(n, r) = m
    <3> HIDE DEF m, H
    <3>1. QED
      BY <1>1, <2>2 DEF Visit, H
  <2>4. QED
    BY <1>2, <2>2, <2>3
<1>8. f \in [1..2 * H -> Steps(r)]
  <2> HIDE DEF H
  <2>1. f = [n \in 1..2 * H |-> f[n]]
    BY <1>1
  <2> HIDE DEF f
  <2>2. QED
    BY <1>5, <2>1
<1>9. QED
  BY <1>6, <1>7, <1>8

(* Nobody moves by 0. *)
LEMMA Stay ==
  ASSUME NEW a \in Coordinate
  PROVE  (a + 0) % Size = a
<1>1. Size \in Nat \ {0} /\ a \in 0..Size - 1 /\ a + 0 = Size * 0 + a
  BY SpaceAssumption DEF Coordinate
<1>2. (Size * 0 + a) % Size = a
  BY <1>1, DivisionUnique
<1>3. QED
  BY <1>1, <1>2

(* In a world that has room for it, different steps of the ball lead to different places, *)
LEMMA StepsDiffer ==
  ASSUME NEW r \in Nat, 2 * r + 1 <= Size, NEW a \in Coordinate, NEW e \in -r..r, NEW f \in -r..r,
         (a + e) % Size = (a + f) % Size
  PROVE  e = f
<1>1. Size \in Nat \ {0} /\ a \in Int /\ a + e \in Int /\ a + f \in Int
  BY SpaceAssumption DEF Coordinate
<1> DEFINE c == (a + e) % Size
<1>2. PICK k \in Int : a + e = Size * k + c
  BY <1>1, Division
<1>3. PICK l \in Int : a + f = Size * l + c
  BY <1>1, Division
<1>4. c \in Int
  BY <1>1, Division
<1> HIDE DEF c
<1>5. Size * (k - l) = e - f
  BY <1>1, <1>2, <1>3, <1>4
<1>6. k - l \in Int /\ ~ (k - l >= 1) /\ ~ (k - l <= -1)
  BY <1>1, <1>5, Multiple
<1>7. k = l
  BY <1>6
<1>8. QED
  BY <1>1, <1>2, <1>3, <1>4, <1>7

(* and to all of those within the radius. *)
LEMMA CircleDistance ==
  ASSUME NEW r \in Nat, 2 * r + 1 <= Size, NEW a \in Coordinate, NEW b \in Coordinate
  PROVE  Around(a, b) <= r <=> \E e \in -r..r : (a + e) % Size = b
<1>1. Size \in Nat \ {0} /\ a \in 0..Size - 1 /\ b \in 0..Size - 1 /\ a - b \in Int
  BY SpaceAssumption DEF Coordinate
<1> DEFINE d == (a - b) % Size
<1>2. d \in 0..Size - 1
  BY <1>1, Division
<1>3. PICK k \in Int : a - b = Size * k + d
  BY <1>1, Division
<1>4. Around(a, b) = IF d <= Size - d THEN d ELSE Size - d
  BY DEF Around
<1>5. ASSUME NEW e \in -r..r, (a + e) % Size = b PROVE Around(a, b) <= r
  <2>1. (b - e) % Size = a
    BY <1>1, <1>5, ThereAndBack
  <2>2. PICK l \in Int : a + e = Size * l + b
    <3>1. a + e \in Int
      BY <1>1
    <3> DEFINE n == (a + e) \div Size
    <3>2. a + e = Size * n + b /\ n \in Int
      BY <1>1, <1>5, <3>1, Division
    <3>3. QED
      BY <3>2
  <2>3. CASE e <= 0
    <3>1. -e \in 0..Size - 1 /\ a - b = Size * l + (-e)
      BY <1>1, <2>2, <2>3
    <3>2. (Size * l + (-e)) % Size = -e
      BY <1>1, <3>1, DivisionUnique
    <3>3. d = -e
      BY <3>1, <3>2
    <3> HIDE DEF d
    <3>4. QED
      BY <1>1, <1>4, <2>3, <3>3
  <2>4. CASE e > 0
    <3>1. Size - e \in 0..Size - 1 /\ a - b = Size * (l - 1) + (Size - e) /\ l - 1 \in Int
      BY <1>1, <2>2, <2>4
    <3>2. (Size * (l - 1) + (Size - e)) % Size = Size - e
      BY <1>1, <3>1, DivisionUnique
    <3>3. d = Size - e
      BY <3>1, <3>2
    <3> HIDE DEF d
    <3>4. QED
      BY <1>1, <1>4, <2>4, <3>3
  <2>5. QED
    BY <2>3, <2>4
<1>6. ASSUME Around(a, b) <= r PROVE \E e \in -r..r : (a + e) % Size = b
  <2>1. CASE d <= Size - d
    <3>1. -d \in -r..r
      <4> HIDE DEF d
      <4>1. QED
        BY <1>2, <1>4, <1>6, <2>1
    <3>2. a + -d = Size * k + b
      <4> HIDE DEF d
      <4>1. QED
        BY <1>1, <1>2, <1>3
    <3>3. (Size * k + b) % Size = b
      BY <1>1, DivisionUnique
    <3> HIDE DEF d
    <3>4. QED
      BY <3>1, <3>2, <3>3
  <2>2. CASE ~ (d <= Size - d)
    <3>1. Size - d \in -r..r
      <4> HIDE DEF d
      <4>1. QED
        BY <1>1, <1>2, <1>4, <1>6, <2>2
    <3>2. a + (Size - d) = Size * (k + 1) + b /\ k + 1 \in Int
      <4> HIDE DEF d
      <4>1. QED
        BY <1>1, <1>2, <1>3
    <3>3. (Size * (k + 1) + b) % Size = b
      BY <1>1, <3>2, DivisionUnique
    <3> HIDE DEF d
    <3>4. QED
      BY <3>1, <3>2, <3>3
  <2>3. QED
    BY <2>1, <2>2
<1>7. QED
  BY <1>5, <1>6

\* the cells within r of p, but for p
Ball(p, r) == {q \in Place : q # p /\ \A i \in 1..3 : Around(p[i], q[i]) <= r}

(* The same in three dimensions: offsets and cells of the ball correspond. *)
LEMMA ReachIs ==
  ASSUME NEW r \in Nat, 2 * r + 1 <= Size, NEW p \in Place
  PROVE  /\ \A e \in Steps(r) : Neighbour(p, e) \in Ball(p, r)
         /\ \A e, f \in Steps(r) : Neighbour(p, e) = Neighbour(p, f) => e = f
         /\ \A q \in Ball(p, r) : \E e \in Steps(r) : Neighbour(p, e) = q
<1> DEFINE D == -r..r
<1>1. \A e \in Steps(r) : e \in D \X D \X D /\ e # <<0, 0, 0>> /\ e \in Triple
  BY DEF Steps, Triple
<1>2. \A c \in 1..3 : p[c] \in Coordinate
  BY DEF Place
<1>3. \A e \in Steps(r) : \A c \in 1..3 : e[c] \in D
  BY <1>1
<1>4. \A e \in Steps(r) : /\ Neighbour(p, e) \in Place
                          /\ \A c \in 1..3 : Neighbour(p, e)[c] = (p[c] + e[c]) % Size
  BY <1>1, NeighbourIs
<1>5. ASSUME NEW e \in Steps(r) PROVE Neighbour(p, e) \in Ball(p, r)
  <2> DEFINE q == Neighbour(p, e)
  <2>1. q \in Place /\ \A c \in 1..3 : q[c] = (p[c] + e[c]) % Size /\ q[c] \in Coordinate
    BY <1>4 DEF Place
  <2>2. \A c \in 1..3 : Around(p[c], q[c]) <= r
    BY <1>2, <1>3, <2>1, CircleDistance
  <2>3. q # p
    <3>1. SUFFICES ASSUME q = p PROVE FALSE
      OBVIOUS
    <3>2. 0 \in D
      OBVIOUS
    <3>3. \A c \in 1..3 : (p[c] + e[c]) % Size = (p[c] + 0) % Size
      BY <1>2, <2>1, <3>1, Stay
    <3>4. \A c \in 1..3 : e[c] = 0
      BY <1>2, <1>3, <3>2, <3>3, StepsDiffer
    <3>5. e = <<0, 0, 0>>
      <4>1. e = <<e[1], e[2], e[3]>>
        BY <1>1
      <4>2. e[1] = 0 /\ e[2] = 0 /\ e[3] = 0
        BY <3>4
      <4>3. QED
        BY <4>1, <4>2
    <3>6. QED
      BY <1>1, <3>5
  <2> HIDE DEF q
  <2>4. q \in Ball(p, r)
    BY <2>1, <2>2, <2>3 DEF Ball
  <2>5. QED
    BY <2>4 DEF q
<1>6. ASSUME NEW e \in Steps(r), NEW f \in Steps(r), Neighbour(p, e) = Neighbour(p, f)
      PROVE  e = f
  <2>1. \A c \in 1..3 : (p[c] + e[c]) % Size = (p[c] + f[c]) % Size
    BY <1>4, <1>6
  <2>2. \A c \in 1..3 : e[c] = f[c]
    BY <1>2, <1>3, <2>1, StepsDiffer
  <2>3. e \in D \X D \X D /\ f \in D \X D \X D
    BY <1>1
  <2> HIDE DEF D
  <2>4. QED
    BY <2>2, <2>3, TriplesEqual
<1>7. ASSUME NEW q \in Ball(p, r) PROVE \E e \in Steps(r) : Neighbour(p, e) = q
  <2>1. q \in Place /\ q # p /\ \A c \in 1..3 : q[c] \in Coordinate /\ Around(p[c], q[c]) <= r
    BY DEF Ball, Place
  <2>2. \A c \in 1..3 : \E e \in D : (p[c] + e) % Size = q[c]
    BY <1>2, <2>1, CircleDistance
  <2>3. PICK x \in D : (p[1] + x) % Size = q[1]
    BY <2>2
  <2>4. PICK y \in D : (p[2] + y) % Size = q[2]
    BY <2>2
  <2>5. PICK z \in D : (p[3] + z) % Size = q[3]
    BY <2>2
  <2> DEFINE e == <<x, y, z>>
  <2>6. 1..3 = {1, 2, 3}
    OBVIOUS
  <2>7. \A c \in 1..3 : (p[c] + e[c]) % Size = q[c]
    BY <2>3, <2>4, <2>5, <2>6
  <2>8. e \in D \X D \X D /\ e \in Triple
    BY DEF Triple
  <2>9. e # <<0, 0, 0>>
    <3>1. SUFFICES ASSUME e = <<0, 0, 0>> PROVE FALSE
      OBVIOUS
    <3>2. x = 0 /\ y = 0 /\ z = 0
      BY <3>1
    <3>3. \A c \in 1..3 : (p[c] + 0) % Size = q[c]
      BY <2>3, <2>4, <2>5, <2>6, <3>2
    <3>4. \A c \in 1..3 : p[c] = q[c]
      BY <1>2, <3>3, Stay
    <3>5. p = q
      BY <2>1, <3>4, TriplesEqual DEF Place
    <3>6. QED
      BY <2>1, <3>5
  <2> HIDE DEF e
  <2>10. e \in Steps(r)
    BY <2>8, <2>9 DEF Steps
  <2>11. Neighbour(p, e) \in Place /\ \A c \in 1..3 : Neighbour(p, e)[c] = q[c]
    BY <1>4, <2>7, <2>10
  <2>12. Neighbour(p, e) = q
    BY <2>1, <2>11, TriplesEqual DEF Place
  <2>13. QED
    BY <2>10, <2>12
<1>8. QED
  BY <1>5, <1>6, <1>7

(* The Moore neighbourhood of each cell is its ball, every cell of it once. *)
LEMMA BallOf ==
  ASSUME NEW r \in Nat, 2 * r + 1 <= Size, offsets = Moore(r)
  PROVE  IsBall(r)
<1> SUFFICES ASSUME NEW p \in Place
             PROVE  LET near == Neighbours(p, offsets)
                        ball == Ball(p, r)
                    IN  {near[i] : i \in DOMAIN near} = ball /\ Len(near) = Cardinality(ball)
  BY DEF IsBall, Surround, Ball
<1> DEFINE near == Neighbours(p, offsets)
           ball == Ball(p, r)
           N == 2 * Half(r)
<1>1. N \in Nat /\ offsets \in Seq(Triple) /\ Len(offsets) = N
  BY MooreSymmetric, MiddleIs DEF Symmetric
<1>2. /\ offsets \in [1..N -> Steps(r)]
      /\ \A a, b \in 1..N : offsets[a] = offsets[b] => a = b
      /\ \A e \in Steps(r) : \E n \in 1..N : offsets[n] = e
  BY MooreCovers
<1> HIDE DEF N
<1>3. /\ near \in Seq(Place) /\ Len(near) = N /\ DOMAIN near = 1..N
      /\ \A i \in 1..N : near[i] = Neighbour(p, offsets[i])
  <2>1. DOMAIN offsets = 1..N
    BY <1>1
  <2>2. QED
    BY <1>1, <2>1, NeighboursAre
<1> HIDE DEF near, ball
<1>4. /\ \A e \in Steps(r) : Neighbour(p, e) \in ball
      /\ \A e, f \in Steps(r) : Neighbour(p, e) = Neighbour(p, f) => e = f
      /\ \A q \in ball : \E e \in Steps(r) : Neighbour(p, e) = q
  BY ReachIs DEF ball
<1>5. \A i \in 1..N : offsets[i] \in Steps(r)
  BY <1>2
<1>6. \A i \in 1..N : near[i] \in ball
  BY <1>3, <1>4, <1>5
<1>7. \A a, b \in 1..N : near[a] = near[b] => a = b
  BY <1>2, <1>3, <1>4, <1>5
<1>8. \A q \in ball : \E i \in 1..N : near[i] = q
  BY <1>2, <1>3, <1>4
<1>9. near \in [1..N -> ball]
  BY <1>3, <1>6
<1>10. IsFiniteSet(1..N) /\ Cardinality(1..N) = N
  BY <1>1, FS_Interval
<1>11. Cardinality(ball) = N
  BY <1>7, <1>8, <1>9, <1>10, SameSize
<1>12. {near[i] : i \in DOMAIN near} = ball
  BY <1>3, <1>6, <1>8
<1>13. QED
  BY <1>3, <1>11, <1>12 DEF near, ball

(* Distances are 0 or more, and 0 only from a place to itself. *)
LEMMA AroundIs ==
  ASSUME NEW a \in Coordinate, NEW b \in Coordinate
  PROVE  Around(a, b) \in Nat /\ (Around(a, b) = 0 <=> a = b)
<1>1. Size \in Nat \ {0} /\ a \in 0..Size - 1 /\ b \in 0..Size - 1 /\ a - b \in Int
  BY SpaceAssumption DEF Coordinate
<1> DEFINE d == (a - b) % Size
<1>2. d \in 0..Size - 1
  BY <1>1, Division
<1>3. Around(a, b) = IF d <= Size - d THEN d ELSE Size - d
  BY DEF Around
<1> HIDE DEF d
<1>4. Around(a, b) \in Nat
  BY <1>1, <1>2, <1>3
<1>5. 2 * 0 + 1 <= Size /\ 0 \in Nat /\ -0..0 = {0}
  BY <1>1
<1>6. Around(a, b) <= 0 <=> \E e \in -0..0 : (a + e) % Size = b
  BY <1>5, CircleDistance
<1>7. Around(a, b) <= 0 <=> (a + 0) % Size = b
  BY <1>5, <1>6
<1>8. (a + 0) % Size = a
  BY Stay
<1>9. QED
  BY <1>4, <1>7, <1>8

(* A negative radius has no cells, and none are asked for. *)
LEMMA NoBall ==
  ASSUME NEW r \in Int, r < 0, offsets = Moore(r)
  PROVE  IsBall(r)
<1> SUFFICES ASSUME NEW p \in Place PROVE Surround(p, Ball(p, r))
  BY DEF IsBall, Ball
<1>1. offsets = << >>
  BY MooreEmpty
<1>2. Neighbours(p, offsets) = << >>
  BY <1>1 DEF Neighbours
<1>3. Ball(p, r) = {}
  <2>1. ASSUME NEW q \in Place PROVE ~ (Around(p[1], q[1]) <= r)
    <3>1. Around(p[1], q[1]) \in Nat
      BY AroundIs DEF Place
    <3>2. QED
      BY <3>1
  <2>2. 1 \in 1..3
    OBVIOUS
  <2>3. QED
    BY <2>1, <2>2 DEF Ball
<1>4. DOMAIN << >> = {} /\ Len(<< >>) = 0 /\ Cardinality({}) = 0
  BY FS_EmptySet
<1>5. {Neighbours(p, offsets)[i] : i \in DOMAIN Neighbours(p, offsets)} = {}
  BY <1>2, <1>4
<1>6. QED
  BY <1>2, <1>3, <1>4, <1>5 DEF Surround

\* the cells that share a face with p, and the steps to them
Faces(p) == {q \in Place : \E i \in 1..3 : /\ Around(p[i], q[i]) = 1
                                         /\ \A j \in (1..3) \ {i} : q[j] = p[j]}
IsFace(e) == \E i \in 1..3 : e[i] \in {-1, 1} /\ \A j \in (1..3) \ {i} : e[j] = 0

(* initNeumann has each of these steps once. *)
LEMMA NeumannIs ==
  ASSUME NEW r
  PROVE  /\ Neumann(r) \in Seq(Triple) /\ DOMAIN Neumann(r) = 1..6
         /\ \A n \in 1..6 : Neumann(r)[n] \in Steps(1) /\ IsFace(Neumann(r)[n])
         /\ \A m, n \in 1..6 : Neumann(r)[m] = Neumann(r)[n] => m = n
         /\ \A e \in Steps(1) : IsFace(e) => \E n \in 1..6 : Neumann(r)[n] = e
<1> DEFINE ds == Neumann(r)
<1>1. ds = << <<-1, 0, 0>>, <<0, -1, 0>>, <<0, 0, -1>>, <<0, 0, 1>>, <<0, 1, 0>>, <<1, 0, 0>> >>
  BY DEF Neumann
<1> HIDE DEF ds
<1>2. 1..6 = {1, 2, 3, 4, 5, 6} /\ 1..3 = {1, 2, 3} /\ -1..1 = {-1, 0, 1}
  OBVIOUS
<1>3. ds \in Seq(Triple) /\ DOMAIN ds = 1..6
  BY <1>1, <1>2 DEF Triple
<1>4. \A n \in 1..6 : ds[n] \in (-1..1) \X (-1..1) \X (-1..1) /\ ds[n] # <<0, 0, 0>>
  BY <1>1, <1>2
<1>5. \A n \in 1..6 : IsFace(ds[n])
  BY <1>1, <1>2 DEF IsFace
<1>6. \A m, n \in 1..6 : ds[m] = ds[n] => m = n
  BY <1>1, <1>2
<1>7. ASSUME NEW e \in Steps(1), IsFace(e) PROVE \E n \in 1..6 : ds[n] = e
  <2>1. e = <<e[1], e[2], e[3]>>
    BY DEF Steps
  <2>2. PICK i \in 1..3 : e[i] \in {-1, 1} /\ \A j \in (1..3) \ {i} : e[j] = 0
    BY <1>7 DEF IsFace
  <2>3. \/ e = <<-1, 0, 0>> \/ e = <<0, -1, 0>> \/ e = <<0, 0, -1>>
        \/ e = <<1, 0, 0>> \/ e = <<0, 1, 0>> \/ e = <<0, 0, 1>>
    BY <1>2, <2>1, <2>2
  <2>4. QED
    BY <1>1, <1>2, <2>3
<1>8. QED
  BY <1>3, <1>4, <1>5, <1>6, <1>7 DEF ds, Steps

(* The steps lead to the cells at the faces, each to one of its own. *)
LEMMA FacesAre ==
  ASSUME NEW p \in Place
  PROVE  /\ \A e \in Steps(1) : Neighbour(p, e) \in Faces(p) <=> IsFace(e)
         /\ \A q \in Faces(p) : \E e \in Steps(1) : Neighbour(p, e) = q
         /\ \A e, f \in Steps(1) : Neighbour(p, e) = Neighbour(p, f) => e = f
<1>1. 1 \in Nat /\ 2 * 1 + 1 <= Size
  BY SpaceAssumption
<1>2. /\ \A e \in Steps(1) : Neighbour(p, e) \in Ball(p, 1)
      /\ \A e, f \in Steps(1) : Neighbour(p, e) = Neighbour(p, f) => e = f
      /\ \A q \in Ball(p, 1) : \E e \in Steps(1) : Neighbour(p, e) = q
  BY <1>1, ReachIs
<1>3. \A c \in 1..3 : p[c] \in Coordinate
  BY DEF Place
<1>4. ASSUME NEW q \in Faces(p) PROVE q \in Ball(p, 1)
  <2>1. PICK i \in 1..3 : Around(p[i], q[i]) = 1 /\ \A j \in (1..3) \ {i} : q[j] = p[j]
    BY DEF Faces
  <2>2. q \in Place /\ \A c \in 1..3 : q[c] \in Coordinate
    BY DEF Faces, Place
  <2>3. \A j \in 1..3 : j # i => Around(p[j], q[j]) = 0
    BY <1>3, <2>1, <2>2, AroundIs
  <2>4. q # p
    BY <1>3, <2>1, AroundIs
  <2>5. \A c \in 1..3 : Around(p[c], q[c]) <= 1
    BY <2>1, <2>3
  <2>6. QED
    BY <2>2, <2>4, <2>5 DEF Ball
<1>5. ASSUME NEW e \in Steps(1) PROVE Neighbour(p, e) \in Faces(p) <=> IsFace(e)
  <2> DEFINE q == Neighbour(p, e)
  <2>1. e \in Triple /\ e # <<0, 0, 0>> /\ e = <<e[1], e[2], e[3]>>
        /\ \A c \in 1..3 : e[c] \in -1..1
    BY DEF Steps, Triple
  <2>2. q \in Place /\ \A c \in 1..3 : q[c] = (p[c] + e[c]) % Size /\ q[c] \in Coordinate
    BY <2>1, NeighbourIs DEF Place
  <2>3. \A c \in 1..3 : Around(p[c], q[c]) <= 1 /\ Around(p[c], q[c]) \in Nat
    BY <1>2, <1>3, <2>2, AroundIs DEF Ball
  <2> HIDE DEF q
  <2>4. ASSUME NEW c \in 1..3 PROVE q[c] = p[c] <=> e[c] = 0
    <3>1. (p[c] + 0) % Size = p[c]
      BY <1>3, Stay
    <3>2. 0 \in -1..1
      OBVIOUS
    <3>3. (p[c] + e[c]) % Size = (p[c] + 0) % Size => e[c] = 0
      BY <1>1, <1>3, <2>1, <3>2, StepsDiffer
    <3>4. QED
      BY <2>2, <3>1, <3>3
  <2>5. ASSUME NEW c \in 1..3 PROVE Around(p[c], q[c]) = 1 <=> e[c] \in {-1, 1}
    <3>1. Around(p[c], q[c]) = 0 <=> q[c] = p[c]
      BY <1>3, <2>2, AroundIs
    <3>2. QED
      BY <2>1, <2>3, <2>4, <3>1
  <2>6. q \in Faces(p) <=> IsFace(e)
    BY <2>2, <2>4, <2>5 DEF Faces, IsFace
  <2>7. QED
    BY <2>6 DEF q
<1>6. QED
  BY <1>2, <1>4, <1>5

(* The von Neumann neighbourhood of each cell is those cells, each of them once. *)
LEMMA CrossOf ==
  ASSUME NEW r, offsets = Neumann(r)
  PROVE  IsCross
<1> SUFFICES ASSUME NEW p \in Place PROVE Surround(p, Faces(p))
  BY DEF IsCross, Faces
<1> DEFINE near == Neighbours(p, offsets)
           faces == Faces(p)
           N == Len(offsets)
<1>1. N \in Nat /\ DOMAIN offsets = 1..N /\ DOMAIN offsets = 1..6 /\ offsets \in Seq(Triple)
  BY NeumannIs
<1> HIDE DEF N
<1>2. 1..6 = 1..N
  BY <1>1
<1>3. /\ \A n \in 1..N : offsets[n] \in Steps(1) /\ IsFace(offsets[n])
      /\ \A m, n \in 1..N : offsets[m] = offsets[n] => m = n
      /\ \A e \in Steps(1) : IsFace(e) => \E n \in 1..N : offsets[n] = e
  BY <1>2, NeumannIs
<1>4. /\ near \in Seq(Place) /\ Len(near) = N /\ DOMAIN near = 1..N
      /\ \A i \in 1..N : near[i] = Neighbour(p, offsets[i])
  BY <1>1, NeighboursAre DEF N
<1>5. /\ \A e \in Steps(1) : Neighbour(p, e) \in faces <=> IsFace(e)
      /\ \A q \in faces : \E e \in Steps(1) : Neighbour(p, e) = q
      /\ \A e, f \in Steps(1) : Neighbour(p, e) = Neighbour(p, f) => e = f
  BY FacesAre
<1> HIDE DEF near, faces
<1>6. \A i \in 1..N : near[i] \in faces
  BY <1>3, <1>4, <1>5
<1>7. \A a, b \in 1..N : near[a] = near[b] => a = b
  BY <1>3, <1>4, <1>5
<1>8. \A q \in faces : \E i \in 1..N : near[i] = q
  BY <1>3, <1>4, <1>5
<1>9. near \in [1..N -> faces]
  BY <1>4, <1>6
<1>10. IsFiniteSet(1..N) /\ Cardinality(1..N) = N
  BY <1>1, FS_Interval
<1>11. Cardinality(faces) = N
  BY <1>7, <1>8, <1>9, <1>10, SameSize
<1>12. {near[i] : i \in DOMAIN near} = faces
  BY <1>4, <1>6, <1>8
<1>13. QED
  BY <1>4, <1>11, <1>12 DEF near, faces, Surround

-----------------------------------------------------------------------------
(* Seeds and polls. *)

(* wireCube: the cells on a face are those of the box that are not inside. *)
LEMMA ShellOf ==
  ASSUME NEW a \in Areas \cup {FirstArea}, seed = WireCube(a)
  PROVE  IsShell(a)
<1> DEFINE inner == [left |-> a.left + 1, bottom |-> a.bottom + 1, front |-> a.front + 1,
                     width |-> a.width - 2, height |-> a.height - 2, depth |-> a.depth - 2]
<1>1. /\ a.left \in Int /\ a.bottom \in Int /\ a.front \in Int
      /\ a.width \in Int /\ a.height \in Int /\ a.depth \in Int
  BY SpaceAssumption
<1>2. /\ inner.left = a.left + 1 /\ inner.bottom = a.bottom + 1 /\ inner.front = a.front + 1
      /\ inner.width = a.width - 2 /\ inner.height = a.height - 2 /\ inner.depth = a.depth - 2
  OBVIOUS
<1> HIDE DEF inner
<1>3. \A p \in Box(a) : p[1] \in Int /\ p[2] \in Int /\ p[3] \in Int
  BY <1>1 DEF Box
<1>4. ASSUME NEW l \in Int, NEW w \in Int, NEW x \in l..l + w - 1
      PROVE  x \in l + 1..l + 1 + (w - 2) - 1 <=> ~ (x = l \/ x = l + w - 1)
  OBVIOUS
<1>5. ASSUME NEW p \in Box(a)
      PROVE  p \in Box(inner) <=>
               /\ ~ (p[1] = a.left \/ p[1] = a.left + a.width - 1)
               /\ ~ (p[2] = a.bottom \/ p[2] = a.bottom + a.height - 1)
               /\ ~ (p[3] = a.front \/ p[3] = a.front + a.depth - 1)
  <2>1. /\ p[1] \in a.left..a.left + a.width - 1
        /\ p[2] \in a.bottom..a.bottom + a.height - 1
        /\ p[3] \in a.front..a.front + a.depth - 1
        /\ p = <<p[1], p[2], p[3]>>
    BY DEF Box
  <2>2. /\ p[1] \in a.left + 1..a.left + 1 + (a.width - 2) - 1
             <=> ~ (p[1] = a.left \/ p[1] = a.left + a.width - 1)
        /\ p[2] \in a.bottom + 1..a.bottom + 1 + (a.height - 2) - 1
             <=> ~ (p[2] = a.bottom \/ p[2] = a.bottom + a.height - 1)
        /\ p[3] \in a.front + 1..a.front + 1 + (a.depth - 2) - 1
             <=> ~ (p[3] = a.front \/ p[3] = a.front + a.depth - 1)
    BY <1>1, <1>4, <2>1
  <2>3. p \in Box(inner) <=> /\ p[1] \in a.left + 1..a.left + 1 + (a.width - 2) - 1
                             /\ p[2] \in a.bottom + 1..a.bottom + 1 + (a.height - 2) - 1
                             /\ p[3] \in a.front + 1..a.front + 1 + (a.depth - 2) - 1
    BY <1>2, <2>1 DEF Box
  <2>4. QED
    BY <2>2, <2>3
<1>6. \A p \in Box(a) : p \in WireCube(a) <=> p \notin Box(inner)
  BY <1>5 DEF WireCube
<1>7. WireCube(a) \subseteq Box(a)
  BY DEF WireCube
<1>8. seed = Box(a) \ Box(inner)
  BY <1>6, <1>7
<1>9. QED
  BY <1>8 DEF IsShell, inner

(* randCube: a step from the corner for each cell of the box. *)
LEMMA BoxOf ==
  ASSUME NEW a \in Areas \cup {FirstArea}, seed = Box(a)
  PROVE  IsFilled(a)
<1>1. /\ a.left \in Int /\ a.bottom \in Int /\ a.front \in Int
      /\ a.width \in Int /\ a.height \in Int /\ a.depth \in Int
  BY SpaceAssumption
<1>2. \A l \in Int, w \in Int, x \in Int :
        /\ x \in 0..w - 1 => l + x \in l..l + w - 1
        /\ x \in l..l + w - 1 => x - l \in 0..w - 1
  OBVIOUS
<1>3. ASSUME NEW x \in 0..a.width - 1, NEW y \in 0..a.height - 1, NEW z \in 0..a.depth - 1
      PROVE  <<a.left + x, a.bottom + y, a.front + z>> \in seed
  <2>1. /\ a.left + x \in a.left..a.left + a.width - 1
        /\ a.bottom + y \in a.bottom..a.bottom + a.height - 1
        /\ a.front + z \in a.front..a.front + a.depth - 1
    BY <1>1, <1>2
  <2>2. QED
    BY <2>1 DEF Box
<1>4. ASSUME NEW p \in seed
      PROVE  /\ p[1] - a.left \in 0..a.width - 1
             /\ p[2] - a.bottom \in 0..a.height - 1
             /\ p[3] - a.front \in 0..a.depth - 1
  <2>1. /\ p[1] \in a.left..a.left + a.width - 1
        /\ p[2] \in a.bottom..a.bottom + a.height - 1
        /\ p[3] \in a.front..a.front + a.depth - 1
    BY DEF Box
  <2>2. QED
    BY <1>1, <1>2, <2>1
<1>5. QED
  BY <1>3, <1>4 DEF IsFilled

(* The grid of polls: its points are places of the world, also when size / 4 has a rest. *)
LEMMA PollGrid ==
  /\ PollStep \in Nat \ {0} /\ PollsPerAxis \in Nat \ {0}
  /\ \A k \in 0..PollsPerAxis - 1 : 2 + PollStep * k \in Coordinate
<1> DEFINE s == PollStep
           w == PollsPerAxis
           t == Size - 2 + s - 1
<1>1. Size \in Nat /\ Size >= 4
  BY SpaceAssumption
<1>2. s \in Nat \ {0}
  <2>1. s \in Int /\ Size % 4 \in 0..3 /\ Size = 4 * s + (Size % 4)
    BY <1>1, Division DEF PollStep
  <2> HIDE DEF s
  <2>2. QED
    BY <1>1, <2>1
<1>3. w \in Int /\ t % s \in 0..s - 1 /\ t = s * w + (t % s)
  <2>1. t \in Int /\ w = t \div s
    BY <1>1, <1>2 DEF PollsPerAxis
  <2> HIDE DEF s, t, w
  <2>2. QED
    BY <1>2, <2>1, Division
<1> DEFINE u == t % s
<1>4. u \in 0..s - 1 /\ Size - 2 + s - 1 = s * w + u /\ s * w \in Int
  BY <1>2, <1>3
<1> HIDE DEF s, w, u, t
<1>5. w >= 1
  <2>1. ~ (w <= 0)
    <3>1. SUFFICES ASSUME w <= 0 PROVE FALSE
      OBVIOUS
    <3>2. s * w <= 0
      BY <1>2, <1>3, <3>1
    <3>3. QED
      BY <1>1, <1>2, <1>4, <3>2
  <2>2. QED
    BY <1>3, <2>1
<1>6. ASSUME NEW k \in 0..w - 1 PROVE 2 + s * k \in Coordinate
  <2>1. s * k \in Nat /\ s * (w - 1) \in Int /\ s * k <= s * (w - 1)
    <3>1. k \in Nat /\ w - 1 - k >= 0 /\ w - 1 - k \in Int
      BY <1>3
    <3>2. s * (w - 1 - k) >= 0 /\ s * k >= 0 /\ s * k \in Int
      BY <1>2, <3>1
    <3>3. s * (w - 1 - k) = s * (w - 1) - s * k /\ s * (w - 1) \in Int
      BY <1>2, <1>3, <3>1
    <3>4. QED
      BY <3>2, <3>3
  <2>2. s * (w - 1) = s * w - s /\ s * w \in Int
    BY <1>2, <1>3
  <2>3. s * (w - 1) <= Size - 3
    <3> DEFINE g == s * w
    <3>1. s * (w - 1) = g - s /\ g \in Int /\ Size - 2 + s - 1 = g + u
      BY <1>4, <2>2
    <3> HIDE DEF g
    <3>2. QED
      BY <1>1, <1>2, <1>4, <3>1
  <2> DEFINE h == s * k
             g == s * (w - 1)
  <2>4. h \in Nat /\ g \in Int /\ h <= g /\ g <= Size - 3
    BY <2>1, <2>3
  <2> HIDE DEF h, g
  <2>5. h <= Size - 3
    BY <1>1, <2>4
  <2>6. 2 + h \in 0..Size - 1
    BY <1>1, <2>4, <2>5
  <2>7. QED
    BY <2>6 DEF Coordinate, h
<1>7. QED
  BY <1>2, <1>3, <1>5, <1>6 DEF s, w

(* The sweep of drawCells: cells come in the order of x, then y, then z. *)
LEMMA TurnIs ==
  ASSUME NEW p \in Place, NEW q \in Place,
         \/ p[1] < q[1]
         \/ p[1] = q[1] /\ p[2] < q[2]
         \/ p[1] = q[1] /\ p[2] = q[2] /\ p[3] < q[3]
  PROVE  Turn(p) < Turn(q)
<1> DEFINE S == Size
           a == p[1]  b == p[2]  c == p[3]
           d == q[1]  e == q[2]  f == q[3]
<1>1. /\ a \in 0..S - 1 /\ b \in 0..S - 1 /\ c \in 0..S - 1 /\ S \in Nat \ {0}
      /\ d \in 0..S - 1 /\ e \in 0..S - 1 /\ f \in 0..S - 1
  BY SpaceAssumption DEF Place, Coordinate
<1>2. \/ a < d
      \/ a = d /\ b < e
      \/ a = d /\ b = e /\ c < f
  OBVIOUS
<1>3. /\ Turn(p) = (S * a + b) * S + c + 1
      /\ Turn(q) = (S * d + e) * S + f + 1
  <2>1. \A x, y, z, k \in Int : x * k * k + y * k + z + 1 = (k * x + y) * k + z + 1
    OBVIOUS
  <2>2. /\ a \in Int /\ b \in Int /\ c \in Int /\ S \in Int
        /\ d \in Int /\ e \in Int /\ f \in Int
    BY <1>1
  <2>3. /\ Turn(p) = a * S * S + b * S + c + 1
        /\ Turn(q) = d * S * S + e * S + f + 1
    BY DEF Turn
  <2> HIDE DEF a, b, c, d, e, f, S
  <2>4. QED
    BY <2>1, <2>2, <2>3
<1> HIDE DEF a, b, c, d, e, f
<1>4. CASE a = d /\ b = e /\ c < f
  BY <1>1, <1>3, <1>4
<1>5. CASE S * a + b < S * d + e
  <2> DEFINE g == S * a + b
             h == S * d + e
  <2>1. g \in Int /\ h \in Int /\ h - g >= 1
    BY <1>1, <1>5
  <2> HIDE DEF g, h
  <2>2. S * (h - g) >= S
    BY <1>1, <2>1, Multiple
  <2>3. S * (h - g) = h * S - g * S
    BY <1>1, <2>1
  <2>4. h * S - g * S >= S /\ h * S \in Int /\ g * S \in Int
    BY <1>1, <2>1, <2>2, <2>3
  <2>5. g * S + c + 1 < h * S + f + 1
    BY <1>1, <2>4
  <2>6. QED
    BY <1>3, <2>5 DEF g, h
<1>6. a < d => S * a + b < S * d + e
  <2>1. SUFFICES ASSUME a < d PROVE S * a + b < S * d + e
    OBVIOUS
  <2>2. S * (d - a) >= S
    BY <1>1, <2>1, Multiple
  <2>3. S * (d - a) = S * d - S * a
    BY <1>1
  <2>4. QED
    BY <1>1, <2>2, <2>3
<1>7. a = d /\ b < e => S * a + b < S * d + e
  BY <1>1
<1>8. QED
  BY <1>2, <1>4, <1>5, <1>6, <1>7

(* The polls by the digits of their numbers; *)
LEMMA PollIs ==
  ASSUME NEW m, NEW x, NEW y, NEW z, HasDigits(m, PollsPerAxis, x, y, z)
  PROVE  /\ m + 1 \in DOMAIN DefaultPolls
         /\ DefaultPolls[m + 1] = <<2 + PollStep * y, 2 + PollStep * x, 2 + PollStep * z>>
         /\ DefaultPolls[m + 1] \in Place
<1> DEFINE w == PollsPerAxis
<1>1. /\ PollStep \in Nat \ {0} /\ w \in Nat \ {0}
      /\ \A k \in 0..w - 1 : 2 + PollStep * k \in Coordinate
  BY PollGrid
<1>2. /\ m % w = z /\ (m \div w) % w = x /\ m \div (w * w) = y
      /\ m \in 0..Cube(w) - 1 /\ x \in 0..w - 1 /\ y \in 0..w - 1 /\ z \in 0..w - 1
  <2>1. HasDigits(m, w, x, y, z)
    OBVIOUS
  <2> HIDE DEF w
  <2>2. x \in 0..w - 1 /\ y \in 0..w - 1 /\ z \in 0..w - 1
    BY <2>1 DEF HasDigits
  <2>3. \A s \in Nat \ {0} : HasDigits(m, s, x, y, z) =>
          /\ m % s = z /\ (m \div s) % s = x /\ m \div (s * s) = y
          /\ m \in 0..Cube(s) - 1
    BY DigitsAre
  <2>4. QED
    BY <1>1, <2>1, <2>2, <2>3
<1>3. m + 1 \in 1..Cube(w) /\ m + 1 - 1 = m
  <2>1. Cube(w) \in Int
    BY <1>1 DEF Cube
  <2>2. QED
    BY <1>2, <2>1
<1>4. DefaultPolls = [n \in 1..Cube(w) |->
         <<2 + PollStep * ((n - 1) \div (w * w)), 2 + PollStep * (((n - 1) \div w) % w),
           2 + PollStep * ((n - 1) % w)>>]
  BY DEF DefaultPolls
<1> HIDE DEF w
<1>5. DefaultPolls[m + 1] = <<2 + PollStep * y, 2 + PollStep * x, 2 + PollStep * z>>
  BY <1>2, <1>3, <1>4
<1>6. <<2 + PollStep * y, 2 + PollStep * x, 2 + PollStep * z>> \in Place
  BY <1>1, <1>2 DEF Place
<1>7. QED
  BY <1>3, <1>4, <1>5, <1>6

(* they are cells of the world, as many as the grid has; *)
LEMMA PollsAre ==
  /\ Len(DefaultPolls) = Cube(PollsPerAxis) /\ Cube(PollsPerAxis) \in Nat \ {0}
  /\ DefaultPolls \in Seq(Place)
<1> DEFINE w == PollsPerAxis
           f == DefaultPolls
<1>1. w \in Nat \ {0}
  BY PollGrid
<1>2. Cube(w) \in Nat \ {0}
  <2> HIDE DEF w
  <2>1. w * w \in Nat \ {0}
    BY <1>1
  <2>2. QED
    BY <1>1, <2>1 DEF Cube
<1>3. DOMAIN f = 1..Cube(w) /\ f = [n \in 1..Cube(w) |-> f[n]]
  BY DEF DefaultPolls
<1>4. ASSUME NEW n \in 1..Cube(w) PROVE f[n] \in Place
  <2> HIDE DEF w, f
  <2>1. n - 1 \in 0..Cube(w) - 1 /\ n - 1 + 1 = n
    BY <1>2
  <2>2. HasDigits(n - 1, w, ((n - 1) \div w) % w, (n - 1) \div (w * w), (n - 1) % w)
    BY <1>1, <2>1, EveryNumberHasDigits
  <2>3. f[n - 1 + 1] \in Place
    BY <2>2, PollIs DEF w, f
  <2>4. QED
    BY <2>1, <2>3
<1> HIDE DEF f
<1>5. f \in Seq(Place) /\ Len(f) = Cube(w)
  <2> HIDE DEF w
  <2>1. QED
    BY <1>2, <1>3, <1>4
<1>6. QED
  BY <1>2, <1>5 DEF f

(* and the next one has the next number, which comes later in the sweep. *)
LEMMA PollsSorted ==
  ASSUME NEW i \in 1..Len(DefaultPolls) - 1
  PROVE  Turn(DefaultPolls[i]) < Turn(DefaultPolls[i + 1])
<1> DEFINE w == PollsPerAxis
           s == PollStep
           f == DefaultPolls
           m == i - 1
           x == (m \div w) % w
           y == m \div (w * w)
           z == m % w
<1>1. w \in Nat \ {0} /\ s \in Nat \ {0}
  BY PollGrid
<1>2. Len(f) = Cube(w) /\ Cube(w) \in Nat \ {0}
  BY PollsAre
<1>3. m \in 0..Cube(w) - 1 /\ i \in 0..Cube(w) - 1 /\ m + 1 = i /\ i \in Int
  <2> HIDE DEF w, f
  <2>1. QED
    BY <1>2 DEF f
<1>4. HasDigits(m, w, x, y, z)
  <2> HIDE DEF w
  <2>1. QED
    BY <1>1, <1>3, EveryNumberHasDigits
<1>5. x \in 0..w - 1 /\ y \in 0..w - 1 /\ z \in 0..w - 1 /\ m = w * (w * y + x) + z
  BY <1>4 DEF HasDigits
<1>6. /\ f[m + 1] = <<2 + s * y, 2 + s * x, 2 + s * z>> /\ f[m + 1] \in Place
  BY <1>4, PollIs
<1>7. ASSUME NEW a, NEW b, NEW c, HasDigits(i, w, a, b, c)
      PROVE  f[i + 1] = <<2 + s * b, 2 + s * a, 2 + s * c>> /\ f[i + 1] \in Place
  BY <1>7, PollIs
<1>8. \A k \in Int : 2 + s * k < 2 + s * (k + 1)
  <2> SUFFICES ASSUME NEW k \in Int PROVE 2 + s * k < 2 + s * (k + 1)
    OBVIOUS
  <2> HIDE DEF s
  <2>1. s * (k + 1) = s * k + s /\ s * k \in Int
    BY <1>1
  <2>2. QED
    BY <1>1, <2>1
<1> HIDE DEF w, s, f, x, y, z, m
<1>9. CASE z < w - 1
  <2>1. HasDigits(i, w, x, y, z + 1)
    <3>1. i = w * (w * y + x) + (z + 1)
      <4> DEFINE g == w * (w * y + x)
      <4>1. g \in Int /\ m = g + z
        BY <1>1, <1>5
      <4> HIDE DEF g
      <4>2. i = g + (z + 1)
        BY <1>3, <1>5, <4>1
      <4>3. QED
        BY <4>2 DEF g
    <3>2. QED
      BY <1>1, <1>5, <1>9, <3>1 DEF HasDigits
  <2>2. f[i + 1] = <<2 + s * y, 2 + s * x, 2 + s * (z + 1)>> /\ f[i + 1] \in Place
    BY <1>7, <2>1
  <2>3. 2 + s * z < 2 + s * (z + 1)
    BY <1>5, <1>8
  <2>4. Turn(f[m + 1]) < Turn(f[i + 1])
    BY <1>6, <2>2, <2>3, TurnIs
  <2>5. QED
    BY <1>3, <2>4 DEF f
<1>10. CASE z = w - 1 /\ x < w - 1
  <2>1. HasDigits(i, w, x + 1, y, 0)
    <3>1. i = w * (w * y + x) + w
      BY <1>1, <1>3, <1>5, <1>10
    <3>2. w * (w * y + x) + w = w * (w * y + (x + 1)) + 0
      BY <1>1, <1>5
    <3>3. QED
      BY <1>1, <1>5, <1>10, <3>1, <3>2 DEF HasDigits
  <2>2. f[i + 1] = <<2 + s * y, 2 + s * (x + 1), 2 + s * 0>> /\ f[i + 1] \in Place
    BY <1>7, <2>1
  <2>3. 2 + s * x < 2 + s * (x + 1)
    BY <1>5, <1>8
  <2>4. Turn(f[m + 1]) < Turn(f[i + 1])
    BY <1>6, <2>2, <2>3, TurnIs
  <2>5. QED
    BY <1>3, <2>4 DEF f
<1>11. CASE z = w - 1 /\ x = w - 1
  <2>1. i = (w * w) * (y + 1)
    <3>1. i = w * (w * y + (w - 1)) + w
      BY <1>1, <1>3, <1>5, <1>11
    <3>2. w * (w * y + (w - 1)) + w = (w * w) * (y + 1)
      BY <1>1, <1>5
    <3>3. QED
      BY <3>1, <3>2
  <2>2. y + 1 < w
    <3>1. SUFFICES ASSUME y + 1 >= w PROVE FALSE
      BY <1>1, <1>5
    <3>2. y + 1 = w
      BY <1>1, <1>5, <3>1
    <3>3. i = Cube(w)
      BY <2>1, <3>2 DEF Cube
    <3>4. QED
      BY <1>2, <1>3, <3>3
  <2>3. HasDigits(i, w, 0, y + 1, 0)
    <3>1. (w * w) * (y + 1) = w * (w * (y + 1) + 0) + 0
      BY <1>1, <1>5
    <3>2. QED
      BY <1>1, <1>5, <2>1, <2>2, <3>1 DEF HasDigits
  <2>4. f[i + 1] = <<2 + s * (y + 1), 2 + s * 0, 2 + s * 0>> /\ f[i + 1] \in Place
    BY <1>7, <2>3
  <2>5. 2 + s * y < 2 + s * (y + 1)
    BY <1>5, <1>8
  <2>6. Turn(f[m + 1]) < Turn(f[i + 1])
    BY <1>6, <2>4, <2>5, TurnIs
  <2>7. QED
    BY <1>3, <2>6 DEF f
<1>12. QED
  BY <1>1, <1>5, <1>9, <1>10, <1>11

-----------------------------------------------------------------------------

-----------------------------------------------------------------------------
(* The theorems. *)

\* each world is the one that was asked for, with the default poll list
BuiltAsAsked ==
  /\ built.kind \in {"moore", "neumann"} /\ built.cube \in {"wire", "rand"}
  /\ built.radius \in Int /\ built.area \in Areas \cup {FirstArea}
  /\ offsets = Offsets(built.kind, built.radius)
  /\ seed = Seed(built.cube, built.area)
  /\ polls = DefaultPolls

(* initWorld and every reset build it so. *)
LEMMA AlwaysBuiltAsAsked == Spec => []BuiltAsAsked
<1>1. Init => BuiltAsAsked
  BY DEF Init, BuiltAsAsked, Offsets, Seed
<1>2. BuiltAsAsked /\ [Next]_vars => BuiltAsAsked'
  <2> SUFFICES ASSUME BuiltAsAsked, [Next]_vars PROVE BuiltAsAsked'
    OBVIOUS
  <2>1. CASE Reset
    <3>1. PICK r \in Requests : /\ built' = r
                                /\ offsets' = Offsets(r.kind, r.radius)
                                /\ seed' = Seed(r.cube, r.area)
                                /\ UNCHANGED polls
      BY <2>1 DEF Reset
    <3>2. /\ r.kind \in {"moore", "neumann"} /\ r.cube \in {"wire", "rand"}
          /\ r.radius \in Int /\ r.area \in Areas
      BY SpaceAssumption DEF Requests
    <3>3. polls' = DefaultPolls
      BY <3>1 DEF BuiltAsAsked
    <3>4. QED
      BY <3>1, <3>2, <3>3 DEF BuiltAsAsked, Offsets, Seed, Moore, Neumann, WireCube, Box, Cube
  <2>2. CASE UNCHANGED vars
    BY <2>2 DEF BuiltAsAsked, vars
  <2>3. QED
    BY <2>1, <2>2 DEF Next
<1>3. QED
  BY <1>1, <1>2, PTL DEF Spec

(* Habitat.m setHabitat: a cell is as often among the neighbours of another as that one    *)
(* among its own, for every size, radius and kind, also where a neighbourhood meets itself. *)
THEOREM NeighboursAreMutual == Spec => []Mutual
<1>1. BuiltAsAsked => Mutual
  BY OffsetsSymmetric, MutualOf DEF BuiltAsAsked
<1>2. QED
  BY <1>1, AlwaysBuiltAsAsked, PTL

(* Habitat.m, fxutil.c, Seeds.m: for every size, radius and area, a Moore neighbourhood that *)
(* has room is the ball of its radius, a von Neumann one the six faces, the radius ignored;   *)
(* a wire cube is closed and empty inside, a random one full.                                 *)
THEOREM WorldsAreAsAskedFor == Spec => []AsAskedFor
<1>1. BuiltAsAsked => AsAskedFor
  <2> SUFFICES ASSUME BuiltAsAsked PROVE AsAskedFor
    OBVIOUS
  <2>1. ASSUME built.kind = "moore", 2 * built.radius + 1 <= Size
        PROVE  IsBall(built.radius)
    <3>1. built.radius \in Int /\ offsets = Moore(built.radius)
      BY <2>1 DEF BuiltAsAsked, Offsets
    <3>2. CASE built.radius < 0
      BY <3>1, <3>2, NoBall
    <3>3. CASE ~ built.radius < 0
      BY <2>1, <3>1, <3>3, BallOf
    <3>4. QED
      BY <3>2, <3>3
  <2>2. ASSUME built.kind = "neumann" PROVE IsCross
    BY <2>2, CrossOf DEF BuiltAsAsked, Offsets
  <2>3. built.area \in Areas \cup {FirstArea} /\ seed = Seed(built.cube, built.area)
    BY DEF BuiltAsAsked
  <2>4. ASSUME built.cube = "wire" PROVE IsShell(built.area)
    BY <2>3, <2>4, ShellOf DEF Seed
  <2>5. ASSUME built.cube = "rand" PROVE IsFilled(built.area)
    BY <2>3, <2>5, BoxOf DEF Seed
  <2>6. QED
    BY <2>1, <2>2, <2>4, <2>5 DEF AsAskedFor
<1>2. QED
  BY <1>1, AlwaysBuiltAsAsked, PTL

(* setPollIndices: the default poll list names cells in the order in which drawCells visits *)
(* them, each once, for every size.                                                         *)
THEOREM PollsFollowTheSweep == Spec => []PollsInSweepOrder
<1>1. BuiltAsAsked => PollsInSweepOrder
  <2> SUFFICES ASSUME polls = DefaultPolls PROVE PollsInSweepOrder
    BY DEF BuiltAsAsked
  <2>1. polls # << >> /\ polls \in Seq(Place)
    BY PollsAre
  <2>2. \A i \in 1..Len(polls) - 1 : Turn(polls[i]) < Turn(polls[i + 1])
    BY PollsSorted
  <2>3. QED
    BY <2>1, <2>2 DEF PollsInSweepOrder
<1>2. QED
  BY <1>1, AlwaysBuiltAsAsked, PTL
==============================================================================
