----------------------------- MODULE CellSpace -----------------------------
(***************************************************************************)
(* The geometry of the world: the cells of a torus of Size * Size * Size,  *)
(* the neighbourhoods (Habitat.m, setHabitat and fxutil.c), the seeds      *)
(* (Seeds.m) and the default poll list (setPollIndices: NULL) of each      *)
(* world that initWorld or a reset request builds.                         *)
(*                                                                         *)
(* Nested loops that collect into an array are functions of the number of  *)
(* the element, in the order of the loops.                                 *)
(***************************************************************************)
EXTENDS Integers, Sequences, FiniteSets

CONSTANTS
  Size,       \* WORLD_SIZE
  Radii,      \* radius of a reset request, any int
  Areas,      \* seed areas: [left, bottom, front, width, height, depth]
  FirstArea   \* that of initWorld

ASSUME SpaceAssumption ==
  /\ Size \in Nat /\ Size >= 4      \* below 4 the poll grid's step is 0
  /\ Radii \subseteq Int
  /\ \A a \in Areas \cup {FirstArea} :
       a \in [left : Int, bottom : Int, front : Int, width : Int, height : Int, depth : Int]

Coordinate == 0..Size - 1
Place == Coordinate \X Coordinate \X Coordinate

VARIABLES
  built,     \* how the current world was asked for: [kind, radius, cube, area]
  offsets,   \* indices of its Habitat
  seed,      \* places of its seed
  polls      \* its poll list

vars == <<built, offsets, seed, polls>>

-----------------------------------------------------------------------------
WrapI_shortByOne(val, lo, hi) == ((val - lo) % (hi - lo)) + lo
(* wrapi, by xmod: the modulus rounds down, also below lo. *)
WrapI(val, lo, hi) == ((val - lo) % (hi - lo + 1)) + lo

Cube(n) == n * n * n

(* initMoore: y in the outer loop, x in the middle, z in the inner; all     *)
(* but the cell itself, which is the middle one.                            *)
Moore(radius) ==
  LET s == 2 * radius + 1
      middle == (Cube(s) - 1) \div 2
  IN  [n \in 1..Cube(s) - 1 |->
         LET m == IF n <= middle THEN n - 1 ELSE n
         IN  <<((m \div s) % s) - radius, (m \div (s * s)) - radius, (m % s) - radius>>]

(* initNeumann: the six faces, whatever the radius. *)
Neumann(radius) ==
  << <<-1, 0, 0>>, <<0, -1, 0>>, <<0, 0, -1>>, <<0, 0, 1>>, <<0, 1, 0>>, <<1, 0, 0>> >>

Offsets(kind, radius) == IF kind = "neumann" THEN Neumann(radius) ELSE Moore(radius)

(* setHabitat, for the cell at p. *)
Neighbour(p, d) == [i \in 1..3 |-> WrapI(p[i] + d[i], 0, Size - 1)]
Neighbours(p, ds) == [i \in DOMAIN ds |-> Neighbour(p, ds[i])]

Box(a) ==
  (a.left .. a.left + a.width - 1) \X (a.bottom .. a.bottom + a.height - 1)
    \X (a.front .. a.front + a.depth - 1)

WireCube_openRight(a) ==
  {p \in Box(a) : p[1] = a.left \/ p[2] = a.bottom \/ p[3] = a.front}

(* wireCube: the shell of the area. *)
WireCube(a) ==
  {p \in Box(a) :
     \/ p[1] = a.left \/ p[2] = a.bottom \/ p[3] = a.front
     \/ p[1] = a.left + a.width - 1
     \/ p[2] = a.bottom + a.height - 1
     \/ p[3] = a.front + a.depth - 1}

(* randCube: all of it. *)
Seed(cube, a) == IF cube = "wire" THEN WireCube(a) ELSE Box(a)

PollStep == Size \div 4
(* for (i = 2; i < size; i += size / 4) *)
PollsPerAxis == (Size - 2 + PollStep - 1) \div PollStep

DefaultPolls_innerFirst ==
  LET w == PollsPerAxis IN
  [n \in 1..Cube(w) |->
     LET m == n - 1 IN
     <<2 + PollStep * (m % w), 2 + PollStep * ((m \div w) % w), 2 + PollStep * (m \div (w * w))>>]

DefaultPolls ==
  LET w == PollsPerAxis IN
  [n \in 1..Cube(w) |->
     LET m == n - 1 IN
     <<2 + PollStep * (m \div (w * w)), 2 + PollStep * ((m \div w) % w), 2 + PollStep * (m % w)>>]

-----------------------------------------------------------------------------
Requests == [kind : {"moore", "neumann"}, radius : Radii, cube : {"wire", "rand"}, area : Areas]

(* initWorld *)
Init ==
  /\ built = [kind |-> "moore", radius |-> 1, cube |-> "wire", area |-> FirstArea]
  /\ offsets = Moore(1)
  /\ seed = WireCube(FirstArea)
  /\ polls = DefaultPolls

(* resetWorld and FxWorld -init:.  The list of the world before replaces    *)
(* the new world's own; FxView has what becomes of lists that differ.       *)
Reset ==
  \E r \in Requests :
    /\ built' = r
    /\ offsets' = Offsets(r.kind, r.radius)
    /\ seed' = Seed(r.cube, r.area)
    /\ UNCHANGED polls

Next == Reset

Spec == Init /\ [][Next]_vars

-----------------------------------------------------------------------------
Times(x, s) == Cardinality({i \in DOMAIN s : s[i] = x})

(* Neighbours are cells of the world, and mutual: a cell counts as often in *)
(* the mean of another as that one in its own, also when the neighbourhood  *)
(* is so large that it wraps around the world and meets cells twice.        *)
Mutual ==
  LET near == [p \in Place |-> Neighbours(p, offsets)] IN
  /\ \A p \in Place : near[p] \in Seq(Place)
  /\ \A p \in Place : \A q \in {near[p][i] : i \in DOMAIN near[p]} :
       Times(q, near[p]) = Times(p, near[q])

(* Distance on a circle of Size places. *)
Around(a, b) == LET d == (a - b) % Size IN IF d <= Size - d THEN d ELSE Size - d

(* The neighbours of p are the cells of S, each of them once.               *)
Surround(p, S) ==
  LET near == Neighbours(p, offsets)
  IN  {near[i] : i \in DOMAIN near} = S /\ Len(near) = Cardinality(S)

(* The ball of a radius around every cell, but for the cell itself.         *)
IsBall(radius) ==
  \A p \in Place :
    Surround(p, {q \in Place : q # p /\ \A i \in 1..3 : Around(p[i], q[i]) <= radius})

(* The cells that share a face with it.                                     *)
IsCross ==
  \A p \in Place :
    Surround(p, {q \in Place : \E i \in 1..3 : /\ Around(p[i], q[i]) = 1
                                               /\ \A j \in (1..3) \ {i} : q[j] = p[j]})

(* A wire cube is its box without the box one smaller on every side: its    *)
(* interior is empty and its faces are closed, also when it is thin.        *)
IsShell(a) ==
  LET inner == [left |-> a.left + 1, bottom |-> a.bottom + 1, front |-> a.front + 1,
                width |-> a.width - 2, height |-> a.height - 2, depth |-> a.depth - 2]
  IN  seed = Box(a) \ Box(inner)

(* A random cube has the place at every distance from its corner that is    *)
(* within its sides, and no other.                                          *)
IsFilled(a) ==
  /\ \A x \in 0..a.width - 1, y \in 0..a.height - 1, z \in 0..a.depth - 1 :
       <<a.left + x, a.bottom + y, a.front + z>> \in seed
  /\ \A p \in seed : /\ p[1] - a.left \in 0..a.width - 1
                     /\ p[2] - a.bottom \in 0..a.height - 1
                     /\ p[3] - a.front \in 0..a.depth - 1

(* What a request gets.  Its radius is that of a Moore neighbourhood, which *)
(* is a ball if the world has room for it, an empty one if the radius is    *)
(* negative.  A von Neumann request has the six cells at its faces whatever *)
(* its radius: initNeumann ignores it.  The seed has the shape and the area *)
(* of the request, also where that is thin, empty or out of the world.      *)
AsAskedFor ==
  /\ built.kind = "moore" /\ 2 * built.radius + 1 <= Size => IsBall(built.radius)
  /\ built.kind = "neumann" => IsCross
  /\ built.cube = "wire" => IsShell(built.area)
  /\ built.cube = "rand" => IsFilled(built.area)

(* Where in the sweep of drawCells a cell comes. *)
Turn(p) == p[1] * Size * Size + p[2] * Size + p[3] + 1

(* The default poll list names cells of the world, in sweep order and       *)
(* without repetitions, as the sampling in drawCells needs it.              *)
PollsInSweepOrder ==
  /\ polls # << >> /\ polls \in Seq(Place)
  /\ \A i \in 1..Len(polls) - 1 : Turn(polls[i]) < Turn(polls[i + 1])
============================================================================
