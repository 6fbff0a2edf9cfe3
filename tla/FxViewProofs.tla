---------------------------- MODULE FxViewProofs ----------------------------
(***************************************************************************)
(* What FxView guarantees for a world of any size, any rule parameters and *)
(* any set of requests.                                                    *)
(***************************************************************************)
EXTENDS FxView, LeastNumber, TLAPS

-----------------------------------------------------------------------------
(* The sum that Total ends with, as the values of one function.             *)
\* f holds the sums of the first numbers of s, up to k of them
SumTo(f, s, k) == f = [n \in 0..k |-> IF n = 0 THEN 0 ELSE f[n - 1] + s[n]]
IsSum(f, s) == SumTo(f, s, Len(s))

(* Every sequence has such a function: one number more at a time. *)
LEMMA SumsExist ==
  ASSUME NEW s, Len(s) \in Nat
  PROVE  \E f : IsSum(f, s)
<1> DEFINE T == {k \in 0..Len(s) : \E f : SumTo(f, s, k)}
<1>1. 0 \in T
  <2>1. SumTo([n \in 0..0 |-> 0], s, 0)
    BY DEF SumTo
  <2>2. QED
    BY <2>1
<1>2. ASSUME NEW k \in 0..Len(s) - 1, k \in T PROVE k + 1 \in T
  <2>1. PICK f : SumTo(f, s, k)
    BY <1>2
  <2> DEFINE g == [n \in 0..k + 1 |-> IF n <= k THEN f[n] ELSE f[k] + s[k + 1]]
  <2>2. \A n \in 0..k + 1 : g[n] = IF n = 0 THEN 0 ELSE g[n - 1] + s[n]
    BY <2>1 DEF SumTo
  <2>3. SumTo(g, s, k + 1)
    BY <2>2 DEF SumTo
  <2>4. QED
    BY <2>3
<1> HIDE DEF T
<1>3. Inductive(T, Len(s))
  BY <1>1, <1>2 DEF Inductive
<1>4. Len(s) \in T
  BY <1>3, AllNumbers
<1>5. QED
  BY <1>4 DEF T, IsSum

(* Total is its last value. *)
LEMMA TotalIs ==
  ASSUME NEW s, Len(s) \in Nat
  PROVE  \E f : IsSum(f, s) /\ Total(s) = f[Len(s)]
<1> DEFINE f == CHOOSE g : IsSum(g, s)
<1>1. Total(s) = f[Len(s)]
  BY DEF Total, IsSum, SumTo
<1>2. IsSum(f, s)
  BY SumsExist
<1>3. QED
  BY <1>1, <1>2

(* What the function is, number by number. *)
LEMMA SumSteps ==
  ASSUME NEW s, Len(s) \in Nat, NEW f, IsSum(f, s)
  PROVE  f[0] = 0 /\ \A n \in 0..Len(s) - 1 : f[n + 1] = f[n] + s[n + 1]
  BY DEF IsSum, SumTo

(* A sum of natural numbers is one, and none of them is more. *)
LEMMA TotalIsNat ==
  ASSUME NEW s \in Seq(Nat)
  PROVE  Total(s) \in Nat /\ \A i \in 1..Len(s) : Total(s) >= s[i]
<1>1. PICK f : IsSum(f, s) /\ Total(s) = f[Len(s)]
  BY TotalIs
<1>2. f[0] = 0 /\ \A n \in 0..Len(s) - 1 : f[n + 1] = f[n] + s[n + 1]
  BY <1>1, SumSteps
<1> DEFINE T == {n \in 0..Len(s) : f[n] \in Nat /\ \A i \in 1..n : f[n] >= s[i]}
<1>3. 0 \in T
  BY <1>2
<1>4. ASSUME NEW n \in 0..Len(s) - 1, n \in T PROVE n + 1 \in T
  <2>1. f[n + 1] = f[n] + s[n + 1] /\ s[n + 1] \in Nat /\ f[n] \in Nat
    BY <1>2, <1>4
  <2>2. \A i \in 1..n : f[n] >= s[i] /\ s[i] \in Nat
    BY <1>4
  <2>3. \A i \in 1..n + 1 : f[n + 1] >= s[i]
    BY <2>1, <2>2
  <2>4. QED
    BY <2>1, <2>3
<1> HIDE DEF T
<1>5. Inductive(T, Len(s))
  BY <1>3, <1>4 DEF Inductive
<1>6. Len(s) \in T
  BY <1>5, AllNumbers
<1>7. QED
  BY <1>1, <1>6 DEF T

(* A sum is at most h times another when every number of it is. *)
LEMMA TotalBetween ==
  ASSUME NEW s \in Seq(Nat), NEW u \in Seq(Nat), Len(u) = Len(s), NEW h \in Nat,
         \A i \in 1..Len(s) : s[i] <= h * u[i]
  PROVE  Total(s) <= h * Total(u)
<1>1. PICK f : IsSum(f, s) /\ Total(s) = f[Len(s)]
  BY TotalIs
<1>2. f[0] = 0 /\ \A n \in 0..Len(s) - 1 : f[n + 1] = f[n] + s[n + 1]
  BY <1>1, SumSteps
<1>3. PICK g : IsSum(g, u) /\ Total(u) = g[Len(u)]
  BY TotalIs
<1>4. g[0] = 0 /\ \A n \in 0..Len(u) - 1 : g[n + 1] = g[n] + u[n + 1]
  BY <1>3, SumSteps
<1> DEFINE T == {n \in 0..Len(s) : f[n] \in Nat /\ g[n] \in Nat /\ f[n] <= h * g[n]}
<1>5. 0 \in T
  BY <1>2, <1>4
<1>6. ASSUME NEW n \in 0..Len(s) - 1, n \in T PROVE n + 1 \in T
  <2>1. f[n] \in Nat /\ g[n] \in Nat /\ f[n] <= h * g[n]
    BY <1>6
  <2>2. n + 1 \in 1..Len(s) /\ n + 1 \in 1..Len(u) /\ n \in 0..Len(u) - 1
    OBVIOUS
  <2>3. f[n + 1] = f[n] + s[n + 1] /\ g[n + 1] = g[n] + u[n + 1]
    BY <1>2, <1>4, <2>2
  <2>4. s[n + 1] \in Nat /\ u[n + 1] \in Nat /\ s[n + 1] <= h * u[n + 1]
    BY <2>2
  <2>5. h * (g[n] + u[n + 1]) = h * g[n] + h * u[n + 1]
    BY <2>1, <2>4
  <2>6. f[n + 1] <= h * g[n + 1] /\ f[n + 1] \in Nat /\ g[n + 1] \in Nat
    <3> DEFINE a == h * g[n]
               b == h * u[n + 1]
               x == s[n + 1]
               y == u[n + 1]
               v == f[n]
               w == g[n]
    <3>1. v \in Nat /\ w \in Nat /\ x \in Nat /\ y \in Nat
      BY <2>1, <2>4
    <3>2. a \in Int /\ b \in Int /\ v <= a /\ x <= b
      BY <2>1, <2>4
    <3>3. f[n + 1] = v + x /\ g[n + 1] = w + y /\ h * (w + y) = a + b
      BY <2>3, <2>5
    <3> HIDE DEF a, b, x, y, v, w
    <3>4. h * g[n + 1] = a + b
      BY <3>3
    <3>5. QED
      BY <3>1, <3>2, <3>3, <3>4
  <2>7. QED
    BY <2>2, <2>6
<1> HIDE DEF T
<1>7. Inductive(T, Len(s))
  BY <1>5, <1>6 DEF Inductive
<1>8. Len(s) \in T
  BY <1>7, AllNumbers
<1>9. QED
  BY <1>1, <1>3, <1>8 DEF T

-----------------------------------------------------------------------------
(* The rule of one cell.                                                    *)
(* A number that is at most h times another, divided by it. *)
LEMMA QuotientBetween ==
  ASSUME NEW a \in Nat, NEW b \in Nat \ {0}, NEW h \in Nat, a <= h * b
  PROVE  Quotient(a, b) \in 0..h
<1> DEFINE q == a \div b
           d == a % b
<1>1. q \in Int /\ d \in 0..b - 1 /\ a = b * q + d
  OBVIOUS
<1>2. Quotient(a, b) = q
  BY DEF Quotient
<1> HIDE DEF q, d
<1>3. ~ (q <= -1)
  <2>1. SUFFICES ASSUME q <= -1 PROVE FALSE
    OBVIOUS
  <2>2. b * q <= -b
    BY <1>1, <2>1
  <2>3. QED
    BY <1>1, <2>2
<1>4. ~ (q >= h + 1)
  <2>1. SUFFICES ASSUME q >= h + 1 PROVE FALSE
    OBVIOUS
  <2>2. b * (q - h) >= b
    BY <1>1, <2>1
  <2>3. b * (q - h) = b * q - h * b
    BY <1>1
  <2> DEFINE x == b * q
             y == h * b
  <2>4. x \in Int /\ y \in Int /\ x - y >= b /\ a = x + d /\ a <= y
    BY <1>1, <2>2, <2>3
  <2> HIDE DEF x, y
  <2>5. QED
    BY <1>1, <2>4
<1>5. QED
  BY <1>1, <1>2, <1>3, <1>4

(* What the neighbours weigh is not negative, and not nothing: the list of  *)
(* weights, or one each when it has another length than the habitat.        *)
LEMMA UsedWeighs ==
  ASSUME NEW nb, nb \in Seq(Cells), nb # << >>, NEW wl, Weighing(wl)
  PROVE  /\ Used(nb, wl) \in Seq(Nat) /\ Len(Used(nb, wl)) = Len(nb)
         /\ Total(Used(nb, wl)) \in Nat \ {0}
<1> DEFINE u == Used(nb, wl)
<1>1. DOMAIN nb = 1..Len(nb) /\ Len(nb) \in Nat /\ Len(nb) >= 1
  OBVIOUS
<1>2. /\ u \in Seq(Nat) /\ Len(u) = Len(nb)
      /\ \E i \in 1..Len(u) : u[i] > 0
  <2>1. CASE Len(wl) = Len(nb)
    BY <2>1 DEF Used, Weighing
  <2>2. CASE Len(wl) # Len(nb)
    <3>1. u = [i \in 1..Len(nb) |-> 1]
      BY <1>1, <2>2 DEF Used
    <3> HIDE DEF u
    <3>2. u \in Seq(Nat) /\ Len(u) = Len(nb)
      BY <1>1, <3>1
    <3>3. 1 \in 1..Len(u) /\ u[1] > 0
      BY <1>1, <3>1, <3>2
    <3>4. QED
      BY <3>2, <3>3
  <2>3. QED
    BY <2>1, <2>2
<1> HIDE DEF u
<1>3. PICK i \in 1..Len(u) : u[i] > 0
  BY <1>2
<1>4. Total(u) \in Nat /\ Total(u) >= u[i] /\ u[i] \in Nat
  BY <1>2, <1>3, TotalIsNat
<1>5. Total(u) \in Nat \ {0}
  BY <1>3, <1>4
<1>6. QED
  BY <1>2, <1>5 DEF u

(* Cell -next::: of values in the unit interval is in it again: a mean is   *)
(* never above the values it is of, and one subtraction takes back what add *)
(* carried it over 1.0.                                                     *)
LEMMA RuleStaysInUnit ==
  ASSUME NEW nb, nb \in Seq(Cells), nb # << >>, NEW wl, Weighing(wl),
         NEW last \in [Cells -> 0..One], NEW a \in 0..One
  PROVE  NextState(nb, last, wl, a) \in 0..One
<1> DEFINE u == Used(nb, wl)
           seen == [i \in DOMAIN nb |-> last[nb[i]]]
           weighed == [i \in DOMAIN seen |-> seen[i] * u[i]]
           n == Len(nb)
<1>1. u \in Seq(Nat) /\ Len(u) = n /\ Total(u) \in Nat \ {0}
  BY UsedWeighs
<1>2. /\ n \in Nat /\ DOMAIN nb = 1..n /\ DOMAIN seen = 1..n
      /\ \A i \in 1..n : seen[i] = last[nb[i]] /\ nb[i] \in Cells
  OBVIOUS
<1>3. One \in Nat /\ NaN \notin Int /\ \A i \in 1..n : seen[i] \in 0..One
  BY <1>2, OneAssumption, NaNAssumption
<1>4. Average(nb, last, wl) = Mean(seen, u)
  BY DEF Average
<1>5. Mean(seen, u) = Quotient(Total(weighed), Total(u))
  <2>1. ~ (Total(u) = 0 \/ \E i \in DOMAIN seen : seen[i] = NaN)
    BY <1>1, <1>2, <1>3
  <2> HIDE DEF seen, u
  <2>2. QED
    BY <2>1 DEF Mean
<1> HIDE DEF u, seen
<1>6. \A i \in 1..n : u[i] \in Nat /\ seen[i] * u[i] \in Nat /\ seen[i] * u[i] <= One * u[i]
  <2> SUFFICES ASSUME NEW i \in 1..n
               PROVE  u[i] \in Nat /\ seen[i] * u[i] \in Nat /\ seen[i] * u[i] <= One * u[i]
    OBVIOUS
  <2> DEFINE x == seen[i]
             y == u[i]
  <2>1. x \in 0..One /\ y \in Nat
    BY <1>1, <1>3
  <2> HIDE DEF x, y
  <2>2. (One - x) * y >= 0 /\ (One - x) * y = One * y - x * y /\ x * y \in Nat
    BY <1>3, <2>1
  <2>3. x * y <= One * y
    <3> DEFINE p == One * y
               q == x * y
    <3>1. p \in Int /\ q \in Int /\ p - q >= 0
      BY <1>3, <2>1, <2>2
    <3> HIDE DEF p, q
    <3>2. q <= p
      BY <3>1
    <3>3. QED
      BY <3>2 DEF p, q
  <2>4. QED
    BY <2>1, <2>2, <2>3 DEF x, y
<1>7. /\ weighed \in Seq(Nat) /\ Len(weighed) = n
      /\ \A i \in 1..n : weighed[i] = seen[i] * u[i]
  BY <1>2, <1>6
<1> HIDE DEF weighed, n
<1>8. Total(weighed) \in Nat
  BY <1>7, TotalIsNat
<1>9. Total(weighed) <= One * Total(u)
  <2>1. \A i \in 1..Len(weighed) : weighed[i] <= One * u[i]
    BY <1>6, <1>7
  <2>2. QED
    BY <1>1, <1>3, <1>7, <2>1, TotalBetween
<1>10. Quotient(Total(weighed), Total(u)) \in 0..One
  BY <1>1, <1>3, <1>8, <1>9, QuotientBetween
<1> DEFINE avg == Average(nb, last, wl)
<1>11. avg \in 0..One
  BY <1>4, <1>5, <1>10
<1>12. NextState(nb, last, wl, a) = IF avg = NaN THEN NaN ELSE WrapOnce(avg + a)
  BY DEF NextState
<1> HIDE DEF avg
<1>13. NextState(nb, last, wl, a) = WrapOnce(avg + a)
  BY <1>3, <1>11, <1>12
<1>14. QED
  BY <1>3, <1>11, <1>13 DEF WrapOnce

USE ViewAssumption DEF Cells

-----------------------------------------------------------------------------
(* The frame's state keeps its types, whatever is requested. *)
LEMMA Typing == Spec => []FrameTypeOK
<1>1. Init => FrameTypeOK
  <2> SUFFICES ASSUME Init PROVE FrameTypeOK
    OBVIOUS
  <2>1. PerCell(state) /\ PerCell(lastState) /\ PerCell(velocity) /\ PerCell(phase)
    BY DEF Init, PerCell, InitCells, Zeros
  <2>2. habitat \in [Cells -> Seq(Cells)]
    BY DEF Init
  <2>3. clock \in 0..ClockCap /\ ratio = FirstRate
    BY DEF Init
  <2>4. at \in 1..N+1 /\ add \in Adds \cup {0} /\ loudest \in Cells
    BY DEF Init, NoFrame
  <2>5. ratio \in FrameRates \cup {FirstRate} /\ weights \in Weights \cup {FirstWeights}
    BY DEF Init
  <2>6. pollIndices \in PollLists \cup {DefaultPolls} /\ pollIndex \in Nat /\ retained \in 0..2
    BY DEF Init, NewWorldRefs
  <2>7. pc = "idle" /\ pollsFreed = FALSE /\ renew = FALSE /\ messaging = FALSE
        /\ drawing = FALSE /\ quit = FALSE
    BY DEF Init
  <2>8. QED
    BY <2>1, <2>2, <2>3, <2>4, <2>5, <2>6, <2>7 DEF FrameTypeOK
<1>2. FrameTypeOK /\ [Next]_vars => FrameTypeOK'
  <2> SUFFICES ASSUME FrameTypeOK, [Next]_vars PROVE FrameTypeOK'
    OBVIOUS
  <2> USE DEF FrameTypeOK, PerCell, cellVars, pollVars, worldVars, viewVars, frameVars
  <2>1. CASE StartFrame
    BY <2>1 DEF StartFrame
  <2>2. CASE ResetWorld
    BY <2>2 DEF ResetWorld, InitCells, Zeros, NewWorldRefs
  <2>3. CASE ResetOutside
    BY <2>3 DEF ResetOutside, Abort, EndOfFrame
  <2>4. CASE ReplaceWeights
    BY <2>4 DEF ReplaceWeights
  <2>5. CASE KeepWorld \/ NoCellRequest \/ KeepPolls
    BY <2>5 DEF KeepWorld, NoCellRequest, KeepPolls
  <2>6. CASE CellRequest
    BY <2>6 DEF CellRequest, Abort, EndOfFrame
  <2>7. CASE ReplacePolls
    BY <2>7 DEF ReplacePolls
  <2>8. CASE UseFreed
    BY <2>8 DEF UseFreed, EndOfFrame
  <2>9. CASE BeginGeneration
    BY <2>9 DEF BeginGeneration, BeginSweep
  <2>10. CASE BeginInterpolation
    <3>1. at' \in 1..N+1 /\ loudest' \in Cells /\ add' \in Adds \cup {0}
      BY <2>10 DEF BeginInterpolation, BeginSweep
    <3>2. PerCell(state)' /\ PerCell(lastState)' /\ PerCell(velocity)' /\ PerCell(phase)'
      BY <2>10 DEF BeginInterpolation, BeginSweep
    <3>3. QED
      BY <2>10, <3>1, <3>2 DEF BeginInterpolation, BeginSweep
  <2>11. CASE VisitCell
    <3>1. at' \in 1..N+1 /\ loudest' \in Cells
      BY <2>11 DEF VisitCell, Loudest
    <3>2. pollIndex' \in Nat
      BY <2>11 DEF VisitCell, NextPollIndex
    <3>3. QED
      BY <2>11, <3>1, <3>2 DEF VisitCell, StepCell, Next1, UpdatePhase
  <2>12. CASE VisitRaises
    BY <2>12 DEF VisitRaises, Abort, EndOfFrame, StepCell, Next1, UpdatePhase
  <2>13. CASE FinishFrame
    BY <2>13 DEF FinishFrame, EndOfFrame, AfterFrame
  <2>14. CASE Quit
    BY <2>14 DEF Quit
  <2>15. CASE UNCHANGED vars
    BY <2>15 DEF vars
  <2>16. QED
    BY <2>1, <2>2, <2>3, <2>4, <2>5, <2>6, <2>7, <2>8, <2>9, <2>10, <2>11, <2>12,
       <2>13, <2>14, <2>15 DEF Next, Frame
<1>3. QED
  BY <1>1, <1>2, PTL DEF Spec

-----------------------------------------------------------------------------
(* ClockBounded is inductive: an interpolated frame has clock < ratio, a    *)
(* generation frame 0 < ratio, and only the end of a frame adds one.        *)
THEOREM ClockNeverMissesItsRatio ==
  ASSUME GoodRates
  PROVE  Spec => []ClockBounded
<1>1. Init => ClockBounded
  BY DEF Init, ClockBounded
<1>2. FrameTypeOK /\ ClockBounded /\ [Next]_vars => ClockBounded'
  <2> SUFFICES ASSUME FrameTypeOK, ClockBounded, [Next]_vars PROVE ClockBounded'
    OBVIOUS
  <2>1. clock \in Nat /\ ratio \in Nat
    BY GoodRates DEF FrameTypeOK, GoodRates
  <2> USE <2>1 DEF ClockBounded, viewVars
  <2>2. CASE BeginGeneration
    <3>1. ratio' \in Nat \ {0} /\ clock' = 0
      BY <2>2, GoodRates DEF BeginGeneration, GoodRates
    <3>2. QED
      BY <3>1
  <2>3. CASE BeginInterpolation
    BY <2>3 DEF BeginInterpolation
  <2>4. CASE FinishFrame
    BY <2>4 DEF FinishFrame, AfterFrame
  <2>5. CASE StartFrame \/ ReplaceWeights \/ KeepWorld \/ NoCellRequest
             \/ ReplacePolls \/ KeepPolls
    BY <2>5 DEF StartFrame, ReplaceWeights, KeepWorld, NoCellRequest, ReplacePolls,
                KeepPolls
  <2>6. CASE ResetWorld \/ ResetOutside \/ CellRequest \/ UseFreed \/ VisitRaises
    BY <2>6 DEF ResetWorld, ResetOutside, CellRequest, UseFreed, VisitRaises, Abort
  <2>7. CASE VisitCell
    BY <2>7 DEF VisitCell
  <2>8. CASE Quit \/ UNCHANGED vars
    BY <2>8 DEF Quit, vars
  <2>9. QED
    BY <2>2, <2>3, <2>4, <2>5, <2>6, <2>7, <2>8 DEF Next, Frame
<1>3. QED
  BY <1>1, <1>2, Typing, PTL DEF Spec

-----------------------------------------------------------------------------
(* With seeds inside the world a reset always completes: the world keeps    *)
(* the two references it was built with, and never frees its poll list.     *)
Habitats == {w.habitat : w \in Worlds \cup {FirstWorld}}

WorldInv ==
  /\ retained = 2 /\ pollsFreed = FALSE
  /\ habitat \in Habitats
  /\ drawing \in Drawings \cup {FALSE}

(* WorldInv is inductive: no reset of such a world is cut short. *)
LEMMA WorldKept ==
  ASSUME GoodWorlds
  PROVE  Spec => []WorldInv
<1>1. Init => WorldInv
  BY DEF Init, WorldInv, NewWorldRefs, Habitats
<1>2. FrameTypeOK /\ WorldInv /\ [Next]_vars => WorldInv'
  <2> SUFFICES ASSUME FrameTypeOK, WorldInv, [Next]_vars PROVE WorldInv'
    OBVIOUS
  <2> USE DEF WorldInv, pollVars, worldVars
  <2>1. CASE StartFrame
    BY <2>1 DEF StartFrame
  <2>2. CASE ResetWorld
    <3>1. habitat' \in Habitats
      BY <2>2 DEF ResetWorld, Habitats
    <3>2. retained # 1
      OBVIOUS
    <3>3. pollsFreed' = FALSE
      BY <2>2, <3>2, Zenon DEF ResetWorld
    <3>4. retained' = 2 /\ drawing' = drawing
      BY <2>2 DEF ResetWorld, NewWorldRefs
    <3>5. QED
      BY <3>1, <3>3, <3>4
  <2>3. CASE ResetOutside
    <3>1. \A w \in Worlds : DOMAIN w.seed \subseteq Cells
      BY GoodWorlds DEF GoodWorlds
    <3>2. QED
      BY <2>3, <3>1 DEF ResetOutside
  <2>4. CASE ReplaceWeights \/ KeepWorld \/ CellRequest \/ NoCellRequest
    BY <2>4 DEF ReplaceWeights, KeepWorld, CellRequest, NoCellRequest
  <2>5. CASE ReplacePolls \/ KeepPolls \/ UseFreed
    BY <2>5 DEF ReplacePolls, KeepPolls, UseFreed
  <2>6. CASE BeginGeneration \/ BeginInterpolation
    BY <2>6 DEF BeginGeneration, BeginInterpolation, BeginSweep
  <2>7. CASE VisitCell \/ VisitRaises \/ FinishFrame
    BY <2>7 DEF VisitCell, VisitRaises, FinishFrame
  <2>8. CASE Quit \/ UNCHANGED vars
    BY <2>8 DEF Quit, vars
  <2>9. QED
    BY <2>1, <2>2, <2>3, <2>4, <2>5, <2>6, <2>7, <2>8 DEF Next, Frame
<1>3. QED
  BY <1>1, <1>2, Typing, PTL DEF Spec

(* Neither the world nor the poll list is used after it was released.       *)
THEOREM ResetsFreeNothingInUse ==
  ASSUME GoodWorlds
  PROVE  Spec => []NothingFreed
<1>1. WorldInv => NothingFreed
  BY DEF WorldInv, NothingFreed
<1>2. QED
  BY <1>1, WorldKept, PTL

-----------------------------------------------------------------------------
(* Where the sweep stands in the poll list.  Before the cell at its index   *)
(* is reached, exactly the entries below pollIndex are passed; after the    *)
(* last entry the index is back at 0 and all of them are.                   *)
Passed(i) == pollIndices[i] < at

Frontier ==
  \/ \A i \in DOMAIN pollIndices : Passed(i) <=> i <= pollIndex
  \/ pollIndex = 0 /\ \A i \in DOMAIN pollIndices : Passed(i)

Collected ==
  /\ pollValues = [i \in DOMAIN pollIndices |-> pollValues[i]]
  /\ \A i \in DOMAIN pollIndices : Passed(i) => pollValues[i] = phase[pollIndices[i]]

PollInv ==
  /\ GoodList(pollIndices)
  /\ pc # "sweep" \/ messaging = FALSE => pollIndex = 0
  /\ pollIndex < Len(pollIndices)
  /\ pc = "sweep" /\ messaging = TRUE => Frontier /\ Collected

(* PollInv and WorldInv leave no step of a sweep that raises. *)
LEMMA NothingRaises ==
  ASSUME GoodWorlds, FrameTypeOK, WorldInv, PollInv
  PROVE  \A c \in Cells : ~ Raises(c)
<1> SUFFICES ASSUME NEW c \in Cells, drawing
             PROVE  ~ (Len(habitat[c]) < DrawReach[c])
  BY DEF PollInv, FrameTypeOK, Raises
<1>1. TRUE \in Drawings
  BY DEF WorldInv, FrameTypeOK
<1>2. PICK w \in Worlds \cup {FirstWorld} : habitat = w.habitat
  BY DEF WorldInv, Habitats
<1>3. Len(habitat[c]) >= DrawReach[c]
  BY <1>1, <1>2, GoodWorlds DEF GoodWorlds
<1>4. Len(habitat[c]) \in Nat /\ DrawReach[c] \in Nat
  BY DEF FrameTypeOK
<1>5. QED
  BY <1>3, <1>4

(* One cell of a sweep that carries a message keeps the frontier.           *)
LEMMA FrontierMoves ==
  ASSUME FrameTypeOK, PollInv, VisitCell, messaging = TRUE,
         pollIndices \in Seq(Int)
  PROVE  /\ Frontier' /\ Collected'
         /\ pollIndex' < Len(pollIndices)
<1> HIDE ViewAssumption
<1> DEFINE n == Len(pollIndices)
           k == pollIndex + 1
<1>1. /\ n \in Nat /\ n # 0 /\ DOMAIN pollIndices = 1..n
      /\ \A i \in 1..n : pollIndices[i] \in Int
      /\ \A i, j \in 1..n : i < j => pollIndices[i] < pollIndices[j]
  BY DEF PollInv, GoodList
<1>2. /\ at \in Nat /\ at' = at + 1 /\ pollIndices' = pollIndices
      /\ pollIndex \in Nat /\ pollIndex < n /\ k \in 1..n
  BY <1>1 DEF FrameTypeOK, VisitCell, PollInv
<1>3. Frontier /\ Collected
  BY DEF PollInv, VisitCell
<1>4. \A i \in 1..n : Passed(i) => phase'[pollIndices[i]] = phase[pollIndices[i]]
  <2>1. phase' = phase \/ \E v : phase' = [phase EXCEPT ![at] = v]
    BY DEF VisitCell, StepCell, Next1, UpdatePhase
  <2>2. \A i \in 1..n : Passed(i) => pollIndices[i] # at
    BY <1>1, <1>2 DEF Passed
  <2>3. DOMAIN phase = Cells /\ \A i \in 1..n : pollIndices[i] \in Cells
    BY <1>1 DEF FrameTypeOK, PerCell, PollInv, GoodList
  <2>4. QED
    BY <2>1, <2>2, <2>3
<1>5. CASE pollIndices[k] = at
  <2>1. /\ pollValues' = [pollValues EXCEPT ![k] = phase'[at]]
        /\ pollIndex' = IF pollIndex = n - 1 THEN 0 ELSE pollIndex + 1
    BY <1>5 DEF VisitCell, Sampled, NextPollIndex
  <2>2. \A i \in 1..n : Passed(i) <=> i <= pollIndex
    <3>1. ~ Passed(k)
      BY <1>1, <1>2, <1>5 DEF Passed
    <3>2. QED
      BY <1>1, <1>2, <1>3, <3>1 DEF Frontier
  <2>3. \A i \in 1..n : Passed(i)' <=> i <= k
    BY <1>1, <1>2, <1>5, <2>2 DEF Passed
  <2>4. Frontier' /\ pollIndex' < n
    <3>1. CASE pollIndex = n - 1
      BY <1>1, <1>2, <2>1, <2>3, <3>1 DEF Frontier
    <3>2. CASE pollIndex # n - 1
      <4>1. pollIndex' = k
        BY <2>1, <3>2
      <4>2. k < n
        <5>1. n \in Int /\ pollIndex \in Int /\ pollIndex < n
          BY <1>1, <1>2
        <5>2. QED
          BY <3>2, <5>1
      <4>3. QED
        BY <1>1, <1>2, <2>3, <4>1, <4>2 DEF Frontier
    <3>3. QED
      BY <3>1, <3>2
  <2>5. Collected'
    <3>1. pollValues' = [i \in 1..n |-> IF i = k THEN phase'[at] ELSE pollValues[i]]
      BY <1>1, <1>2, <1>3, <2>1 DEF Collected
    <3>2. \A i \in 1..n : Passed(i)' => pollValues'[i] = phase'[pollIndices[i]]
      <4> SUFFICES ASSUME NEW i \in 1..n, Passed(i)'
                   PROVE  pollValues'[i] = phase'[pollIndices[i]]
        OBVIOUS
      <4>1. CASE i = k
        BY <1>5, <3>1, <4>1
      <4>2. CASE i # k
        <5>1. Passed(i)
          BY <1>2, <2>2, <2>3, <4>2
        <5>2. QED
          BY <1>1, <1>3, <1>4, <3>1, <4>2, <5>1 DEF Collected
      <4>3. QED
        BY <4>1, <4>2
    <3>3. QED
      BY <1>1, <1>2, <3>1, <3>2 DEF Collected
  <2>6. QED
    BY <2>4, <2>5
<1>6. CASE pollIndices[k] # at
  <2>1. pollValues' = pollValues /\ pollIndex' = pollIndex
    BY <1>6 DEF VisitCell, Sampled
  <2>2. \A i \in 1..n : Passed(i)' <=> Passed(i)
    <3>1. CASE \A i \in 1..n : Passed(i)
      BY <1>1, <1>2, <3>1 DEF Passed
    <3>2. CASE \A i \in 1..n : Passed(i) <=> i <= pollIndex
      <4>1. \A i \in 1..n : i > pollIndex => pollIndices[i] >= pollIndices[k]
        BY <1>1, <1>2
      <4>2. pollIndices[k] > at
        BY <1>1, <1>2, <1>6, <3>2 DEF Passed
      <4>3. QED
        BY <1>1, <1>2, <3>2, <4>1, <4>2 DEF Passed
    <3>3. QED
      BY <1>1, <1>3, <3>1, <3>2 DEF Frontier
  <2>3. Frontier' /\ pollIndex' < n
    BY <1>1, <1>2, <1>3, <2>1, <2>2 DEF Frontier
  <2>4. Collected'
    BY <1>1, <1>2, <1>3, <1>4, <2>1, <2>2 DEF Collected
  <2>5. QED
    BY <2>3, <2>4
<1>7. QED
  BY <1>5, <1>6

-----------------------------------------------------------------------------
(* The poll list and the sweep stay in step, through every request.         *)
LEMMA PollsInStep ==
  ASSUME GoodWorlds, GoodPolls
  PROVE  Spec => []PollInv
<1>1. ASSUME Init PROVE PollInv
  <2>1. GoodList(DefaultPolls) /\ Len(DefaultPolls) > 0
    BY GoodPolls DEF GoodPolls, GoodList
  <2>2. QED
    BY <1>1, <2>1 DEF Init, PollInv
<1>2. FrameTypeOK /\ WorldInv /\ PollInv /\ [Next]_vars => PollInv'
  <2> SUFFICES ASSUME FrameTypeOK, WorldInv, PollInv, [Next]_vars PROVE PollInv'
    OBVIOUS
  <2>1. pollIndices \in Seq(Int) /\ Len(pollIndices) > 0
    BY DEF FrameTypeOK, PollInv, GoodList
  <2>2. \A c \in Cells : ~ Raises(c)
    BY GoodWorlds, NothingRaises
  <2> HIDE ViewAssumption
  <2>3. CASE BeginSweep
    <3>1. GoodList(pollIndices)' /\ pollIndices' = pollIndices /\ pollIndex' = 0
          /\ messaging' = messaging /\ at' = 1
      BY <2>3 DEF BeginSweep, PollInv, GoodList, pollVars
    <3>2. ASSUME messaging = TRUE PROVE Frontier' /\ Collected'
      <4>1. \A i \in DOMAIN pollIndices : ~ Passed(i)'
        BY <2>1, <3>1 DEF Passed, PollInv, GoodList
      <4>2. pollValues' = [i \in DOMAIN pollIndices |-> pollValues'[i]]
        BY <2>3, <3>2 DEF BeginSweep
      <4>3. \A i \in DOMAIN pollIndices : i > 0
        BY <2>1
      <4>4. QED
        BY <2>1, <3>1, <4>1, <4>2, <4>3 DEF Frontier, Collected
    <3>3. QED
      BY <2>1, <3>1, <3>2 DEF PollInv, BeginSweep
  <2>4. CASE VisitCell
    <3>1. CASE messaging = TRUE
      BY <2>1, <2>4, <3>1, FrontierMoves DEF PollInv, GoodList, VisitCell, viewVars
    <3>2. CASE messaging = FALSE
      BY <2>1, <2>4, <3>2 DEF PollInv, GoodList, VisitCell, Sampled, viewVars
    <3>3. QED
      BY <3>1, <3>2 DEF FrameTypeOK
  <2>5. CASE VisitRaises
    BY <2>2, <2>5 DEF VisitRaises
  <2>6. CASE FinishFrame
    <3>1. messaging = TRUE => pollIndex = 0
      <4>1. ASSUME messaging = TRUE PROVE \A i \in DOMAIN pollIndices : Passed(i)
        BY <2>1, <2>6, ViewAssumption DEF FinishFrame, PollInv, GoodList, Passed
      <4>2. ASSUME messaging = TRUE PROVE pollIndex = 0
        <5>1. Len(pollIndices) \in DOMAIN pollIndices
          BY <2>1
        <5>2. Frontier
          BY <2>6, <4>2 DEF FinishFrame, PollInv
        <5>3. pollIndex = 0 \/ Len(pollIndices) <= pollIndex
          BY <4>1, <4>2, <5>1, <5>2 DEF Frontier
        <5>4. QED
          BY <2>1, <5>3 DEF PollInv, FrameTypeOK
      <4>3. QED
        BY <4>2
    <3>2. QED
      BY <2>1, <2>6, <3>1 DEF FinishFrame, PollInv, GoodList, FrameTypeOK, AfterFrame, pollVars
  <2>7. CASE ReplacePolls
    <3>1. GoodList(pollIndices') /\ pollIndex' = 0 /\ pc' = "clock"
      BY <2>7, GoodPolls DEF ReplacePolls, GoodPolls, PollInv
    <3>2. Len(pollIndices') > 0
      BY <2>7, <3>1, ViewAssumption DEF ReplacePolls, GoodList
    <3>3. QED
      BY <3>1, <3>2 DEF PollInv
  <2>8. CASE ResetWorld \/ ResetOutside
    BY <2>1, <2>8 DEF ResetWorld, ResetOutside, Abort, PollInv, GoodList, pollVars
  <2>9. CASE StartFrame \/ ReplaceWeights \/ KeepWorld \/ CellRequest
             \/ NoCellRequest \/ KeepPolls \/ UseFreed
    BY <2>1, <2>9 DEF StartFrame, ReplaceWeights, KeepWorld, CellRequest, Abort,
                NoCellRequest, KeepPolls, UseFreed, PollInv, GoodList, pollVars
  <2>10. CASE Quit
    BY <2>10 DEF Quit, PollInv, Frontier, Collected, Passed, GoodList, pollVars, frameVars,
                 cellVars, viewVars
  <2>11. CASE UNCHANGED vars
    BY <2>11 DEF vars, PollInv, Frontier, Collected, Passed, GoodList, pollVars, frameVars,
                 cellVars, viewVars
  <2>12. QED
    BY <2>3, <2>4, <2>5, <2>6, <2>7, <2>8, <2>9, <2>10, <2>11
       DEF Next, Frame, BeginGeneration, BeginInterpolation
<1>3. QED
  BY <1>1, <1>2, Typing, WorldKept, PTL DEF Spec

(* A frame that starts its sweep finishes it.                               *)
THEOREM EverySweepCompletes ==
  ASSUME GoodWorlds, GoodPolls
  PROVE  Spec => []SweepCompletes
<1>1. FrameTypeOK /\ WorldInv /\ PollInv => SweepCompletes
  BY GoodWorlds, NothingRaises DEF SweepCompletes
<1>2. QED
  BY <1>1, Typing, WorldKept, PollsInStep, PTL

(* The states blob of a frame is that frame's phases, entry by entry.       *)
THEOREM ReportsAreTruthful ==
  ASSUME GoodWorlds, GoodPolls
  PROVE  Spec => []ReportTruthful
<1>1. ASSUME FrameTypeOK, PollInv PROVE ReportTruthful
  <2> SUFFICES ASSUME pc = "sweep", at = N + 1, messaging
               PROVE  pollValues = [i \in DOMAIN pollIndices |-> phase[pollIndices[i]]]
    BY DEF ReportTruthful
  <2>1. Collected
    BY <1>1 DEF PollInv, FrameTypeOK
  <2>2. \A i \in DOMAIN pollIndices : Passed(i)
    BY <1>1 DEF PollInv, GoodList, Passed
  <2>3. QED
    BY <2>1, <2>2 DEF Collected
<1>2. QED
  BY <1>1, Typing, PollsInStep, PTL

-----------------------------------------------------------------------------
(* The values in the cells, and the cell that is loudest.                   *)
\* the floats that FrameTypeOK leaves open
ValueInv ==
  /\ habitat \in Habitats
  /\ lastState \in [Cells -> 0..One] /\ state \in [Cells -> 0..One]
  /\ velocity \in [Cells -> Int] /\ phase \in [Cells -> 0..One - 1]
  /\ pollValues \in Seq(Float \cup {Garbage})

(* A sequence with one element replaced. *)
LEMMA StaysSeq ==
  ASSUME NEW A, NEW s \in Seq(A), NEW k, NEW v \in A
  PROVE  [s EXCEPT ![k] = v] \in Seq(A)
<1> DEFINE t == [s EXCEPT ![k] = v]
<1>1. Len(s) \in Nat /\ DOMAIN s = 1..Len(s)
  OBVIOUS
<1>2. t = [i \in 1..Len(s) |-> IF i = k THEN v ELSE s[i]]
  BY <1>1
<1> HIDE DEF t
<1>3. t \in Seq(A)
  BY <1>1, <1>2
<1>4. QED
  BY <1>3 DEF t

(* One cell steps: Next1 or UpdatePhase. *)
LEMMA ValuesStep ==
  ASSUME GoodRule, GoodRates, FrameTypeOK, ValueInv, NEW c \in Cells, StepCell(c)
  PROVE  /\ state' \in [Cells -> 0..One] /\ velocity' \in [Cells -> Int]
         /\ phase' \in [Cells -> 0..One - 1]
<1>1. One \in Nat \ {0} /\ NaN \notin Int
  BY OneAssumption, NaNAssumption
<1>2. ratio \in Nat \ {0}
  BY DEF FrameTypeOK, GoodRates
<1>3. CASE renew /\ Next1(c)
  <2> DEFINE s == NextState(habitat[c], lastState, weights, add)
  <2>1. s \in 0..One
    <3>1. PICK w \in Worlds \cup {FirstWorld} : habitat = w.habitat
      BY DEF ValueInv, Habitats
    <3>2. habitat[c] \in Seq(Cells) /\ habitat[c] # << >>
      BY <3>1 DEF GoodRule, FrameTypeOK
    <3>3. Weighing(weights) /\ add \in 0..One
      <4>1. weights \in Weights \cup {FirstWeights} /\ add \in Adds \cup {0}
        BY DEF FrameTypeOK
      <4>2. /\ \A wl \in Weights \cup {FirstWeights} : Weighing(wl)
            /\ Adds \subseteq 0..One
        BY DEF GoodRule
      <4>3. QED
        BY <1>1, <4>1, <4>2
    <3> HIDE ViewAssumption DEF Cells
    <3>4. habitat[c] \in Seq(Cells) /\ lastState \in [Cells -> 0..One]
      BY <3>2 DEF Cells, ValueInv
    <3>5. QED
      BY <3>2, <3>3, <3>4, RuleStaysInUnit
  <2>2. /\ state' = [state EXCEPT ![c] = s] /\ phase' = phase
        /\ velocity' = [velocity EXCEPT ![c] = Velocity(state'[c], lastState[c], ratio)]
    BY <1>3 DEF Next1
  <2> HIDE DEF s
  <2>3. state' \in [Cells -> 0..One]
    BY <2>1, <2>2 DEF ValueInv
  <2>4. Velocity(state'[c], lastState[c], ratio) \in Int
    <3>1. state'[c] \in Int /\ lastState[c] \in Int
      BY <1>1, <2>3 DEF ValueInv
    <3>2. state'[c] - lastState[c] \in Int /\ NaN \notin {state'[c], lastState[c]}
      BY <1>1, <3>1
    <3>3. \A x \in Int : Quotient(x, ratio) \in Int
      BY <1>2 DEF Quotient
    <3>4. QED
      BY <1>2, <3>2, <3>3 DEF Velocity
  <2>5. QED
    BY <2>2, <2>3, <2>4 DEF ValueInv
<1>4. CASE ~ renew /\ UpdatePhase(c)
  <2>1. /\ phase' = [phase EXCEPT ![c] = NextPhase(phase[c], velocity[c])]
        /\ UNCHANGED <<state, velocity>>
    BY <1>4 DEF UpdatePhase
  <2>2. phase[c] \in Int /\ velocity[c] \in Int
    BY <1>1 DEF ValueInv
  <2>3. NextPhase(phase[c], velocity[c]) = (phase[c] + velocity[c]) % One
    BY <1>1, <2>2 DEF NextPhase
  <2>4. NextPhase(phase[c], velocity[c]) \in 0..One - 1
    BY <1>1, <2>2, <2>3
  <2>5. QED
    BY <2>1, <2>4 DEF ValueInv
<1>5. QED
  BY <1>3, <1>4 DEF StepCell

(* ValueInv is inductive with the types of the frame. *)
LEMMA ValuesHold ==
  ASSUME GoodRule, GoodRates
  PROVE  Spec => []ValueInv
<1>1. One \in Nat \ {0} /\ NaN \notin Int
  BY OneAssumption, NaNAssumption
<1>2. \A w \in Worlds \cup {FirstWorld} : InitCells(w.seed) \in [Cells -> 0..One]
  BY <1>1 DEF GoodRule, InitCells
<1>3. Init => ValueInv
  <2> SUFFICES ASSUME Init PROVE ValueInv
    OBVIOUS
  <2>1. Zeros \in [Cells -> 0..One] /\ Zeros \in [Cells -> Int] /\ Zeros \in [Cells -> 0..One - 1]
    BY <1>1 DEF Zeros
  <2>2. state \in [Cells -> 0..One]
    BY <1>2 DEF Init
  <2>3. habitat \in Habitats
    BY DEF Init, Habitats
  <2>4. pollValues \in Seq(Float \cup {Garbage})
    BY DEF Init, NoFrame
  <2>5. QED
    BY <2>1, <2>2, <2>3, <2>4 DEF Init, ValueInv
<1>4. FrameTypeOK /\ ValueInv /\ [Next]_vars => ValueInv'
  <2> SUFFICES ASSUME FrameTypeOK, ValueInv, [Next]_vars PROVE ValueInv'
    OBVIOUS
  <2>1. CASE ResetWorld
    <3>1. Zeros \in [Cells -> 0..One] /\ Zeros \in [Cells -> Int] /\ Zeros \in [Cells -> 0..One - 1]
      BY <1>1 DEF Zeros
    <3>2. PICK w \in Worlds : habitat' = w.habitat /\ state' = InitCells(w.seed)
      BY <2>1 DEF ResetWorld
    <3>3. habitat' \in Habitats /\ state' \in [Cells -> 0..One]
      BY <1>2, <3>2 DEF Habitats
    <3>4. lastState' = Zeros /\ velocity' = Zeros /\ phase' = Zeros /\ pollValues' = pollValues
      BY <2>1 DEF ResetWorld, frameVars
    <3>5. QED
      BY <3>1, <3>3, <3>4 DEF ValueInv
  <2>2. CASE VisitCell \/ VisitRaises
    <3>1. StepCell(at) /\ at \in Cells /\ UNCHANGED <<habitat, lastState>>
      BY <2>2 DEF VisitCell, VisitRaises, worldVars
    <3>2. /\ state' \in [Cells -> 0..One] /\ velocity' \in [Cells -> Int]
          /\ phase' \in [Cells -> 0..One - 1]
      BY <3>1, ValuesStep
    <3>3. pollValues' \in Seq(Float \cup {Garbage})
      <4>1. phase'[at] \in Float \cup {Garbage}
        BY <1>1, <3>1, <3>2 DEF Float
      <4>2. CASE VisitRaises
        BY <4>2 DEF VisitRaises, Abort, EndOfFrame
      <4>3. CASE VisitCell
        <5>1. \/ pollValues' = pollValues
              \/ pollValues' = [pollValues EXCEPT ![pollIndex + 1] = phase'[at]]
          BY <4>3 DEF VisitCell
        <5>2. pollValues \in Seq(Float \cup {Garbage})
          BY DEF ValueInv
        <5> DEFINE A == Float \cup {Garbage}
                   k == pollIndex + 1
                   v == phase'[at]
        <5>3. pollValues \in Seq(A) /\ v \in A
          BY <4>1, <5>2
        <5>4. pollValues' = pollValues \/ pollValues' = [pollValues EXCEPT ![k] = v]
          BY <5>1
        <5> HIDE DEF A, k, v
        <5>5. [pollValues EXCEPT ![k] = v] \in Seq(A)
          BY <5>3, StaysSeq
        <5>6. pollValues' \in Seq(A)
          BY <5>3, <5>4, <5>5
        <5>7. QED
          BY <5>6 DEF A
      <4>4. QED
        BY <2>2, <4>2, <4>3
    <3>4. QED
      BY <3>1, <3>2, <3>3 DEF ValueInv
  <2>3. CASE BeginGeneration \/ BeginInterpolation
    <3>1. BeginSweep /\ lastState' \in {state, lastState}
      BY <2>3 DEF BeginGeneration, BeginInterpolation
    <3>2. pollValues' \in Seq(Float \cup {Garbage})
      <4>1. Len(pollIndices) \in Nat /\ DOMAIN pollIndices = 1..Len(pollIndices)
        BY DEF FrameTypeOK
      <4>2. pollValues' = << >> \/ pollValues' = [i \in DOMAIN pollIndices |-> Garbage]
        BY <3>1 DEF BeginSweep
      <4> DEFINE A == Float \cup {Garbage}
                 g == [i \in 1..Len(pollIndices) |-> Garbage]
      <4>3. g \in Seq(A) /\ << >> \in Seq(A)
        <5>1. Garbage \in A
          OBVIOUS
        <5> HIDE DEF A
        <5>2. QED
          BY <4>1, <5>1
      <4>4. pollValues' \in {<< >>, g}
        BY <4>1, <4>2
      <4> HIDE DEF g, A
      <4>5. pollValues' \in Seq(A)
        BY <4>3, <4>4
      <4>6. QED
        BY <4>5 DEF A
    <3>3. UNCHANGED <<habitat, state, velocity, phase>>
      BY <3>1 DEF BeginSweep, worldVars
    <3>4. QED
      BY <3>1, <3>2, <3>3 DEF ValueInv
  <2>4. ASSUME UNCHANGED <<habitat, cellVars>>, pollValues' = pollValues \/ EndOfFrame
        PROVE  ValueInv'
    <3> DEFINE A == Float \cup {Garbage}
    <3>1. pollValues \in Seq(A)
      BY DEF ValueInv
    <3>2. pollValues' = pollValues \/ pollValues' = << >>
      BY <2>4 DEF EndOfFrame
    <3>3. pollValues' \in Seq(A)
      <4> HIDE DEF A
      <4>1. << >> \in Seq(A)
        OBVIOUS
      <4>2. QED
        BY <3>1, <3>2, <4>1
    <3>4. QED
      BY <2>4, <3>3 DEF ValueInv, cellVars
  <2>5. CASE StartFrame \/ ResetOutside \/ ReplaceWeights \/ KeepWorld \/ CellRequest
    BY <2>4, <2>5 DEF StartFrame, ResetOutside, ReplaceWeights, KeepWorld, CellRequest, Abort,
                      worldVars, frameVars
  <2>6. CASE NoCellRequest \/ ReplacePolls \/ KeepPolls \/ UseFreed \/ FinishFrame
    BY <2>4, <2>6 DEF NoCellRequest, ReplacePolls, KeepPolls, UseFreed, FinishFrame,
                      worldVars, frameVars
  <2>7. CASE Quit \/ UNCHANGED vars
    BY <2>4, <2>7 DEF Quit, vars, worldVars, frameVars
  <2>8. QED
    BY <2>1, <2>2, <2>3, <2>5, <2>6, <2>7 DEF Next, Frame
<1>5. QED
  BY <1>3, <1>4, Typing, PTL DEF Spec

(* Every float of every cell is a number in every frame, and states and     *)
(* phases stay in the unit interval, for all weights, neighbourhoods and    *)
(* seeds that give a mean at all.                                           *)
THEOREM ValuesStayInUnit ==
  ASSUME GoodRule, GoodRates
  PROVE  Spec => []TypeOK
<1>1. FrameTypeOK /\ ValueInv => TypeOK
  BY OneAssumption DEF ValueInv, TypeOK, Float
<1>2. QED
  BY <1>1, Typing, ValuesHold, PTL

\* loudest is the first of the highest phases among the cells before at
LoudInv ==
  pc = "sweep" =>
    /\ loudest < at \/ (at = 1 /\ loudest = 1)
    /\ \A c \in Cells : c < at => phase[c] <= phase[loudest]
    /\ \A c \in Cells : c < loudest => phase[c] < phase[loudest]

(* One cell more, whose phase may have changed in this very step. *)
LEMMA LoudestStep ==
  ASSUME FrameTypeOK, ValueInv, ValueInv', LoudInv, VisitCell
  PROVE  LoudInv'
<1>1. One \in Nat \ {0} /\ NaN \notin Int
  BY OneAssumption, NaNAssumption
<1>2. /\ pc = "sweep" /\ at \in 1..N /\ at' = at + 1 /\ loudest' = Loudest(at)
      /\ loudest \in 1..N
  BY DEF VisitCell, FrameTypeOK
<1>3. \A c \in 1..N : phase[c] \in Int /\ phase'[c] \in Int
  <2>1. phase \in [1..N -> 0..One - 1] /\ phase' \in [1..N -> 0..One - 1]
    BY DEF ValueInv
  <2>2. QED
    BY <1>1, <2>1
<1>4. \A c \in 1..N : c # at => phase'[c] = phase[c]
  <2>1. phase' = phase \/ phase' = [phase EXCEPT ![at] = NextPhase(phase[at], velocity[at])]
    BY DEF VisitCell, StepCell, Next1, UpdatePhase
  <2>2. DOMAIN phase = 1..N
    BY DEF ValueInv
  <2>3. QED
    BY <2>1, <2>2
<1>5. Loudest(at) = IF phase'[loudest] < phase'[at] THEN at ELSE loudest
  <2>1. phase'[loudest] # NaN /\ phase'[at] # NaN
    BY <1>1, <1>2, <1>3
  <2>2. QED
    BY <2>1 DEF Loudest, Below
<1>6. /\ loudest < at \/ (at = 1 /\ loudest = 1)
      /\ \A c \in 1..N : c < at => phase[c] <= phase[loudest]
      /\ \A c \in 1..N : c < loudest => phase[c] < phase[loudest]
  BY <1>2 DEF LoudInv
<1> DEFINE old == phase
           new == phase'
<1>7. \A c \in 1..N : old[c] \in Int /\ new[c] \in Int /\ (c # at => new[c] = old[c])
  BY <1>3, <1>4
<1>8. /\ loudest' < at'
      /\ \A c \in 1..N : c < at' => new[c] <= new[loudest']
      /\ \A c \in 1..N : c < loudest' => new[c] < new[loudest']
  <2> DEFINE l == loudest
             k == loudest'
  <2>1. /\ l < at \/ (at = 1 /\ l = 1)
        /\ \A c \in 1..N : c < at => old[c] <= old[l]
        /\ \A c \in 1..N : c < l => old[c] < old[l]
        /\ k = IF new[l] < new[at] THEN at ELSE l
        /\ l \in 1..N /\ at \in 1..N /\ at' = at + 1
    BY <1>2, <1>5, <1>6
  <2> HIDE DEF l, k, old, new
  <2>2. CASE l < at /\ new[l] < new[at]
    <3>1. k = at /\ new[l] = old[l] /\ \A c \in 1..N : c < at => new[c] = old[c]
      BY <1>7, <2>1, <2>2
    <3>2. \A c \in 1..N : c < at => new[c] < new[at]
      BY <1>7, <2>1, <2>2, <3>1
    <3>3. QED
      BY <1>7, <2>1, <3>1, <3>2 DEF k
  <2>3. CASE l < at /\ ~ (new[l] < new[at])
    BY <1>7, <2>1, <2>3 DEF k
  <2>4. CASE at = 1 /\ l = 1
    BY <1>7, <2>1, <2>4 DEF k
  <2>5. QED
    BY <2>1, <2>2, <2>3, <2>4
<1>9. QED
  BY <1>8 DEF LoudInv

(* LoudInv holds from the first cell of a sweep to its last. *)
LEMMA LoudestKept ==
  ASSUME GoodRule, GoodRates
  PROVE  Spec => []LoudInv
<1>1. Init => LoudInv
  BY DEF Init, LoudInv
<1>2. FrameTypeOK /\ ValueInv /\ ValueInv' /\ LoudInv /\ [Next]_vars => LoudInv'
  <2> SUFFICES ASSUME FrameTypeOK, ValueInv, ValueInv', LoudInv, [Next]_vars PROVE LoudInv'
    OBVIOUS
  <2>1. CASE VisitCell
    BY <2>1, LoudestStep
  <2>2. CASE BeginGeneration \/ BeginInterpolation
    <3>1. at' = 1 /\ loudest' = 1
      BY <2>2 DEF BeginGeneration, BeginInterpolation, BeginSweep
    <3>2. QED
      BY <3>1 DEF LoudInv
  <2>3. CASE VisitRaises \/ FinishFrame
    BY <2>3 DEF VisitRaises, FinishFrame, Abort, AfterFrame, LoudInv
  <2>4. CASE StartFrame \/ ResetWorld \/ ResetOutside \/ ReplaceWeights \/ KeepWorld
    BY <2>4 DEF StartFrame, ResetWorld, ResetOutside, ReplaceWeights, KeepWorld, Abort, LoudInv
  <2>5. CASE CellRequest \/ NoCellRequest \/ ReplacePolls \/ KeepPolls \/ UseFreed
    BY <2>5 DEF CellRequest, NoCellRequest, ReplacePolls, KeepPolls, UseFreed, Abort, LoudInv
  <2>6. CASE Quit \/ UNCHANGED vars
    BY <2>6 DEF Quit, vars, LoudInv, cellVars, frameVars
  <2>7. QED
    BY <2>1, <2>2, <2>3, <2>4, <2>5, <2>6 DEF Next, Frame
<1>3. QED
  BY <1>1, <1>2, Typing, ValuesHold, PTL DEF Spec

(* The cell that /fx/trigger names is the first of those of highest phase.  *)
THEOREM TriggersAreLoudest ==
  ASSUME GoodRule, GoodRates
  PROVE  Spec => []TriggerIsLoudest
<1>1. FrameTypeOK /\ ValueInv /\ LoudInv => TriggerIsLoudest
  <2> SUFFICES ASSUME FrameTypeOK, ValueInv, LoudInv, pc = "sweep", at = N + 1
               PROVE  /\ \A c \in Cells : ~ Below(phase[loudest], phase[c])
                      /\ \A c \in 1..loudest - 1 : Below(phase[c], phase[loudest])
    BY DEF TriggerIsLoudest
  <2>1. One \in Nat \ {0} /\ NaN \notin Int /\ loudest \in 1..N
    BY OneAssumption, NaNAssumption DEF FrameTypeOK
  <2>2. \A c \in 1..N : phase[c] \in Int /\ phase[c] # NaN
    BY <2>1 DEF ValueInv
  <2>3. /\ \A c \in 1..N : phase[c] <= phase[loudest]
        /\ \A c \in 1..N : c < loudest => phase[c] < phase[loudest]
    BY <2>1 DEF LoudInv
  <2>4. \A c \in 1..loudest - 1 : c \in 1..N /\ c < loudest
    BY <2>1
  <2>5. QED
    BY <2>1, <2>2, <2>3, <2>4 DEF Below
<1>2. QED
  BY <1>1, Typing, ValuesHold, LoudestKept, PTL

-----------------------------------------------------------------------------
(* Poll lists that a program could send by mistake.                         *)
\* what was sampled is of a cell before at, and of the entry that names it
SampledOf(i) ==
  /\ i \in DOMAIN pollIndices
  /\ pollValues[i] # Garbage =>
       /\ pollIndices[i] \in Cells /\ pollIndices[i] < at
       /\ pollValues[i] = phase[pollIndices[i]]

SampleInv ==
  /\ pc # "sweep" => pollValues = << >>
  /\ \A i \in DOMAIN pollValues : SampledOf(i)

(* A sample is of the cell being visited, and no later step moves it. *)
LEMMA SampleStep ==
  ASSUME FrameTypeOK, SampleInv, VisitCell
  PROVE  SampleInv'
<1> DEFINE old == phase
           new == phase'
<1>1. pc' = "sweep" /\ at \in 1..N /\ at' = at + 1 /\ pollIndices' = pollIndices
  BY DEF VisitCell
<1>2. \A c \in 1..N : c # at => new[c] = old[c]
  <2>1. new = old \/ new = [old EXCEPT ![at] = NextPhase(phase[at], velocity[at])]
    BY DEF VisitCell, StepCell, Next1, UpdatePhase
  <2>2. DOMAIN phase = 1..N
    BY DEF FrameTypeOK, PerCell
  <2>3. QED
    BY <2>1, <2>2
<1>3. \/ pollValues' = pollValues
      \/ /\ pollValues' = [pollValues EXCEPT ![pollIndex + 1] = new[at]]
         /\ pollIndices[pollIndex + 1] = at
  BY DEF VisitCell, Sampled
<1> HIDE DEF old, new
<1>4. ASSUME NEW i \in DOMAIN pollValues' PROVE SampledOf(i)'
  <2>1. i \in DOMAIN pollValues
    BY <1>3
  <2>2. SampledOf(i)
    BY <2>1 DEF SampleInv
  <2>3. CASE pollValues'[i] = pollValues[i]
    <3>1. SUFFICES ASSUME pollValues'[i] # Garbage
                   PROVE  /\ pollIndices[i] \in 1..N /\ pollIndices[i] < at'
                          /\ pollValues'[i] = new[pollIndices[i]]
      BY <1>1, <2>2 DEF SampledOf, new
    <3>2. /\ pollIndices[i] \in 1..N /\ pollIndices[i] < at
          /\ pollValues'[i] = old[pollIndices[i]]
      BY <2>2, <2>3, <3>1 DEF SampledOf, old
    <3>3. QED
      BY <1>1, <1>2, <3>2
  <2>4. CASE pollValues'[i] # pollValues[i]
    <3>1. i = pollIndex + 1 /\ pollValues'[i] = new[at] /\ pollIndices[i] = at
      BY <1>3, <2>1, <2>4
    <3>2. QED
      BY <1>1, <2>2, <3>1 DEF SampledOf, new
  <2>5. QED
    BY <2>3, <2>4
<1>5. QED
  BY <1>1, <1>4 DEF SampleInv

(* SampleInv is inductive, whatever lists are installed. *)
LEMMA SamplesKept == Spec => []SampleInv
<1>1. Init => SampleInv
  BY DEF Init, NoFrame, SampleInv
<1>2. FrameTypeOK /\ SampleInv /\ [Next]_vars => SampleInv'
  <2> SUFFICES ASSUME FrameTypeOK, SampleInv, [Next]_vars PROVE SampleInv'
    OBVIOUS
  <2>1. CASE VisitCell
    BY <2>1, SampleStep
  <2>2. CASE BeginGeneration \/ BeginInterpolation
    <3>1. /\ pc' = "sweep" /\ pollIndices' = pollIndices
          /\ pollValues' = << >> \/ pollValues' = [i \in DOMAIN pollIndices |-> Garbage]
      BY <2>2 DEF BeginGeneration, BeginInterpolation, BeginSweep, pollVars
    <3>2. \A i \in DOMAIN pollValues' : i \in DOMAIN pollIndices' /\ pollValues'[i] = Garbage
      BY <3>1
    <3>3. QED
      BY <3>1, <3>2 DEF SampleInv, SampledOf
  <2>3. ASSUME EndOfFrame, pc' # "sweep" PROVE SampleInv'
    BY <2>3 DEF EndOfFrame, SampleInv
  <2>4. ASSUME pc # "sweep", pc' # "sweep", UNCHANGED frameVars PROVE SampleInv'
    BY <2>4 DEF SampleInv, frameVars
  <2>5. CASE VisitRaises \/ FinishFrame \/ ResetOutside \/ CellRequest \/ UseFreed
    BY <2>3, <2>5 DEF VisitRaises, FinishFrame, Abort, AfterFrame, ResetOutside, CellRequest,
                      UseFreed
  <2>6. CASE StartFrame \/ ResetWorld \/ ReplaceWeights \/ KeepWorld
    BY <2>4, <2>6 DEF StartFrame, ResetWorld, ReplaceWeights, KeepWorld
  <2>7. CASE NoCellRequest \/ ReplacePolls \/ KeepPolls
    BY <2>4, <2>7 DEF NoCellRequest, ReplacePolls, KeepPolls
  <2>8. CASE Quit \/ UNCHANGED vars
    BY <2>8 DEF Quit, vars, SampleInv, SampledOf, cellVars, pollVars, frameVars
  <2>9. QED
    BY <2>1, <2>2, <2>5, <2>6, <2>7, <2>8 DEF Next, Frame
<1>3. QED
  BY <1>1, <1>2, Typing, PTL DEF Spec

(* Whatever poll lists arrive, no entry of the states blob is a phase of    *)
(* another cell than the one its entry names.                               *)
THEOREM PollsAreNotMisattributed == Spec => []NoMisattribution
<1>1. SampleInv => NoMisattribution
  BY DEF SampleInv, SampledOf, NoMisattribution
<1>2. QED
  BY <1>1, SamplesKept, PTL

\* an index left over is passed in the first message frame of a list in sweep order
HealInv ==
  pc = "sweep" /\ messaging = TRUE /\ GoodList(pollIndices) =>
    \/ pollIndex = 0 \/ at = 1
    \/ pollIndex < Len(pollIndices) /\ pollIndices[pollIndex + 1] >= at

(* The entry at the index is passed only when its cell is visited. *)
LEMMA HealStep ==
  ASSUME FrameTypeOK, HealInv, VisitCell
  PROVE  HealInv'
<1>1. /\ pc = "sweep" /\ at \in 1..N /\ at' = at + 1 /\ ~ Raises(at)
      /\ UNCHANGED <<pollIndices, messaging>>
  BY DEF VisitCell, viewVars
<1>2. SUFFICES ASSUME messaging = TRUE, GoodList(pollIndices)
               PROVE  \/ pollIndex' = 0
                      \/ pollIndex' < Len(pollIndices) /\ pollIndices[pollIndex' + 1] >= at + 1
  <2>1. GoodList(pollIndices)' => GoodList(pollIndices)
    BY <1>1 DEF GoodList
  <2>2. QED
    BY <1>1, <2>1 DEF HealInv
<1> DEFINE k == pollIndex + 1
           n == Len(pollIndices)
<1>3. /\ n \in Nat /\ DOMAIN pollIndices = 1..n /\ pollIndex \in Nat /\ pollIndex < n
      /\ \A i \in 1..n : pollIndices[i] \in 1..N
      /\ \A i, j \in 1..n : i < j => pollIndices[i] < pollIndices[j]
  <2>1. pollIndices \in Seq(Int) /\ pollIndex \in Nat
    BY DEF FrameTypeOK
  <2>2. n \in Nat /\ DOMAIN pollIndices = 1..n
    BY <2>1
  <2>3. ~ (pollIndex >= n)
    BY <1>1 DEF Raises
  <2>4. pollIndex < n
    BY <2>1, <2>2, <2>3
  <2>5. QED
    BY <1>2, <2>1, <2>2, <2>4 DEF GoodList
<1>4. CASE pollIndices[k] = at
  <2>1. pollIndex' = IF pollIndex = n - 1 THEN 0 ELSE k
    BY <1>2, <1>4 DEF VisitCell, Sampled, NextPollIndex
  <2>2. CASE pollIndex = n - 1
    BY <2>1, <2>2
  <2>3. CASE pollIndex # n - 1
    <3>1. k \in 1..n /\ k + 1 \in 1..n /\ pollIndex' = k /\ k < n
      <4>1. pollIndex' = k
        BY <2>1, <2>3
      <4>2. n \in Nat /\ pollIndex \in Nat /\ pollIndex < n
        BY <1>3
      <4> HIDE DEF n
      <4>3. QED
        BY <2>3, <4>1, <4>2
    <3> HIDE DEF k, n
    <3>2. pollIndices[k] < pollIndices[k + 1] /\ pollIndices[k + 1] \in 1..N
      <4>1. k < k + 1
        BY <1>3, <3>1
      <4>2. QED
        BY <1>3, <3>1, <4>1
    <3>3. pollIndices[k + 1] >= at + 1
      BY <1>1, <1>4, <3>2
    <3>4. QED
      BY <3>1, <3>3 DEF n
  <2>4. QED
    BY <2>2, <2>3
<1>5. CASE pollIndices[k] # at
  <2>1. pollIndex' = pollIndex
    BY <1>5 DEF VisitCell, Sampled
  <2>2. CASE pollIndex = 0
    BY <2>1, <2>2
  <2>3. CASE pollIndex # 0
    <3>1. k \in 1..n /\ pollIndices[k] \in 1..N
      BY <1>3
    <3>2. at = 1 \/ pollIndices[k] >= at
      BY <1>1, <1>2, <2>3 DEF HealInv
    <3>3. pollIndices[k] >= at + 1
      BY <1>1, <1>5, <3>1, <3>2
    <3>4. QED
      BY <1>3, <2>1, <3>3
  <2>4. QED
    BY <2>2, <2>3
<1>6. QED
  BY <1>4, <1>5

(* HealInv is inductive, whatever lists are installed. *)
LEMMA HealKept == Spec => []HealInv
<1>1. Init => HealInv
  BY DEF Init, HealInv
<1>2. FrameTypeOK /\ HealInv /\ [Next]_vars => HealInv'
  <2> SUFFICES ASSUME FrameTypeOK, HealInv, [Next]_vars PROVE HealInv'
    OBVIOUS
  <2>1. CASE VisitCell
    BY <2>1, HealStep
  <2>2. CASE BeginGeneration \/ BeginInterpolation
    BY <2>2 DEF BeginGeneration, BeginInterpolation, BeginSweep, HealInv
  <2>3. CASE VisitRaises \/ FinishFrame
    BY <2>3 DEF VisitRaises, FinishFrame, Abort, AfterFrame, HealInv
  <2>4. CASE StartFrame \/ ResetWorld \/ ResetOutside \/ ReplaceWeights \/ KeepWorld
    BY <2>4 DEF StartFrame, ResetWorld, ResetOutside, ReplaceWeights, KeepWorld, Abort, HealInv
  <2>5. CASE CellRequest \/ NoCellRequest \/ ReplacePolls \/ KeepPolls \/ UseFreed
    BY <2>5 DEF CellRequest, NoCellRequest, ReplacePolls, KeepPolls, UseFreed, Abort, HealInv
  <2>6. CASE Quit \/ UNCHANGED vars
    <3>1. UNCHANGED <<pc, messaging, pollIndices, pollIndex, at>>
      BY <2>6 DEF Quit, vars, pollVars, viewVars, frameVars
    <3>2. GoodList(pollIndices)' => GoodList(pollIndices)
      BY <3>1 DEF GoodList
    <3>3. QED
      BY <3>1, <3>2 DEF HealInv
  <2>7. QED
    BY <2>1, <2>2, <2>3, <2>4, <2>5, <2>6 DEF Next, Frame
<1>3. QED
  BY <1>1, <1>2, Typing, PTL DEF Spec

(* A list in sweep order is back in step after one frame with a message,    *)
(* under whatever index it was installed.                                   *)
THEOREM PollIndexHeals == Spec => []PollsHeal
<1>1. FrameTypeOK /\ HealInv => PollsHeal
  <2> SUFFICES ASSUME FrameTypeOK, HealInv, pc = "sweep", at = N + 1, messaging,
                      GoodList(pollIndices)
               PROVE  pollIndex = 0
    BY DEF PollsHeal
  <2>1. SUFFICES ASSUME pollIndex < Len(pollIndices), pollIndices[pollIndex + 1] >= N + 1
                 PROVE  FALSE
    BY DEF HealInv, FrameTypeOK
  <2>2. pollIndices \in Seq(Int) /\ pollIndex \in Nat
    BY DEF FrameTypeOK
  <2>3. pollIndex + 1 \in DOMAIN pollIndices
    BY <2>1, <2>2
  <2>4. pollIndices[pollIndex + 1] \in 1..N
    BY <2>3 DEF GoodList
  <2>5. QED
    BY <2>1, <2>4
<1>2. QED
  BY <1>1, Typing, HealKept, PTL

-----------------------------------------------------------------------------
(* A sweep that renews has stepped the cells before at, all of them from    *)
(* the old generation, and none of the others.                              *)
Stepped(c) == NextState(habitat[c], lastState, weights, add)

GenInv ==
  pc = "sweep" /\ renew = TRUE =>
    /\ add \in Adds
    /\ \A c \in Cells : c < at => state[c] = Stepped(c)
    /\ \A c \in Cells : c >= at => state[c] = lastState[c]

(* GenInv is inductive, whatever is requested. *)
LEMMA GenerationHalfDone ==
  Spec => []GenInv
<1>1. Init => GenInv
  BY DEF Init, GenInv
<1>2. FrameTypeOK /\ GenInv /\ [Next]_vars => GenInv'
  <2> SUFFICES ASSUME FrameTypeOK, GenInv, [Next]_vars PROVE GenInv'
    OBVIOUS
  <2>1. CASE BeginGeneration
    <3>1. /\ at' = 1 /\ add' \in Adds /\ state' = state /\ lastState' = state
      BY <2>1 DEF BeginGeneration, BeginSweep
    <3>2. \A c \in Cells : ~ (c < at')
      BY <3>1
    <3>3. QED
      BY <3>1, <3>2 DEF GenInv
  <2>2. CASE BeginInterpolation
    BY <2>2 DEF BeginInterpolation, GenInv
  <2>3. CASE VisitCell
    <3> SUFFICES ASSUME renew = TRUE
                 PROVE  GenInv'
      BY <2>3 DEF VisitCell, GenInv, viewVars
    <3>1. /\ pc = "sweep" /\ at \in Cells /\ at' = at + 1 /\ renew' = renew
          /\ UNCHANGED <<lastState, habitat, weights, add>>
      BY <2>3 DEF VisitCell, viewVars, worldVars
    <3>2. state' = [state EXCEPT ![at] = Stepped(at)]
      BY <2>3 DEF VisitCell, StepCell, Next1, Stepped
    <3>3. DOMAIN state = Cells
      BY DEF FrameTypeOK, PerCell
    <3>4. \A c \in Cells : Stepped(c)' = Stepped(c)
      BY <3>1 DEF Stepped
    <3>5. \A c \in Cells : c < at' => state'[c] = Stepped(c)'
      BY <3>1, <3>2, <3>3, <3>4 DEF GenInv
    <3>6. \A c \in Cells : c >= at' => state'[c] = lastState'[c]
      BY <3>1, <3>2, <3>3 DEF GenInv
    <3>7. QED
      BY <3>1, <3>5, <3>6 DEF GenInv
  <2>4. CASE VisitRaises \/ FinishFrame
    BY <2>4 DEF VisitRaises, FinishFrame, Abort, AfterFrame, GenInv
  <2>5. CASE StartFrame \/ ResetWorld \/ ResetOutside \/ ReplaceWeights \/ KeepWorld
    BY <2>5 DEF StartFrame, ResetWorld, ResetOutside, ReplaceWeights, KeepWorld, Abort, GenInv
  <2>6. CASE CellRequest \/ NoCellRequest \/ ReplacePolls \/ KeepPolls \/ UseFreed
    BY <2>6 DEF CellRequest, NoCellRequest, ReplacePolls, KeepPolls, UseFreed, Abort, GenInv
  <2>7. CASE Quit \/ UNCHANGED vars
    BY <2>7 DEF Quit, vars, GenInv, Stepped, cellVars, worldVars, viewVars, frameVars
  <2>8. QED
    BY <2>1, <2>2, <2>3, <2>4, <2>5, <2>6, <2>7 DEF Next, Frame
<1>3. QED
  BY <1>1, <1>2, Typing, PTL DEF Spec

(* The sweep implements the synchronous automaton: the last step of a       *)
(* renewing frame is a generation, a reset is a restart, and every other    *)
(* step is invisible to a performer who sees only whole generations.        *)
THEOREM SweepImplementsAutomaton ==
  ASSUME GoodWorlds, GoodPolls
  PROVE  Spec => ImplementsAutomaton
<1>1. Init => Abstract!AInit
  <2> SUFFICES ASSUME Init
               PROVE  \E w \in {AbstractWorld(v) : v \in Worlds \cup {FirstWorld}} :
                        Shown = w.cells /\ habitat = w.habitat
    BY DEF Abstract!AInit
  <2>1. AbstractWorld(FirstWorld) \in {AbstractWorld(v) : v \in Worlds \cup {FirstWorld}}
    OBVIOUS
  <2>2. /\ Shown = AbstractWorld(FirstWorld).cells
        /\ habitat = AbstractWorld(FirstWorld).habitat
    BY DEF Init, Shown, AbstractWorld
  <2>3. QED
    BY <2>1, <2>2
<1>2. FrameTypeOK /\ WorldInv /\ PollInv /\ GenInv /\ [Next]_vars
        => [Abstract!ANext]_<<Shown, habitat>>
  <2> SUFFICES ASSUME FrameTypeOK, WorldInv, PollInv, GenInv, [Next]_vars
               PROVE  Abstract!ANext \/ UNCHANGED <<Shown, habitat>>
    OBVIOUS
  <2>1. CASE ResetWorld
    <3>1. PICK v \in Worlds : habitat' = v.habitat /\ state' = InitCells(v.seed)
      BY <2>1 DEF ResetWorld
    <3>2. AbstractWorld(v) \in {AbstractWorld(u) : u \in Worlds \cup {FirstWorld}}
      OBVIOUS
    <3>3. Shown' = AbstractWorld(v).cells /\ habitat' = AbstractWorld(v).habitat
      BY <2>1, <3>1 DEF ResetWorld, Shown, AbstractWorld
    <3>4. Abstract!Restart
      BY <3>2, <3>3 DEF Abstract!Restart
    <3>5. QED
      BY <3>4 DEF Abstract!ANext
  <2>2. CASE FinishFrame
    <3>1. CASE renew = TRUE
      <4>1. /\ Shown = lastState /\ Shown' = state /\ habitat' = habitat
        BY <2>2, <3>1 DEF FinishFrame, Shown, AfterFrame, cellVars, worldVars
      <4>2. state = [c \in Cells |-> Stepped(c)]
        BY <2>2, <3>1 DEF FinishFrame, GenInv, FrameTypeOK, PerCell
      <4>3. add \in Adds /\ weights \in Weights \cup {FirstWeights}
        BY <2>2, <3>1 DEF FinishFrame, GenInv, FrameTypeOK
      <4>4. Abstract!Generation
        BY <4>1, <4>2, <4>3 DEF Abstract!Generation, Stepped
      <4>5. QED
        BY <4>4 DEF Abstract!ANext
    <3>2. CASE renew = FALSE
      BY <2>2, <3>2 DEF FinishFrame, Shown, AfterFrame, cellVars, worldVars
    <3>3. QED
      BY <3>1, <3>2 DEF FrameTypeOK
  <2>3. CASE VisitRaises
    BY <2>3, GoodWorlds, NothingRaises DEF VisitRaises
  <2>4. CASE VisitCell
    BY <2>4 DEF VisitCell, StepCell, UpdatePhase, Shown, viewVars, worldVars
  <2>5. CASE BeginGeneration
    BY <2>5 DEF BeginGeneration, BeginSweep, Shown, worldVars
  <2>6. CASE BeginInterpolation
    BY <2>6 DEF BeginInterpolation, BeginSweep, Shown, worldVars
  <2>7. CASE StartFrame \/ ResetOutside \/ ReplaceWeights \/ KeepWorld
    BY <2>7 DEF StartFrame, ResetOutside, ReplaceWeights, KeepWorld, Abort, Shown,
                cellVars, worldVars
  <2>8. CASE CellRequest \/ NoCellRequest \/ ReplacePolls \/ KeepPolls \/ UseFreed
    BY <2>8 DEF CellRequest, NoCellRequest, ReplacePolls, KeepPolls, UseFreed, Abort, Shown,
                cellVars, worldVars
  <2>9. CASE Quit \/ UNCHANGED vars
    BY <2>9 DEF Quit, vars, Shown, cellVars, worldVars, viewVars
  <2>10. QED
    BY <2>1, <2>2, <2>3, <2>4, <2>5, <2>6, <2>7, <2>8, <2>9 DEF Next, Frame
<1>3. QED
  BY <1>1, <1>2, Typing, WorldKept, PollsInStep, GenerationHalfDone, PTL
     DEF Spec, ImplementsAutomaton, Abstract!ASpec

-----------------------------------------------------------------------------
(* Damage, and how long it lasts.                                           *)
Asked == habitat \in Habitats

(* The world in use is always one that was asked for. *)
LEMMA HabitatAskedFor == Spec => []Asked
<1>1. Init => Asked
  BY DEF Init, Habitats, Asked
<1>2. Asked /\ [Next]_vars => Asked'
  <2> SUFFICES ASSUME Asked, [Next]_vars PROVE Asked'
    OBVIOUS
  <2>1. CASE ResetWorld
    BY <2>1 DEF ResetWorld, Habitats, Asked
  <2>2. ASSUME UNCHANGED habitat PROVE Asked'
    BY <2>2 DEF Asked, Habitats
  <2>3. CASE StartFrame \/ ResetOutside \/ ReplaceWeights \/ KeepWorld \/ CellRequest
    BY <2>2, <2>3 DEF StartFrame, ResetOutside, ReplaceWeights, KeepWorld, CellRequest,
                      worldVars
  <2>4. CASE NoCellRequest \/ ReplacePolls \/ KeepPolls \/ UseFreed
    BY <2>2, <2>4 DEF NoCellRequest, ReplacePolls, KeepPolls, UseFreed, worldVars
  <2>5. CASE BeginGeneration \/ BeginInterpolation
    BY <2>2, <2>5 DEF BeginGeneration, BeginInterpolation, BeginSweep, worldVars
  <2>6. CASE VisitCell \/ VisitRaises \/ FinishFrame
    BY <2>2, <2>6 DEF VisitCell, VisitRaises, FinishFrame, worldVars
  <2>7. CASE Quit \/ UNCHANGED vars
    BY <2>2, <2>7 DEF Quit, vars, worldVars
  <2>8. QED
    BY <2>1, <2>3, <2>4, <2>5, <2>6, <2>7 DEF Next, Frame
<1>3. QED
  BY <1>1, <1>2, PTL DEF Spec

(* One neighbour that is not finite, and the mean is not. *)
LEMMA NaNSpreads ==
  ASSUME NEW nb, NEW last, NEW wl, NEW a, NEW i \in DOMAIN nb, last[nb[i]] = NaN
  PROVE  NextState(nb, last, wl, a) = NaN
<1> DEFINE seen == [j \in DOMAIN nb |-> last[nb[j]]]
           u == Used(nb, wl)
<1>1. i \in DOMAIN seen /\ seen[i] = NaN
  OBVIOUS
<1>2. Average(nb, last, wl) = Mean(seen, u)
  BY DEF Average
<1> HIDE DEF seen, u
<1>3. Mean(seen, u) = NaN
  BY <1>1 DEF Mean
<1>4. QED
  BY <1>2, <1>3 DEF NextState

\* the steps that RateIsFinal and PoisonNeedsReset allow
RateStep ==
  ratio < 1 /\ clock > ratio =>
    /\ ratio' = ratio /\ clock' > ratio
    /\ pc # "sweep" /\ pc' = "sweep" => ~ renew'

PoisonStep ==
  /\ Poisoned /\ ~ Poisoned' =>
       pc = "reset" \/ (pc = "sweep" /\ renew /\ at \in Cells /\ Raises(at))
  /\ \A c \in Cells : phase[c] = NaN /\ phase'[c] # NaN => pc = "reset"

(* Only BeginGeneration reads a rate, and only when clock and ratio meet. *)
LEMMA RateIsFinalStep ==
  ASSUME FrameTypeOK, Next
  PROVE  RateStep
<1> SUFFICES ASSUME ratio < 1, clock > ratio
             PROVE  /\ ratio' = ratio /\ clock' > ratio
                    /\ pc # "sweep" /\ pc' = "sweep" => ~ renew'
  BY DEF RateStep
<1>1. clock \in Int /\ ratio \in Int /\ clock # ratio
  BY DEF FrameTypeOK
<1>2. CASE BeginGeneration
  BY <1>1, <1>2 DEF BeginGeneration
<1>3. CASE BeginInterpolation
  BY <1>3 DEF BeginInterpolation
<1>4. CASE FinishFrame
  BY <1>1, <1>4 DEF FinishFrame
<1>5. CASE VisitCell \/ VisitRaises
  BY <1>5 DEF VisitCell, VisitRaises, viewVars
<1>6. CASE StartFrame \/ ResetWorld \/ ResetOutside \/ ReplaceWeights \/ KeepWorld
  BY <1>6 DEF StartFrame, ResetWorld, ResetOutside, ReplaceWeights, KeepWorld, Abort, viewVars
<1>7. CASE CellRequest \/ NoCellRequest \/ ReplacePolls \/ KeepPolls \/ UseFreed
  BY <1>7 DEF CellRequest, NoCellRequest, ReplacePolls, KeepPolls, UseFreed, Abort, viewVars
<1>8. CASE Quit
  BY <1>8 DEF Quit, viewVars
<1>9. QED
  BY <1>2, <1>3, <1>4, <1>5, <1>6, <1>7, <1>8 DEF Next, Frame

(* Nothing but a new world makes a phase finite again. *)
LEMMA PhasesStaySpoilt ==
  ASSUME FrameTypeOK, Next, NEW c \in Cells, phase[c] = NaN, phase'[c] # NaN
  PROVE  pc = "reset"
<1>1. CASE ResetWorld
  BY <1>1 DEF ResetWorld
<1>2. CASE VisitCell \/ VisitRaises
  <2>1. \/ phase' = phase
        \/ phase' = [phase EXCEPT ![at] = NextPhase(phase[at], velocity[at])]
    BY <1>2 DEF VisitCell, VisitRaises, StepCell, Next1, UpdatePhase
  <2>2. phase[c] = NaN => NextPhase(phase[c], velocity[c]) = NaN
    BY DEF NextPhase
  <2>3. DOMAIN phase = Cells
    BY DEF FrameTypeOK, PerCell
  <2>4. QED
    BY <2>1, <2>2, <2>3
<1>3. ASSUME UNCHANGED phase PROVE FALSE
  BY <1>3
<1>4. CASE StartFrame \/ ResetOutside \/ ReplaceWeights \/ KeepWorld \/ CellRequest
  BY <1>3, <1>4 DEF StartFrame, ResetOutside, ReplaceWeights, KeepWorld, CellRequest, cellVars
<1>5. CASE NoCellRequest \/ ReplacePolls \/ KeepPolls \/ UseFreed
  BY <1>3, <1>5 DEF NoCellRequest, ReplacePolls, KeepPolls, UseFreed, cellVars
<1>6. CASE BeginGeneration \/ BeginInterpolation \/ FinishFrame \/ Quit
  BY <1>3, <1>6 DEF BeginGeneration, BeginInterpolation, BeginSweep, FinishFrame, Quit, cellVars
<1>7. QED
  BY <1>1, <1>2, <1>4, <1>5, <1>6 DEF Next, Frame

(* The cell that is not finite is somebody's neighbour, and spoils it.      *)
LEMMA GenerationsStaySpoilt ==
  ASSUME NoCellUnseen, FrameTypeOK, GenInv, Asked, Next, Poisoned, ~ Poisoned'
  PROVE  pc = "reset" \/ (pc = "sweep" /\ renew /\ at \in Cells /\ Raises(at))
<1>1. ASSUME Shown' = Shown PROVE FALSE
  BY <1>1 DEF Poisoned
<1>2. CASE ResetWorld
  BY <1>2 DEF ResetWorld
<1>3. CASE FinishFrame
  <2>1. state' = state /\ Shown' = state /\ pc = "sweep" /\ at = N + 1
    BY <1>3 DEF FinishFrame, Shown, AfterFrame, cellVars
  <2>2. CASE renew = FALSE
    BY <1>1, <2>1, <2>2 DEF Shown
  <2>3. CASE renew = TRUE
    <3>1. PICK d \in Cells : lastState[d] = NaN
      BY <2>1, <2>3 DEF Poisoned, Shown
    <3>2. PICK w \in Worlds \cup {FirstWorld} : habitat = w.habitat
      BY DEF Habitats, Asked
    <3>3. PICK c \in Cells : d \in {habitat[c][i] : i \in DOMAIN habitat[c]}
      <4> HIDE ViewAssumption DEF Cells
      <4>1. \E c \in Cells : d \in {w.habitat[c][i] : i \in DOMAIN w.habitat[c]}
        BY <3>1, <3>2 DEF NoCellUnseen
      <4>2. QED
        BY <3>2, <4>1
    <3>4. PICK i \in DOMAIN habitat[c] : habitat[c][i] = d
      BY <3>3
    <3>5. Stepped(c) = NaN
      <4>1. lastState[habitat[c][i]] = NaN
        BY <3>1, <3>4
      <4> HIDE ViewAssumption
      <4>2. QED
        BY <3>4, <4>1, NaNSpreads DEF Stepped
    <3>6. state[c] = NaN
      BY <2>1, <2>3, <3>5 DEF GenInv
    <3>7. QED
      BY <2>1, <3>6 DEF Poisoned
  <2>4. QED
    BY <2>2, <2>3 DEF FrameTypeOK
<1>4. CASE VisitRaises
  <2>1. Shown' = state'
    BY <1>4 DEF VisitRaises, Abort, Shown
  <2>2. renew \/ state' = state
    BY <1>4 DEF VisitRaises, StepCell, UpdatePhase
  <2>3. renew \/ Shown' = Shown
    BY <2>1, <2>2 DEF Shown
  <2>4. QED
    BY <1>1, <1>4, <2>3 DEF VisitRaises
<1>5. CASE VisitCell
  BY <1>1, <1>5 DEF VisitCell, StepCell, UpdatePhase, Shown, viewVars
<1>6. CASE BeginGeneration \/ BeginInterpolation
  BY <1>1, <1>6 DEF BeginGeneration, BeginInterpolation, BeginSweep, Shown
<1>7. CASE StartFrame \/ ResetOutside \/ ReplaceWeights \/ KeepWorld
  BY <1>1, <1>7 DEF StartFrame, ResetOutside, ReplaceWeights, KeepWorld, Abort, Shown, cellVars
<1>8. CASE CellRequest \/ NoCellRequest \/ ReplacePolls \/ KeepPolls \/ UseFreed
  BY <1>1, <1>8 DEF CellRequest, NoCellRequest, ReplacePolls, KeepPolls, UseFreed, Abort, Shown,
              cellVars
<1>9. CASE Quit
  BY <1>1, <1>9 DEF Quit, Shown, cellVars, viewVars
<1>10. QED
  BY <1>2, <1>3, <1>4, <1>5, <1>6, <1>7, <1>8, <1>9 DEF Next, Frame

(* A frame rate below 1 is never repaired, and cells that are not finite    *)
(* are only by a new world.                                                 *)
THEOREM DamageLastsUntilReset ==
  ASSUME NoCellUnseen
  PROVE  Spec => DamageLasts
<1>1. FrameTypeOK /\ [Next]_vars => [RateStep]_vars
  BY RateIsFinalStep
<1>2. FrameTypeOK /\ GenInv /\ Asked /\ [Next]_vars => [PoisonStep]_vars
  <2>1. ASSUME FrameTypeOK, GenInv, Asked, Next PROVE PoisonStep
    BY <2>1, PhasesStaySpoilt, GenerationsStaySpoilt, NoCellUnseen DEF PoisonStep
  <2>2. QED
    BY <2>1
<1>3. Spec => [][RateStep]_vars
  BY <1>1, Typing, PTL DEF Spec
<1>4. Spec => [][PoisonStep]_vars
  BY <1>2, Typing, GenerationHalfDone, HabitatAskedFor, PTL DEF Spec
<1>5. QED
  BY <1>3, <1>4 DEF DamageLasts, RateIsFinal, PoisonNeedsReset, RateStep, PoisonStep
=============================================================================
