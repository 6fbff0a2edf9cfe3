------------------------------ MODULE FxView ------------------------------
(***************************************************************************)
(* The render thread: one call of drawCells per timer tick (FxView.m),     *)
(* with the world it sweeps (FxWorld.m) and the cells in it (Cell.m).      *)
(*                                                                         *)
(* A frame first obeys the performer's requests, then advances its clock,  *)
(* then sweeps the cells in order, and reports.  The requests are plain    *)
(* globals that another thread writes; here each read of one returns any   *)
(* value of the set given for it (module FxOSC has the writer and its      *)
(* races).  An Objective-C exception that a step raises leaves drawCells,  *)
(* update: and the timer callback, where it is discarded: the rest of the  *)
(* frame, and the test of done after it, do not happen.                    *)
(*                                                                         *)
(* Cells are numbered in sweep order; module CellSpace has the geometry    *)
(* that gives neighbourhoods, seeds and the default poll list.             *)
(***************************************************************************)
EXTENDS Cell

CONSTANTS
  N,            \* number of cells in the world
  Worlds,       \* worlds a reset may ask for: [habitat, seed]
  FirstWorld,   \* the world of initWorld
  FirstWeights, \* its weights
  Weights,      \* weight lists a request may carry
  Adds,         \* values of add
  FrameRates,   \* values of frameRate
  FirstRate,    \* frameRate before any request: 4 in FxOSC.m
  PollLists,    \* poll lists a request may carry: sequences of places
  DefaultPolls, \* the poll list of setPollIndices: NULL
  DrawReach,    \* neighbours of each cell the neighbour-reading patches index
  Drawings,     \* may such a patch be active: a subset of BOOLEAN
  Requests,     \* may /fx/cell requests arrive: a subset of BOOLEAN
  ClockCap,     \* the clock is not counted beyond this value
  Garbage       \* an element of a malloc'ed array that was never written

Cells == 1..N

ASSUME ViewAssumption ==
  /\ N \in Nat \ {0}
  /\ \A w \in Worlds \cup {FirstWorld} : w.habitat \in [Cells -> Seq(Cells)]
  /\ DrawReach \in [Cells -> Nat]
  /\ Drawings \subseteq BOOLEAN
  /\ FirstRate \in Nat \ {0}
  /\ FrameRates \subseteq Int
  /\ ClockCap \in Nat /\ ClockCap > FirstRate /\ \A r \in FrameRates : ClockCap > r
  /\ \A p \in PollLists \cup {DefaultPolls} : p \in Seq(Int)
  /\ Garbage \notin Float

VARIABLES
  \* the world and its cells
  habitat, state, lastState, velocity, phase, weights,
  pollIndices, pollIndex,
  retained,     \* reference count of the world object
  pollsFreed,   \* was the poll list deallocated with an earlier world
  \* the view
  clock,        \* FxView's phase: frames since the last generation
  ratio,        \* frameRateRatio: frames per generation
  renew, messaging,                            \* renew, enableMessage
  \* the frame in progress
  pc, at, add, loudest, pollValues, drawing,
  quit          \* the global done, set by quit_handler

cellVars  == <<state, lastState, velocity, phase>>
pollVars  == <<pollIndices, pollIndex, pollsFreed>>
worldVars == <<habitat, weights, retained>>
viewVars  == <<clock, ratio, renew, messaging>>
frameVars == <<at, add, loudest, pollValues>>
vars == <<cellVars, pollVars, worldVars, viewVars, frameVars, pc, drawing, quit>>

-----------------------------------------------------------------------------
(* Definitions named X_deviation are X with a plausible mistake; no action  *)
(* uses them.  They show that the properties below can fail.                *)

(* initCells: every cell 0.0, then the seeds in place. *)
InitCells(seed) == [c \in Cells |-> IF c \in DOMAIN seed THEN seed[c] ELSE 0]

Zeros == [c \in Cells |-> 0]

NewWorldRefs_once == 1

(* [[[FxWorld new] init: ...] retain]: two references to one object. *)
NewWorldRefs == 2

(* The locals of drawCells between two frames. *)
NoFrame == at = 1 /\ add = 0 /\ loudest = 1 /\ pollValues = << >>
EndOfFrame == at' = 1 /\ add' = 0 /\ loudest' = 1 /\ pollValues' = << >>

Init ==
  /\ habitat = FirstWorld.habitat
  /\ state = InitCells(FirstWorld.seed)
  /\ lastState = Zeros /\ velocity = Zeros /\ phase = Zeros
  /\ weights = FirstWeights
  /\ pollIndices = DefaultPolls /\ pollIndex = 0 /\ pollsFreed = FALSE
  /\ retained = NewWorldRefs
  /\ clock = FirstRate /\ ratio = FirstRate
  /\ renew = FALSE /\ messaging = FALSE
  /\ pc = "idle" /\ NoFrame /\ drawing = FALSE
  /\ quit = FALSE

-----------------------------------------------------------------------------
(* The requests at the head of a frame, in the order drawCells reads them. *)

(* setPatch may switch a patch on or off that reads neighbours. *)
StartFrame ==
  /\ pc = "idle"
  /\ drawing' \in Drawings
  /\ pc' = "reset"
  /\ UNCHANGED <<cellVars, pollVars, worldVars, viewVars, frameVars, quit>>

(* An exception: the frame ends here, its tail is skipped. *)
Abort ==
  /\ pc' = "idle"
  /\ EndOfFrame

(* reset = 1.  The world is released once and replaced by a new one, which  *)
(* takes over its poll list; the view's clock goes on.                      *)
ResetWorld ==
  /\ pc = "reset" /\ retained > 0
  /\ \E w \in Worlds, wl \in Weights :
       /\ DOMAIN w.seed \subseteq Cells
       /\ habitat' = w.habitat
       /\ state' = InitCells(w.seed)
       /\ weights' = wl
  /\ lastState' = Zeros /\ velocity' = Zeros /\ phase' = Zeros
  /\ retained' = NewWorldRefs
  /\ pollsFreed' = (pollsFreed \/ retained = 1)
  /\ pollIndex' = 0
  /\ pc' = "cell"
  /\ UNCHANGED <<pollIndices, viewVars, frameVars, drawing, quit>>

(* reset = 1 with a seed outside the world: initCells raises after the old  *)
(* world was released and before the view has a new one.                    *)
ResetOutside ==
  /\ pc = "reset" /\ retained > 0
  /\ \E w \in Worlds : ~ (DOMAIN w.seed \subseteq Cells)
  /\ retained' = retained - 1
  /\ pollsFreed' = (pollsFreed \/ retained = 1)
  /\ Abort
  /\ UNCHANGED <<cellVars, pollIndices, pollIndex, habitat, weights, viewVars,
                 drawing, quit>>

(* reset = 2 *)
ReplaceWeights ==
  /\ pc = "reset" /\ retained > 0
  /\ weights' \in Weights
  /\ pc' = "cell"
  /\ UNCHANGED <<cellVars, pollVars, habitat, retained, viewVars, frameVars,
                 drawing, quit>>

(* reset = 0, or a value that resetWorld ignores *)
KeepWorld ==
  /\ pc = "reset" /\ retained > 0
  /\ pc' = "cell"
  /\ UNCHANGED <<cellVars, pollVars, worldVars, viewVars, frameVars, drawing, quit>>

(* setCell: the code takes two of the three coordinates, so setState: goes  *)
(* to an array of cells, which does not respond to it.                      *)
CellRequest ==
  /\ pc = "cell"
  /\ TRUE \in Requests
  /\ Abort
  /\ UNCHANGED <<cellVars, pollVars, worldVars, viewVars, drawing, quit>>

NoCellRequest ==
  /\ pc = "cell"
  /\ pc' = "poll"
  /\ UNCHANGED <<cellVars, pollVars, worldVars, viewVars, frameVars, drawing, quit>>

(* setPoll: the list changes under a pollIndex that does not. *)
ReplacePolls ==
  /\ pc = "poll"
  /\ pollIndices' \in PollLists
  /\ pollsFreed' = FALSE
  /\ pc' = "clock"
  /\ UNCHANGED <<cellVars, pollIndex, worldVars, viewVars, frameVars, drawing, quit>>

KeepPolls ==
  /\ pc = "poll" /\ ~ pollsFreed
  /\ pc' = "clock"
  /\ UNCHANGED <<cellVars, pollVars, worldVars, viewVars, frameVars, drawing, quit>>

(* A freed world, or a freed poll list, is used: undefined, here a crash. *)
UseFreed ==
  /\ \/ pc = "reset" /\ retained = 0
     \/ pc = "poll" /\ pollsFreed
  /\ pc' = "crashed"
  /\ EndOfFrame
  /\ UNCHANGED <<cellVars, pollVars, worldVars, viewVars, drawing, quit>>

-----------------------------------------------------------------------------
(* The clock. *)

BeginSweep ==
  /\ pc = "clock"
  /\ pollValues' = IF messaging THEN [i \in DOMAIN pollIndices |-> Garbage] ELSE << >>
  /\ at' = 1 /\ loudest' = 1
  /\ pc' = "sweep"
  /\ UNCHANGED <<state, velocity, phase, pollVars, worldVars, messaging, drawing, quit>>

(* phase == frameRateRatio: prepareNext, and the next generation's length. *)
BeginGeneration ==
  /\ clock = ratio
  /\ BeginSweep
  /\ renew' = TRUE
  /\ clock' = 0
  /\ lastState' = state
  /\ add' \in Adds
  /\ ratio' \in FrameRates

BeginInterpolation_rereadsRate ==
  /\ clock # ratio
  /\ BeginSweep
  /\ renew' = FALSE
  /\ add' = 0
  /\ ratio' \in FrameRates
  /\ UNCHANGED <<clock, lastState>>

(* add is read here too, and not used. *)
BeginInterpolation ==
  /\ clock # ratio
  /\ BeginSweep
  /\ renew' = FALSE
  /\ add' = 0
  /\ UNCHANGED <<clock, lastState, ratio>>

-----------------------------------------------------------------------------
(* The sweep: one step per cell. *)

Next1_inPlace(c) ==
  /\ state' = [state EXCEPT ![c] = NextState(habitat[c], state, weights, add)]
  /\ velocity' = [velocity EXCEPT ![c] = Velocity(state'[c], lastState[c], ratio)]
  /\ UNCHANGED phase

(* Cell -next:::, which reads only the neighbours' lastState. *)
Next1(c) ==
  /\ state' = [state EXCEPT ![c] = NextState(habitat[c], lastState, weights, add)]
  /\ velocity' = [velocity EXCEPT ![c] = Velocity(state'[c], lastState[c], ratio)]
  /\ UNCHANGED phase

UpdatePhase(c) ==
  /\ phase' = [phase EXCEPT ![c] = NextPhase(phase[c], velocity[c])]
  /\ UNCHANGED <<state, velocity>>

StepCell(c) == (renew /\ Next1(c)) \/ (~ renew /\ UpdatePhase(c))

(* objectAtIndex: beyond the poll list, or beyond the drawn cell's habitat. *)
Raises(c) ==
  \/ pollIndex >= Len(pollIndices)
  \/ drawing /\ Len(habitat[c]) < DrawReach[c]

NextPollIndex_noWrap == pollIndex + 1
NextPollIndex_early == IF pollIndex >= Len(pollIndices) - 2 THEN 0 ELSE pollIndex + 1
NextPollIndex_stays ==
  IF pollIndex = Len(pollIndices) - 1 THEN pollIndex ELSE pollIndex + 1

NextPollIndex == IF pollIndex = Len(pollIndices) - 1 THEN 0 ELSE pollIndex + 1

Sampled_anyCell(c) == messaging

Sampled(c) == messaging /\ pollIndices[pollIndex + 1] = c

Loudest_last(c) == IF Below(phase'[c], phase'[loudest]) THEN loudest ELSE c

(* if ([max phase] < [cell phase]) { max = cell; } *)
Loudest(c) == IF Below(phase'[loudest], phase'[c]) THEN c ELSE loudest

VisitCell ==
  /\ pc = "sweep" /\ at \in Cells
  /\ ~ Raises(at)
  /\ StepCell(at)
  /\ loudest' = Loudest(at)
  /\ IF Sampled(at)
     THEN /\ pollValues' = [pollValues EXCEPT ![pollIndex + 1] = phase'[at]]
          /\ pollIndex' = NextPollIndex
     ELSE UNCHANGED <<pollValues, pollIndex>>
  /\ at' = at + 1
  /\ UNCHANGED <<lastState, pollIndices, pollsFreed, worldVars, viewVars, pc, add,
                 drawing, quit>>

(* The exception comes after the cell has stepped. *)
VisitRaises ==
  /\ pc = "sweep" /\ at \in Cells
  /\ Raises(at)
  /\ StepCell(at)
  /\ Abort
  /\ UNCHANGED <<lastState, pollVars, worldVars, viewVars, drawing, quit>>

-----------------------------------------------------------------------------
(* The report: /fx/globals, /fx/states, /fx/renew, /fx/trigger; then the    *)
(* view's own state, and in update: the test of done.                       *)

AfterFrame_ignoresDone == "idle"

(* update: after the frame *)
AfterFrame == IF quit THEN "terminated" ELSE "idle"

FinishFrame ==
  /\ pc = "sweep" /\ at = N + 1
  /\ messaging' = ~ messaging
  /\ clock' = IF clock < ClockCap THEN clock + 1 ELSE clock
  /\ EndOfFrame
  /\ pc' = AfterFrame
  /\ UNCHANGED <<cellVars, pollVars, worldVars, ratio, renew, drawing, quit>>

(* quit_handler, on the server's thread *)
Quit ==
  /\ ~ quit
  /\ quit' = TRUE
  /\ UNCHANGED <<cellVars, pollVars, worldVars, viewVars, frameVars, pc, drawing>>

-----------------------------------------------------------------------------
Frame ==
  \/ StartFrame
  \/ ResetWorld \/ ResetOutside \/ ReplaceWeights \/ KeepWorld
  \/ CellRequest \/ NoCellRequest
  \/ ReplacePolls \/ KeepPolls
  \/ UseFreed
  \/ BeginGeneration \/ BeginInterpolation
  \/ VisitCell \/ VisitRaises
  \/ FinishFrame

Next == Frame \/ Quit

Spec == Init /\ [][Next]_vars

(* The timer repeats: the render thread never stops between two steps. *)
FairSpec == Spec /\ WF_vars(Frame)
-----------------------------------------------------------------------------
(* What well-formed requests are: poll lists that name cells in sweep       *)
(* order, seeds inside the world, neighbourhoods that every active patch    *)
(* can draw, generations of at least one frame.                             *)

GoodList(p) ==
  /\ p # << >>
  /\ \A i \in DOMAIN p : p[i] \in Cells
  /\ \A i, j \in DOMAIN p : i < j => p[i] < p[j]

GoodPolls == \A p \in PollLists \cup {DefaultPolls} : GoodList(p)

GoodWorlds ==
  \A w \in Worlds \cup {FirstWorld} :
    /\ DOMAIN w.seed \subseteq Cells
    /\ TRUE \in Drawings => \A c \in Cells : Len(w.habitat[c]) >= DrawReach[c]

GoodRates == FrameRates \subseteq Nat \ {0}

(* Values of the unit interval, and means that are defined: neighbours that *)
(* are there, and weights that are not negative and not all zero.           *)
Weighing(wl) == wl \in Seq(Nat) /\ \E i \in 1..Len(wl) : wl[i] > 0
GoodRule ==
  /\ \A w \in Worlds \cup {FirstWorld} :
       /\ \A c \in DOMAIN w.seed : w.seed[c] \in 0..One
       /\ \A c \in Cells : w.habitat[c] # << >>
  /\ \A wl \in Weights \cup {FirstWeights} : Weighing(wl)
  /\ Adds \subseteq 0..One

(* Neighbourhoods that leave out no cell: it is some cell's neighbour.      *)
NoCellUnseen ==
  \A w \in Worlds \cup {FirstWorld} : \A d \in Cells :
    \E c \in Cells : d \in {w.habitat[c][i] : i \in DOMAIN w.habitat[c]}

-----------------------------------------------------------------------------
PerCell(f) == f = [c \in Cells |-> f[c]]

(* Types: the frame's own state, and the floats in the cells. *)
FrameTypeOK ==
  /\ habitat \in [Cells -> Seq(Cells)]
  /\ PerCell(state) /\ PerCell(lastState) /\ PerCell(velocity) /\ PerCell(phase)
  /\ weights \in Weights \cup {FirstWeights}
  /\ pollIndices \in PollLists \cup {DefaultPolls}
  /\ pollIndex \in Nat
  /\ retained \in 0..2
  /\ clock \in 0..ClockCap
  /\ ratio \in FrameRates \cup {FirstRate}
  /\ at \in 1..N+1 /\ add \in Adds \cup {0} /\ loudest \in Cells
  /\ pc \in {"idle", "reset", "cell", "poll", "clock", "sweep", "crashed", "terminated"}
  /\ pollsFreed \in BOOLEAN /\ renew \in BOOLEAN /\ messaging \in BOOLEAN
  /\ drawing \in BOOLEAN /\ quit \in BOOLEAN

(* With requests that are well formed, every cell is a number in every      *)
(* frame, states and phases stay in the unit interval (one subtraction of 1 *)
(* is enough after adding), and a report has nothing but phases in it.      *)
TypeOK ==
  /\ FrameTypeOK
  /\ lastState \in [Cells -> Float] /\ velocity \in [Cells -> Float]
  /\ state \in [Cells -> 0..One] /\ phase \in [Cells -> 0..One - 1]
  /\ pollValues \in Seq(Float \cup {Garbage})

(* The clock is compared with == and is never beyond the ratio it waits     *)
(* for, although the ratio changes under it: a generation is never missed.  *)
ClockBounded == clock <= ratio /\ (pc = "sweep" => clock < ratio)

(* No cell of a sweep raises: every frame whose clock has advanced also     *)
(* reports, toggles the message flag and looks at done.                     *)
SweepCompletes == pc = "sweep" /\ at \in Cells => ~ Raises(at)

(* The states blob holds, for every poll entry, the phase its cell has in   *)
(* this frame: no entry is left unwritten, none is of another frame.        *)
ReportTruthful ==
  pc = "sweep" /\ at = N + 1 /\ messaging
    => pollValues = [i \in DOMAIN pollIndices |-> phase[pollIndices[i]]]

(* The trigger names the first of the cells of highest phase, although      *)
(* phases change while the maximum is sought.                               *)
TriggerIsLoudest ==
  pc = "sweep" /\ at = N + 1
    => /\ \A c \in Cells : ~ Below(phase[loudest], phase[c])
       /\ \A c \in 1..loudest - 1 : Below(phase[c], phase[loudest])

(* The world in use, and the poll list that passes from world to world,     *)
(* outlive every reset.                                                     *)
NothingFreed == retained > 0 /\ ~ pollsFreed

(* What the performer sees as the current generation: while a new one is    *)
(* being computed, still the old one.                                       *)
Shown == IF pc = "sweep" /\ renew THEN lastState ELSE state

(* A frame that computes a generation cell by cell implements the           *)
(* synchronous automaton: no cell ever sees a neighbour of another          *)
(* generation, and no frame leaves a generation half computed.              *)
AbstractWorld(w) == [habitat |-> w.habitat, cells |-> InitCells(w.seed)]

Abstract ==
  INSTANCE Automaton WITH
    gen     <- Shown,
    Rule    <- NextState,
    Weights <- Weights \cup {FirstWeights},
    Worlds  <- {AbstractWorld(w) : w \in Worlds \cup {FirstWorld}}

ImplementsAutomaton == Abstract!ASpec

(* With requests that a program could send by mistake: a poll value is      *)
(* never that of another cell than the one the entry names.                 *)
NoMisattribution ==
  \A i \in DOMAIN pollValues :
    pollValues[i] # Garbage => pollValues[i] = phase[pollIndices[i]]

(* A list in sweep order, installed under a pollIndex left over from a list *)
(* that was not, is back in step after one complete message frame.          *)
PollsHeal ==
  pc = "sweep" /\ at = N + 1 /\ messaging /\ GoodList(pollIndices) => pollIndex = 0

(* A frame rate below 1 cannot be repaired: once the clock has passed it,   *)
(* no later request is read, and no frame that begins renews the cells.     *)
RateIsFinal ==
  [][ratio < 1 /\ clock > ratio =>
       /\ ratio' = ratio /\ clock' > ratio
       /\ pc # "sweep" /\ pc' = "sweep" => ~ renew']_vars

(* A cell that is not finite spoils the generations that follow, and its    *)
(* phase for good: only a new world heals it.  (A generation that is cut    *)
(* short may also lose the cells that are not finite; never their phases.)  *)
Poisoned == \E c \in Cells : Shown[c] = NaN
PoisonNeedsReset ==
  [][/\ Poisoned /\ ~ Poisoned' =>
          pc = "reset" \/ (pc = "sweep" /\ renew /\ at \in Cells /\ Raises(at))
     /\ \A c \in Cells : phase[c] = NaN /\ phase'[c] # NaN => pc = "reset"]_vars

(* Damage that lasts, and what repairs it: RateIsFinal, PoisonNeedsReset.   *)
DamageLasts == RateIsFinal /\ PoisonNeedsReset

(* /fx/cell requests do not arrive in every frame for ever. *)
RequestsPause == <>[][~ CellRequest]_vars

QuitHonoured == quit ~> pc = "terminated"
GenerationsRecur == []<>(pc = "terminated" \/ (pc = "sweep" /\ renew))

(* Whatever is requested, generations go on for as long as the program      *)
(* runs, and a quit request ends it: no frame that is cut short leaves the  *)
(* clock or the test of done out for good.                                  *)
FramesGoOn == RequestsPause => QuitHonoured /\ GenerationsRecur
===========================================================================
