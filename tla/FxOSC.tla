------------------------------- MODULE FxOSC -------------------------------
(***************************************************************************)
(* The globals of FxOSC.m between two threads: the handlers, which liblo's *)
(* server thread calls one at a time, store a request word by word; the    *)
(* render thread reads the same words while it obeys requests at the head  *)
(* of a frame.  There is no lock and no atomic: every store and every read *)
(* is a step of its own, in program order.                                 *)
(*                                                                         *)
(* The arguments of a /fx/world request are two words here, its geometry   *)
(* (habitat, radius, seed and area) and its weights; a word holds the      *)
(* number of the request it came from, 0 before any; its seed lies in the  *)
(* world.  A poll list is a malloc'ed block, named by its request; an      *)
(* entry is its three ints.  The loop of poll_handler counts from 1, so    *)
(* the last int of a list is stored just past its block.  A patch command  *)
(* is two words, the patch and what to do with it (cmd and value); of a    *)
(* /fx/cell request only that it raises in the frame that takes it.        *)
(***************************************************************************)
EXTENDS Integers, Sequences, FiniteSets

CONSTANTS
  Settings    \* what may be sent and where it runs: [requests, roomy]

ASSUME MailAssumption ==
  \A s \in Settings :
  /\ s.roomy \in BOOLEAN /\ IsFiniteSet(s.requests)
  /\ \A r \in s.requests :
       /\ r.path \in {"/fx/patch", "/fx/world", "/fx/cell", "/fx/poll", "/fx/quit"}
       /\ r.arg \in Nat

VARIABLES
  setting,    \* one of Settings: its requests are sent once each; roomy: malloc leaves
              \* room for one int after every block
  unsent,     \* requests not handled yet
  last,       \* number of requests handled
  job,        \* stores that the running handler has left
  mail,       \* the globals
  heap,       \* for each poll block: [used, size, written]
  pc,         \* where the render thread is
  geometry,   \* the geometry resetWorld has read
  world,      \* the requests that the world is built from: [geometry, weights]
  copied,     \* entries getPollIndices has read
  polls,      \* entries of the world's poll list
  odd,        \* was a list installed that is not one of the requested lists
  wild,       \* was freed or null memory used
  asked, rebuilt,  \* resets stored, worlds built
  latest,     \* for each of three paths its last request: [number, arg, alone], where
              \* alone says that no frame overlapped its handler; nothing reads it
  chosen,     \* p of setPatch
  patches     \* for each patch, the command applied to it last, 0 for none

handlerVars == <<unsent, last, job, asked, latest>>
patchVars == <<chosen, patches>>
worldVars == <<geometry, world, copied, polls, odd, rebuilt>>
frameVars == <<pc, worldVars, patchVars>>
vars == <<setting, handlerVars, frameVars, mail, heap, wild>>

Numbers == 1..Cardinality(setting.requests)
PatchNumbers == 0..1   \* of the eleven in the code
Clobbered == -1   \* an entry whose last int something else has overwritten
Lasting == {"/fx/world", "/fx/patch", "/fx/poll"}   \* paths whose requests have arguments
NoRequest == [number |-> 0, arg |-> 0, alone |-> TRUE]

-----------------------------------------------------------------------------
Init ==
  /\ setting \in Settings
  /\ unsent = setting.requests /\ last = 0 /\ job = << >>
  /\ mail = [reset |-> 0, geometry |-> 0, weights |-> 0,
             setpoll |-> 0, pollsize |-> 0, pollindex |-> 0, done |-> 0,
             patch |-> 0, cmd |-> 0, setcell |-> 0]
  /\ heap = [b \in Numbers |-> [used |-> "no", size |-> 0, written |-> 0]]
  /\ pc = "idle" /\ geometry = 0
  /\ world = [geometry |-> 0, weights |-> 0]
  /\ copied = << >> /\ polls = <<0>> /\ odd = FALSE
  /\ wild = FALSE /\ asked = 0 /\ rebuilt = 0
  /\ latest = [path \in Lasting |-> NoRequest]
  /\ chosen = 0 /\ patches = [p \in PatchNumbers |-> 0]

-----------------------------------------------------------------------------
(* The handlers. *)

\* reset_handler: reset, seed, ..., s_dep, lbb, ..., rtf
ResetHandler(n, kind) == << <<"reset", kind>>, <<"geometry", n>>, <<"weights", n>> >>

PollHandler_pastEnd(n, size) ==
  << <<"setpoll", 1>>, <<"pollsize", size>>, <<"malloc", n>> >>
    \o [i \in 1..size + 1 |-> <<"entry", i>>]

\* poll_handler: setpoll, pollsize, malloc, and the entries one by one
PollHandler(n, size) ==
  << <<"setpoll", 1>>, <<"pollsize", size>>, <<"malloc", n>> >>
    \o [i \in 1..size |-> <<"entry", i>>]

CellHandler == << <<"setcell", 1>> >>

\* patch_handler: patch, cmd, value
PatchHandler(n, p) == << <<"patch", p>>, <<"cmd", n>> >>

QuitHandler == << <<"done", 1>> >>

Stores(r, n) ==
  CASE r.path = "/fx/world" -> ResetHandler(n, r.arg)
    [] r.path = "/fx/poll"  -> PollHandler(n, r.arg)
    [] r.path = "/fx/patch" -> PatchHandler(n, r.arg)
    [] r.path = "/fx/cell"  -> CellHandler
    [] r.path = "/fx/quit"  -> QuitHandler

Handle ==
  /\ job = << >> /\ ~ wild
  /\ \E r \in unsent :
       /\ unsent' = unsent \ {r}
       /\ last' = last + 1
       /\ job' = Stores(r, last + 1)
       /\ latest' = [path \in Lasting |->
            IF path = r.path THEN [number |-> last + 1, arg |-> r.arg, alone |-> pc = "idle"]
            ELSE latest[path]]
       /\ asked' = IF r.path = "/fx/world" /\ r.arg = 1 THEN asked + 1 ELSE asked
  /\ UNCHANGED <<frameVars, mail, heap, wild>>

(* pollindex[i] = ..., through the global pointer. *)
StoreEntry(i) ==
  LET b == mail.pollindex IN
  IF heap[b].used = "live"
  THEN heap' = [heap EXCEPT ![b].written = i] /\ UNCHANGED wild
  ELSE wild' = TRUE /\ UNCHANGED heap

Store ==
  /\ job # << >> /\ ~ wild
  /\ job' = Tail(job)
  /\ LET name == Head(job)[1]  value == Head(job)[2] IN
     CASE name = "malloc" ->
            /\ mail' = [mail EXCEPT !.pollindex = value]
            /\ heap' = [heap EXCEPT ![value] =
                          [used |-> "live", size |-> mail.pollsize, written |-> 0]]
            /\ UNCHANGED wild
       [] name = "entry" -> StoreEntry(value) /\ UNCHANGED mail
       [] OTHER -> mail' = [mail EXCEPT ![name] = value] /\ UNCHANGED <<heap, wild>>
  /\ UNCHANGED <<unsent, last, asked, latest, frameVars>>

-----------------------------------------------------------------------------
(* The render thread: setPatch, resetWorld, setCell, setPoll and done, as   *)
(* drawCells reads them.                                                    *)

At(p) == pc = p /\ ~ wild
Goes(p) == pc' = p
ReadsOnly == UNCHANGED <<handlerVars, patchVars, mail, heap, wild>>

Busy(path) == job # << >> /\ latest[path].number = last   \* its handler runs

(* The frame begins with [oscer setPatch], on the last command there was.   *)
(* patch is compared with one number after another, and read again each     *)
(* time.                                                                    *)
FirstPatch ==
  /\ At("idle")
  /\ latest' = [path \in Lasting |->
       IF Busy(path) THEN [latest[path] EXCEPT !.alone = FALSE] ELSE latest[path]]
  /\ IF mail.patch = 0 THEN chosen' = 0 /\ Goes("command")
     ELSE Goes("patch1") /\ UNCHANGED chosen
  /\ UNCHANGED <<unsent, last, job, asked, mail, heap, wild, worldVars, patches>>

SecondPatch ==
  /\ At("patch1") /\ mail.patch = 1
  /\ chosen' = 1 /\ Goes("command")
  /\ UNCHANGED <<handlerVars, mail, heap, wild, worldVars, patches>>

(* No number matched, and p is uninitialised: any patch that was there      *)
(* before, or no object at all.                                             *)
StrayPatch ==
  /\ At("patch1") /\ mail.patch # 1
  /\ \/ chosen' \in PatchNumbers /\ Goes("command") /\ UNCHANGED wild
     \/ wild' = TRUE /\ UNCHANGED <<pc, chosen>>
  /\ UNCHANGED <<handlerVars, mail, heap, worldVars, patches>>

Command ==
  /\ At("command") /\ Goes("reset")
  /\ patches' = [patches EXCEPT ![chosen] = mail.cmd]
  /\ UNCHANGED <<handlerVars, mail, heap, wild, worldVars, chosen>>

(* if ([oscer getReset] > 0) *)
TestReset ==
  /\ At("reset")
  /\ Goes(IF mail.reset > 0 THEN "kind" ELSE "cell")
  /\ ReadsOnly /\ UNCHANGED worldVars

(* if ([oscer getReset] == 1) ... else if ([oscer getReset] == 2) *)
TestKind ==
  /\ \/ At("kind") /\ Goes(IF mail.reset = 1 THEN "geometry" ELSE "kind2")
     \/ At("kind2") /\ Goes(IF mail.reset = 2 THEN "reweigh" ELSE "served")
  /\ ReadsOnly /\ UNCHANGED worldVars

ReadGeometry ==
  /\ At("geometry") /\ Goes("weights")
  /\ geometry' = mail.geometry
  /\ ReadsOnly /\ UNCHANGED <<world, copied, polls, odd, rebuilt>>

NewWorld_oldWeights == [geometry |-> geometry, weights |-> world.weights]
NewWorld == [geometry |-> geometry, weights |-> mail.weights]

Rebuild ==
  /\ At("weights") /\ Goes("served")
  /\ world' = NewWorld
  /\ rebuilt' = rebuilt + 1
  /\ ReadsOnly /\ UNCHANGED <<geometry, copied, polls, odd>>

Reweigh ==
  /\ At("reweigh") /\ Goes("served")
  /\ world' = [world EXCEPT !.weights = mail.weights]
  /\ ReadsOnly /\ UNCHANGED <<geometry, copied, polls, odd, rebuilt>>

Cleared_rebuildsOnly == IF mail.reset = 1 THEN [mail EXCEPT !.reset = 0] ELSE mail
Cleared == [mail EXCEPT !.reset = 0]

(* [oscer resetDone], last of all. *)
ResetDone ==
  /\ At("served") /\ Goes("cell")
  /\ mail' = Cleared
  /\ UNCHANGED <<handlerVars, patchVars, heap, wild, worldVars>>

(* if ([oscer setCell]) *)
TestCell ==
  /\ At("cell")
  /\ Goes(IF mail.setcell = 1 THEN "takecell" ELSE "poll")
  /\ ReadsOnly /\ UNCHANGED worldVars

(* getCell; setState: then raises, since it is sent to a row of cells.      *)
TakeCell ==
  /\ At("takecell") /\ Goes("idle")
  /\ mail' = [mail EXCEPT !.setcell = 0]
  /\ UNCHANGED <<handlerVars, patchVars, heap, wild, worldVars>>

(* if ([oscer setPoll]) *)
TestPoll ==
  /\ At("poll")
  /\ Goes(IF mail.setpoll = 1 THEN "collect" ELSE "sweep")
  /\ ReadsOnly /\ UNCHANGED worldVars

TakesPoll_keeps == mail
TakesPoll == [mail EXCEPT !.setpoll = 0]

(* getPollIndices *)
BeginCollect ==
  /\ At("collect") /\ Goes("copy")
  /\ mail' = TakesPoll
  /\ copied' = << >>
  /\ UNCHANGED <<handlerVars, patchVars, heap, wild, geometry, world, polls, odd, rebuilt>>

Readable(b) == b # 0 /\ heap[b].used = "live"

(* What entry i of block b reads as: 0 before it is written.               *)
Entry(b, i) ==
  LET here == IF i <= heap[b].written THEN b ELSE 0
  IN  IF i = heap[b].size /\ ~ setting.roomy THEN {here, Clobbered} ELSE {here}

(* One entry, through the global pointer. *)
CopyEntry ==
  /\ At("copy") /\ Len(copied) < mail.pollsize
  /\ LET b == mail.pollindex  i == Len(copied) + 1 IN
     IF Readable(b)
     THEN /\ \E e \in Entry(b, i) : copied' = Append(copied, e)
          /\ UNCHANGED wild
     ELSE wild' = TRUE /\ UNCHANGED copied
  /\ UNCHANGED <<handlerVars, patchVars, pc, mail, heap, geometry, world, polls, odd, rebuilt>>

(* The whole list of one request. *)
IsWhole(list) ==
  \E b \in Numbers : heap[b].used # "no" /\ list = [i \in 1..heap[b].size |-> b]

IsRequested(list) == IsWhole(list) /\ list # << >>

(* free(pollindex), which does nothing for a null pointer. *)
EndCollect ==
  /\ At("copy") /\ Len(copied) >= mail.pollsize
  /\ LET b == mail.pollindex IN
     IF b = 0 \/ Readable(b)
     THEN /\ heap' = [c \in Numbers |-> IF c = b THEN [heap[c] EXCEPT !.used = "freed"] ELSE heap[c]]
          /\ polls' = copied /\ odd' = (odd \/ ~ IsRequested(copied))
          /\ Goes("sweep")
          /\ UNCHANGED wild
     ELSE wild' = TRUE /\ UNCHANGED <<heap, polls, odd, pc>>
  /\ copied' = << >>
  /\ UNCHANGED <<handlerVars, patchVars, mail, geometry, world, rebuilt>>

AfterFrame_ignoresDone == "idle"
AfterFrame == IF mail.done = 1 THEN "terminated" ELSE "idle"

(* The sweep; then done = [oscer getDone], and update:. *)
EndFrame ==
  /\ At("sweep") /\ polls # << >>
  /\ Goes(AfterFrame)
  /\ ReadsOnly /\ UNCHANGED worldVars

(* The sweep raises: always for an empty poll list, and it may whenever a   *)
(* list was installed that was not requested, since that may leave pollIndex*)
(* beyond a shorter list (FxView has the details).  done is not looked at.  *)
CutShort ==
  /\ At("sweep") /\ odd
  /\ Goes("idle")
  /\ ReadsOnly /\ UNCHANGED worldVars

-----------------------------------------------------------------------------
Server == Handle \/ Store

Render ==
  \/ FirstPatch \/ SecondPatch \/ StrayPatch \/ Command
  \/ TestReset \/ TestKind \/ ReadGeometry \/ Rebuild \/ Reweigh \/ ResetDone
  \/ TestCell \/ TakeCell \/ TestPoll \/ BeginCollect \/ CopyEntry \/ EndCollect
  \/ EndFrame \/ CutShort

Next == (Server \/ Render) /\ UNCHANGED setting

Spec == Init /\ [][Next]_vars

(* A handler that has begun goes on, and the timer repeats. *)
FairSpec == Spec /\ WF_vars(Store /\ UNCHANGED setting) /\ WF_vars(Render /\ UNCHANGED setting)

-----------------------------------------------------------------------------
(* Types; and however handlers and frames interleave, a reset request       *)
(* builds at most one world, a frame that finds none pending none.          *)
TypeOK ==
  /\ unsent \subseteq setting.requests /\ last \in 0..Cardinality(setting.requests)
  /\ mail \in [reset : Nat, geometry : 0..last, weights : 0..last,
               setpoll : 0..1, pollsize : Nat, pollindex : 0..last, done : 0..1,
               patch : Nat, cmd : 0..last, setcell : 0..1]
  /\ chosen \in PatchNumbers /\ patches \in [PatchNumbers -> 0..last]
  /\ \A b \in Numbers : heap[b].used \in {"no", "live", "freed"} /\ heap[b].written <= heap[b].size
  /\ geometry \in 0..last /\ world.geometry \in 0..last /\ world.weights \in 0..last
  /\ copied \in Seq(-1..last) /\ polls \in Seq(-1..last)
  /\ odd \in BOOLEAN /\ wild \in BOOLEAN
  /\ latest \in [Lasting -> [number : 0..last, arg : Nat, alone : BOOLEAN]]
  /\ asked \in Nat /\ rebuilt \in 0..asked

Quiet == pc = "idle" /\ job = << >> /\ ~ wild

LastWorld == latest["/fx/world"]
LastPatch == latest["/fx/patch"]
LastPoll == latest["/fx/poll"]

Served ==
  /\ LastWorld.arg = 1 => world = [geometry |-> LastWorld.number, weights |-> LastWorld.number]
  /\ LastWorld.arg = 2 => world.weights = LastWorld.number

(* "0 - no action, 1 - reset world, 2 - change weights": between frames,    *)
(* when no request waits, the last one is in force: its world was built, or *)
(* its weights are used.                                                    *)
RequestsInForce == Quiet /\ mail.reset = 0 => Served

LastCommandApplied == LastPatch.number # 0 => patches[LastPatch.arg] = LastPatch.number

(* If no frame overlapped the handler of the last /fx/world request, that   *)
(* is so of it, and if none overlapped that of the last /fx/patch request,  *)
(* a frame past setPatch has applied that command, to its own patch and no  *)
(* other: whatever handlers raced with frames before, and whatever others   *)
(* do now.  It says so of the last request only.  One that another follows  *)
(* before a frame is lost, also a rebuild that a change of weights follows. *)
InForceIfAlone ==
  /\ LastWorld.alone => RequestsInForce
  /\ LastPatch.alone /\ LastPatch.number # 0 =>
       /\ \A p \in PatchNumbers : patches[p] = LastPatch.number => p = LastPatch.arg
       /\ pc \notin {"idle", "patch1", "command"} => LastCommandApplied

(* The list of request b, but for the int stored past its block, which may  *)
(* have been overwritten.                                                   *)
IsListOf(list, b, size) ==
  /\ Len(list) = size
  /\ \A i \in 1..size : list[i] = b \/ (i = size /\ ~ setting.roomy /\ list[i] = Clobbered)

(* If no frame overlapped the handler of the last /fx/poll request, its     *)
(* list is the one installed once it was taken, whatever poll handlers and  *)
(* frames did to each other before; and it is the last such request, or the *)
(* last patch command, whose handler overlaps a frame when freed or null    *)
(* memory is used.                                                          *)
PollsCompleteIfAlone ==
  /\ LastPoll.alone /\ LastPoll.number # 0 /\ Quiet /\ mail.setpoll = 0 =>
       IsListOf(polls, LastPoll.number, LastPoll.arg)
  /\ wild => ~ LastPoll.alone \/ ~ LastPatch.alone

(* Whatever a request interrupts, none stays pending: a quit request is     *)
(* seen by a frame, unless a torn poll list makes the frames raise, a reset *)
(* is taken, a cell request too, and the last patch command reaches its     *)
(* patch, for if it was torn the next frame applies it again.               *)
NothingStaysPending ==
  /\ mail.done = 1 ~> (pc = "terminated" \/ wild \/ odd)
  /\ mail.reset > 0 ~> (mail.reset = 0 \/ wild \/ pc = "terminated")
  /\ mail.setcell = 1 ~> (mail.setcell = 0 \/ wild \/ pc = "terminated")
  /\ LastPatch.number # 0 ~> (LastCommandApplied \/ wild \/ pc = "terminated")
============================================================================
