# Fx3D in TLA+

Fx3D is a live audio-visual instrument: a Cocoa program (`src/Visual`) that runs a
three-dimensional cellular automaton, draws it with OpenGL and talks Open Sound
Control with SuperCollider programs (`src/Audio`). This directory holds
specifications of the Cocoa program and of the OSC library vendored with it
(`src/Visual/lo`, liblo), the TLC configurations that check them, and the proofs that
TLAPS checks.

## 1. Inventory

Two threads share one process.

```
 SuperCollider --UDP--> socket -> liblo server thread -> handlers -> globals of FxOSC.m
                                                                         |
 NSTimer (18 Hz) -> update: -> drawFrame -> drawCells  <----- reads -----+
        ^                          |  sweeps FxWorld, its Cells; draws with FxDraw
        +---- done? terminate      +--UDP--> /fx/globals /fx/states /fx/renew /fx/trigger
```

| Component | State | Operations | Talks to |
|---|---|---|---|
| Render thread: `FxView.m`, `main.m` | `phase` (the clock), `frameRateRatio`, `renew`, `enableMessage`, `done`, the locals of `drawCells` | `update:`, `drawFrame`, `drawCells`, `initWorld`, `resetWorld` | reads the mailbox, steps the world, sends reports |
| World and cells: `FxWorld.m`, `Cell.m` | cells (state, lastState, velocity, phase), weights, `pollIndices`, `pollIndex` | `init`, `initCells`, `prepareNext`, `next::`, `next:::`, `updatePhase`, `setPollIndices:`, `nextPollIndex`, `dealloc` | called by the render thread |
| Geometry: `Habitat.m`, `Seeds.m`, `fxutil.c`, `setHabitat` | neighbour offsets, seed places | `initMoore:`, `initNeumann:`, `wireCube`, `randCube`, `wrapi` | builds a world |
| Mailbox: `FxOSC.m` | some fifty plain globals: `reset` and its words, `setpoll` and a malloc'ed block, `setcell`, patch commands, settings, `done` | seven handlers; getters, `getPollIndices`, `resetDone`, `setPatch` | handlers on the server's thread, getters on the render thread |
| OSC server: `lo/server.c`, `server_thread.c`, `timetag.c` | socket, `addr`, `queued`, methods, `active` | new, free, start, stop, recv, recv_noblock, dispatch_data, queue_data, dispatch_queued, dispatch_method | calls the handlers |
| OSC data: `lo/message.c`, `bundle.c`, `blob.c` | type tags, data, argv, the messages of a bundle | add, get argv, serialise, deserialise, validate, free | server and sender |
| OSC sending: `lo/send.c`, `address.c`, the sockets of `server.c` | socket, protocol and errnum of an address; `lo_client_sockets` | new, send, free; search for a port | the reports |
| Drawing: `FxDraw.m`, `Patch.m` | ten patches with their parameters | `drawCell`, `mapValues` | called per cell |

What is hard here:

- **No synchronisation.** The handlers store word by word what the render thread reads
  word by word. Requests can be lost, torn, or arrive while they are being served.
- **Exceptions.** An `objectAtIndex:` out of bounds leaves `drawCells` and `update:`; the
  timer discards the exception and fires again. Whatever the frame had done stays done and
  the rest, including the test of `done`, does not happen.
- **State that outlives its context.** The poll index survives its list, the list survives
  its world, the clock survives its ratio, the source address survives its datagram.
- **Time.** liblo queues bundles for later, waits for the next event or the next datagram,
  and must be stoppable meanwhile; its difference of time tags is wrong by a factor.
- **Bytes that are trusted.** A datagram's own sizes say where its arguments are; they are
  checked once, in network order, and walked later in host order by code that checks nothing.
- **Names that come back.** A descriptor that was closed is handed out again, and so is a
  method's or a message's memory: whoever closes or frees twice hits another object.
- **In-place computation.** A generation is computed cell by cell in the array that is
  also read, sampled, searched for its maximum and drawn.

What makes each component correct: the sweep is a synchronous automaton, all of it in every
frame; reports hold what the frame computed; the clock never misses its ratio; a reset frees
nothing in use; a request that arrives takes effect once; quit is obeyed; neighbourhoods are
mutual and wrap; the queue is in order, complete and handled in the end, and never while the
thread is stopped; a message arrives as the list of values it was built from, or not at all;
a socket has one owner. The hazards behind these, each at its line, are in `PROJECT.json`.

## 2. Modules

| Module | Models | Its variables and actions in the code |
|---|---|---|
| `Cell` | `Cell.m`, `wrapf` | operators only: `NextState`, `Velocity`, `NextPhase` |
| `Automaton` | the promise of a world | `gen`, `habitat`; `Generation` steps all cells at once, `Restart` replaces the world |
| `FxView` | `drawCells` with `resetWorld`, `FxWorld.m`, `update:` | one action per decision at the head of a frame (`ResetWorld`, `ReplaceWeights`, `ReplacePolls`, ...), `BeginGeneration` / `BeginInterpolation` for the clock, `VisitCell` / `VisitRaises` per cell, `FinishFrame`. `clock` is the member `phase`, `ratio` is `frameRateRatio`, `messaging` is `enableMessage`, `quit` is the global `done` |
| `FxViewProofs` | theorems about `FxView` | |
| `CellSpace` | geometry | `Reset` builds any world that a request can ask for |
| `CellSpaceProofs` | theorems about `CellSpace` | |
| `FxOSC` | the mailbox | `Handle` starts a handler, `Store` is its next store; `FirstPatch`, `SecondPatch`, `StrayPatch`, `Command` (`setPatch`), `TestReset`, `TestKind`, `ReadGeometry`, `Rebuild`, `Reweigh`, `ResetDone`, `TestCell`, `TakeCell`, `TestPoll`, `BeginCollect`, `CopyEntry`, `EndCollect`, `EndFrame` are the render thread's reads in program order |
| `FxOSCProofs` | theorems about `FxOSC` | |
| `OscArgs` | the promise of a message | `args`, the typed values of every message; added to, copied when one arrives, freed |
| `LoWire` | the layout of OSC data, its validation and byte order | operators only: `Padded` is `lo_strsize`, `ArgSize` is `lo_arg_size`, `ValidString` ... `ValidBundle` are `lo_validate_...`, `Swap` is `lo_arg_host_endian` and `lo_arg_network_endian` |
| `LoMessage` | messages, bundles, blobs | `heap` holds `_lo_message` records, `bundle` one `_lo_bundle`; `Add`, `AddVarargs`, `GetArgv`, `Receive` (serialise, then deserialise elsewhere), `BundleAdd`, `BundleFreeMessages` the functions of the same name |
| `LoMessageProofs` | theorems about `LoMessage` and `LoWire` | |
| `LoSend` | the sockets of addresses and servers | `fd` is the process's table of descriptors, `addr` and `srv` the objects, `shared` is `lo_client_sockets`, `call` where a send or a new server is and the socket it has. `Send` is `send_data` up to the choice of a socket, `CreateSocket`, `SocketFails`, `Connects` and `ConnectFails` are `create_socket`, `Transmit` the rest; `ServerNew`, `OpenServer`, `PortInUse`, `Bound`, `CannotOpen` and `BindFails` are the loop that looks for a port and its ends |
| `LoSendProofs` | theorems about `LoSend` | |
| `LoServer` | liblo's server and thread | `thread` is the place in `thread_func` / `lo_server_recv_noblock` / `lo_server_recv`; `Start`, `Stop`, `Join`, `Free` are the owner's calls. The elements of a bundle and the messages of one `dispatch_queued` are steps of their own, with `local` what the call that runs keeps in its variables |
| `LoServerProofs` | theorems about `LoServer` | |
| `LoDispatch` | the methods of a liblo server and `dispatch_method` | `first`, `next`, `method` are the list and its cells; `AddMethod`, `DelMethod` the calls of the same name; `Receive`, `Skip`, `Call`, `Return`, `EndWalk`, `Enumerate` one `dispatch_method`, step by step, with `it`, `ret`, `argv` its locals |
| `LoMethods` | the table of methods that `lo.h` describes | `methods`, added at the end and deleted by path and types |
| `LoPattern` | `lo_pattern_match` | operators only: `Match`, which has for each place of the pattern the places of the string at which the matcher succeeds from there, and `StandsFor`, what a pattern means |
| `LoDispatchProofs` | theorems about `LoDispatch`, `LoMethods` and `LoPattern` | |
| `LeastNumber` | induction over numbers, as theorems about sets of them | no code: used by the proofs |
| `MC...` | instances for TLC | values of the constants only |

`FxView` uses `Cell` and implements `Automaton` (the property `ImplementsAutomaton`, with
`gen` mapped to the last completed generation). `FxView` reads requests as arbitrary
members of sets; `FxOSC` has the writer of these requests and the races between the two;
`CellSpace` shows that the worlds `FxView` is given as constants are those the code builds.
`LoServer` calls a handler for each message; `LoDispatch` has what is behind such a call: it
implements `LoMethods` (the property `ImplementsMethodTable`, with `methods` mapped to the
list that the pointers make) and matches paths with `LoPattern`. What the server validates and hands on is what
`LoMessage` deserialises, with `LoWire`; it implements `OscArgs` (the property `ImplementsArgs`, with `args` mapped to what a reader finds along `argv`). The
socket `LoServer` reads from is one of those of `LoSend`.

Operators named `X_deviation`, next to an operator `X`, are `X` with a mistake that one
could make in that line. No action uses them; they are there to show that each property
fails when the code is wrong in that way.

### Abstractions

- *Floats* are integers in units of `1/One`; quotients are rounded down to that grid; one
  value `NaN` stands for all that is not finite. The properties use order, range and
  equality of values only. OpenGL state and the sums of `/fx/globals` are left out.
- *The world* is numbered in sweep order; neighbourhoods and seeds are constants.
- *Exceptions* are modelled as what they skip (`Abort`).
- *Use of freed or null memory* ends the run: `crashed` in `FxView`, `wild` in `FxOSC`.
- *A patch command* in `FxOSC` is two words, the patch and the rest; `cmd` and `value` are read at
  once. Of a patch only the last command applied is kept.
- *A world request* in `FxOSC` is two words (geometry, weights), named by its number: two words
  are enough to tear it. Its seed lies in the world; `FxView` has those that do not. A
  poll list's entries, three ints, are copied as one. `poll_handler` stores the last int
  just past its block: whether it survives there is `roomy` in a `Setting`, which also
  says what is sent. Handlers interleave with frames freely. `latest` notes, for the
  properties, the last request of each path and whether a frame overlapped its handler.
- *Reference counts*: `FxView` counts those of the world object; `FxWorld -dealloc`
  releases more than it owns, so that what is left after it is only known as freed.
- *liblo*'s server loop is modelled for UDP, as the program uses it; the sockets in `LoSend`
  are of all protocols. Handlers are opaque calls. Errors of
  `poll`, `recvfrom`, `getnameinfo` and `malloc` are left out. The 100 seconds reported for
  an empty queue are anything longer than the 10 seconds of a wait.
- *A method* is a heap cell; cells are not used again, and one that is freed loses its
  record, so that a walk that reached it would have nothing to read. A handler may add
  methods and delete others than its own: deleting its own would leave the walk with a
  freed cell, and is what a user of the library must not do. A handler's result is 0, 1 or
  2, which stands for everything else. Of arguments only their types and whether there
  is an array of them is kept. Patterns are well-formed, have no empty alternatives, and no
  alternative that begins another.
- *Memory* in `LoMessage` is a sequence of bytes with a capacity, and a pointer into it is an
  offset. A `realloc` that moves a block is not seen as such: what matters is that `argv` is
  dropped with every change, and that nothing is written beyond a capacity (`TypeOK`). A char
  is stored with the other bytes of its union, which are not set: they are part of its value
  and any bytes. A blob has at least one byte, since `lo_blob_new` makes no empty one. A
  message is serialised into a new block, whose bytes are zero. `qsort`, in
  `lo_bundle_free_messages`, is what it promises: an arrangement in order (`Sorted`). Sizes of blobs and elements
  stay below 2^16 when built; when read they are whole words.
- *The kernel* in `LoSend` gives the lowest free descriptor. Whether a name resolves, a port
  is free, a peer accepts or a message gets through is decided at each call; all error
  numbers are one. An address that has no socket gets one with its first message; whether it
  was resolved before does not matter then, since resolving opens nothing. One thread makes the
  calls, which go from one system call to the next; a server's thread accepts streams between
  any two of these steps. Two threads that call at once (one frees a server whose
  socket another has chosen at `send.c:366` and uses at 389) are left out.

## 3. Runs

| Run | Question | Result |
|---|---|---|
| `view` | well-formed requests of every kind, at every frame and during frames; fairness of the timer | types; the clock is never beyond its ratio; every sweep completes; the report is what the frame computed; the trigger names the loudest cell; resets free nothing in use; cells stay in range; the automaton is implemented; quit ends the program and generations go on |
| `view_hostile` | unsorted, out-of-world and empty poll lists, seeds outside, a patch that needs more neighbours than there are, frame rates -1 and 0, weights that sum to zero | a poll value is never another cell's; a sound list is in step again after one message frame; a frame rate below 1 is never repaired; cells that are not finite stay so until a new world, or until a generation is cut short |
| `space` | every radius, kind, seed shape and area | neighbourhoods are mutual, a Moore neighbourhood that fits is the ball, a von Neumann one the six faces whatever radius was asked for, the wire cube is a shell, the random cube all of its area, the default poll list is in sweep order |
| `osc` | handlers and frames interleaved store by store; all settings are initial states of one run | the last world, patch or poll request, if no frame overlapped its own handler, is in force or its list whole, whatever raced before; freed memory is used only when a frame overlapped the last poll or patch handler. A reset builds at most one world, none stays pending, quit is seen unless a torn poll list makes the frames raise, and the last patch command reaches its patch, which the next frame repairs if it was torn. Requests before the last are not promised: a rebuild that a change of weights follows before a frame is lost (section 6) |
| `osc_lost` | is a served request in force? | **no**: torn or cleared unserved |
| `lo_server` | packets in any order and time, stop, restart and free; fairness of the thread and the clock | queue in order, every message once, bundles unbroken, none early by the server's own reckoning, no callback while stopped; queued messages are handled in the end although the scaled time runs backwards, stop returns |
| `lo_early` | is a message handled no earlier than its time tag? | **no**: fractions count four times |
| `lo_source` | is the source the sender? | **no** for queued messages |
| `lo_dispatch` | methods added and deleted between messages and by handlers; plain paths and patterns with every kind of part | the list is the table of `lo.h`; every method that wants a message is called, once, in order and while it is in the list, up to the first that takes a plain path; an enumeration names each path below once |
| `lo_argv` | does each handler get the arguments? | **no** after a coerced call |
| `lo_message` | every class of argument added one by one and as lists, unknown types and a missing symbol in between; messages between hosts of either byte order, with any byte damaged, cut at any place; bundles in which a message occurs again | capacities suffice; `argv` is never of an earlier state; only whole messages are accepted, and no accepted one leads a reader outside its data; a bundle's elements arrive in order; messages are freed once; lists of values are implemented |
| `lo_send` | addresses and servers of three protocols made, used and freed in any order, one system call after another, each failing where it may, with streams accepted in between | after every system call: errnum tells of the last send; no descriptor has two owners or is used after it was closed; the shared socket is a running server's; nothing stays open but what busy ports and accepted streams leave |

The four negative runs are disagreements between the code and what its comments and headers
say; `PROJECT.json` quotes them under "findings".

### Bounds

- `view`: three cells, two neighbourhoods (one shorter than the weights, so that the plain
  mean is used), two poll lists of different length besides the default one, rates 1, 2
  and 3 and `ClockCap` = 4, above all of them. Three is the least at which a cell has a
  predecessor and a successor in the sweep that are both its neighbours, and at which a
  poll list can skip a cell. `One` = 2 has 0, 1/2 and 1, and sums that wrap. In
  `view_hostile` `ClockCap` = 3 stops the count of a clock that has passed its ratio;
  from there on only its being beyond matters.
- `space`: a torus of 4; radius 1 fits, 2 wraps around it and meets cells twice, 0 and -1
  are what a request may also say. Areas of thickness 0, 1 and 3 and one partly outside.
- `osc`: five settings. A rebuild, a change of weights, a poll list and quit; two poll lists and a
  rebuild, without room past the blocks; commands for two of the eleven patches with a cell
  request, a change of weights and quit; and poll lists of no entry and one with quit and a
  world request that says 0, with room and without. Each request comes once, in any order, at
  any step of a frame: it can meet one of its own kind and one of another. Two patches are the
  least at which a command can reach the wrong one, or none; lists of no entry and one are
  the least, where the loop that counts from 1 stores past its end at once. `osc_lost` has
  the first setting.
- `lo_server`: two bundles for one time, one of them with a bad element in third place, and
  a bundle for a later time that the scaled difference puts earlier; a buffer of two, so
  that a third datagram is lost; two starts; nine ticks of a third of a second, in which the
  scaled time runs backwards twice, the clock passes every time tag, and every wait ends.
  Between two elements of a bundle, and between two messages taken from the queue, the clock
  may tick, datagrams arrive and the owner stop the thread.
  `lo_early` and `lo_source` have a plain message besides.
- `lo_dispatch`: three methods in all, on three paths of which one lies below another, or on
  all paths, for all types or for floats: a head, a method in the middle and a last one, any
  two of them in a row deleted. Ten messages: plain paths, enumerations at two depths, with
  and without an integer, a pattern for each kind of part, a star before a
  literal, a set and the end among them, and a pattern that ends with a slash. `StandsFor` is computed from sets of strings as long
  as the longest path.
- `lo_message`: two messages at a time on three places, two of a little-endian and one of a
  big-endian host, with two arguments in all; one argument of each class (four bytes, eight
  bytes, string, blob, none) and three lists, with an unknown type, an empty string, a char,
  a time tag, and a symbol for which no argument was given. Lengths are on both sides of a multiple of four. The first
  capacities are 2, 8 and 2 instead of 8, 8 and 4, so that each block grows with one or two
  additions, and a bundle has up to three messages, of which two are the same: the least at
  which the sort of `lo_bundle_free_messages` matters. A damaged byte is 0 or the tag `b`,
  which turn lengths, padding and types into others; cutting is tried at every byte.
- `lo_send`: two addresses, two servers, four descriptors and three attempts at a port instead
  of 17: two attempts can fail before one succeeds, all descriptors can be in use, and one
  that was closed can come back as each kind of socket. Addresses are interchangeable, and
  so are servers (`Symmetry`); the properties name none of them.

Deadlock is not checked where the system may stop: the program terminates or crashes, the
owner frees the server, the requests are used up.

### Fairness

- `FxView`: weak fairness of the render thread's steps. The timer repeats, and an exception
  does not unschedule it. `/fx/cell` raises before the clock every time, so quit and
  generations are promised if such requests do not come in every frame for ever
  (`RequestsPause`). Nothing is assumed of the handlers.
- `FxOSC`: weak fairness of a handler that has begun and of the render thread. That a
  request arrives is never assumed.
- `LoMessage`, `LoSend` and `LoDispatch` promise nothing that must happen: no fairness.
- `LoServer`: weak fairness of the clock, of the thread, and of a `pthread_join` that can
  return. That packets arrive, or that the owner stops the thread, is not assumed.

## 4. Proofs

`FxViewProofs` is about `Spec` of `FxView` for every value of the constants that satisfies
`ViewAssumption`: any number of cells, any neighbourhoods, any requests.

| Theorem | Further assumption | Says |
|---|---|---|
| `ClockNeverMissesItsRatio` | rates of at least 1 | `[]ClockBounded` |
| `ResetsFreeNothingInUse` | seeds inside the world | `[]NothingFreed` |
| `EverySweepCompletes` | well-formed poll lists and worlds | `[]SweepCompletes` |
| `ReportsAreTruthful` | the same | `[]ReportTruthful` |
| `SweepImplementsAutomaton` | the same | `Spec => ImplementsAutomaton` |
| `ValuesStayInUnit` | rates of at least 1; seeds in the unit, neighbours, weights of which none is negative and one positive (`GoodRule`) | `[]TypeOK` |
| `TriggersAreLoudest` | the same | `[]TriggerIsLoudest` |
| `PollsAreNotMisattributed` | none | `[]NoMisattribution` |
| `PollIndexHeals` | none | `[]PollsHeal` |
| `DamageLastsUntilReset` | every cell is some cell's neighbour (`NoCellUnseen`) | `Spec => DamageLasts` |

The argument. `Typing` gives the types of the frame's state. `ClockBounded` is inductive
with them. For the sweep, neither property is: that cell `at` does not raise depends on
where the poll index stands, and that on every cell before. `PollInv` says so: `Frontier`
(in a sweep that collects, the entries before `pollIndex` are of cells already visited and
all others of cells still to come, unless the index has wrapped after the last one;
otherwise the index is 0) and `Collected` (the entries before the frontier hold the phases of
their cells). `FrontierMoves` is the step from one cell to the next, where the order of a
well-formed list is used; `NothingRaises` gives `SweepCompletes`, and at the end of the
sweep the frontier has wrapped, which gives `ReportTruthful`. `WorldInv` says that the
habitat in use is one a request named and that the world always has two
references. For the refinement, `GenInv` says that during a sweep that renews, the
cells before `at` hold the rule applied to `lastState` and the others still `lastState`; the
abstract `Generation` is then the last cell's step out of the sweep, `FinishFrame`, and every
other step stutters or restarts.

`ValueInv` has the values: a weighted mean of values of the unit lies in it (`Total` is the
sum as a recursive function; that it is there, and its bounds, go by induction over the
neighbours summed), and the rule keeps a cell there. `LoudInv` says which cell `loudest` is among
those before `at`, `SampleInv` which cell each entry of the blob is a phase of, and `HealInv`
that in a frame with a message the entry at the index, of a list in sweep order, is of a cell still to
come, unless the index has wrapped. The last two need nothing of the
lists that arrive. `DamageLasts` is about single steps: `RateStep` has the rates, and `PoisonStep` the cells that are not finite, which spoil their neighbours' next states.

`CellSpaceProofs` is about `Spec` of `CellSpace` for every size from 4 up (below, the grid of
the default poll list has step 0) and any radii and areas.

| Theorem | Says |
|---|---|
| `NeighboursAreMutual` | `[]Mutual` |
| `WorldsAreAsAskedFor` | `[]AsAskedFor` |
| `PollsFollowTheSweep` | `[]PollsInSweepOrder` |

The argument. `BuiltAsAsked` says of the last world built which offsets, seed and polls it has. The
offsets of either kind come with their opposites (`OffsetsSymmetric`), and going by an
offset and its opposite leads back around the torus, so that counting them gives `MutualOf`.
Poll entries and offsets are numbered loops in the code: `Division` and `DigitsAre`
find the three coordinates of a number, from which `BallOf` and `PollsSorted` follow. `NoBall`
has the Moore request of negative radius, whose loops do not run; `CrossOf` the von Neumann
one, for which `FacesAre` finds the coordinate that moves; `ShellOf` and `BoxOf` the seeds.

`FxOSCProofs` is about `Spec` of `FxOSC` for any settings: any requests, handlers and frames
interleaved in any way, room past the block or none.

| Theorem | Further assumption | Says |
|---|---|---|
| `ResetsAreServedOnce` | none | `[]TypeOK` |
| `PollListsStayWhole` | patches that exist (`GoodPatches`) | `[]PollsCompleteIfAlone` |
| `RequestsComeIntoForce` | the same | `[]InForceIfAlone` |

The argument. That no more worlds are built than resets were asked for depends on every place
where a reset is still on its way: `TypeInv` counts the stores that a handler still owes
(`Owed`), the flag, and the frame that has tested it (`Pending`). The two others say that races
do not last: whatever earlier handlers and frames did to each other, a request whose own
handler no frame overlapped puts the mailbox right. `AloneInv` joins one part for each of the
three paths (`WorldInv`, `PatchInv`, `PollInv`): if no frame has overlapped the last request's
handler, and that handler is done, the words are all of that request (`WorldWhole`,
`PatchWhole`, `PollWhole`), and so is what the frame has taken of them at each of its places
(`FrameReset`, `FramePatch`, `FramePoll`). `Partly` says what the words before a handler's next
store are, as long as no frame has begun; of one that a frame overlaps nothing is
claimed. `WildInv` has the use of freed memory. `GoodPatches` is needed: a patch number outside
0..10 goes to an uninitialised pointer (section 6).

`LoServerProofs` is about `Spec` of `LoServer` for any packets, senders, times and sizes. Its
one assumption about packets is that messages are told apart whatever they
say (`MessagesDiffer`).

| Theorem | Says |
|---|---|
| `QueueInOrder` | `[]TypeOK` |
| `HandledExactlyOnce` | `[]ExactlyOnce` |
| `BundlesStayWhole` | `[]BundleAtomic` |
| `NothingIsEarly` | `[]NotEarly` |
| `NeverCalledBackWhenStopped` | `Spec => NoCallbackWhenStopped` |

The argument. `Inv` joins `Types` and `Control` (which place of the thread goes with which
place of the owner, and what `local` then has), `SentOnce` and `TakenOnce` (a packet is read
once, so that no element is taken twice), `Once` (what was taken is in the queue or handled,
not both, and in one place), `FromPackets`, `QueueOrdered`, `QueuedTogether` and
`HandledTogether`, and `Timely`. `BundleAtomic` is what needs most of them: that nothing comes between two
messages of a bundle in the queue depends on the queue's order by the scaled difference of
times, on equal times keeping their order of arrival, and, while the bundle is being taken, on
where its last element went.

`LoMessageProofs` is about `Spec` of `LoMessage`, and so the layout of `LoWire`, for any
arguments that C can pass (`GoodArguments`: of the length of their type, strings
without NUL), and any paths and bytes (`GoodBytes`), hosts of either order, first capacities, and
numbers of messages.

| Theorem | Further assumption | Says |
|---|---|---|
| `MessagesStaySound` | none | `[]MessageInv` |
| `PointersStayInside` | none | `[]TypeOK` |
| `ArgvStaysCurrent` | none | `[]ArgvCurrent` |
| `DamageIsContained` | none | `[]DamageStaysInside` |
| `WholeMessagesOnly` | no blob above `LO_MAX_MSG_SIZE`, paths without NUL, `None` is no message | `[]OnlyWholeAccepted` |
| `MessagesAreFreedOnce` | none | `[]FreedOnce` |
| `BundlesArrive` | as `WholeMessagesOnly`, and `None` is no buffer | `[]BundleArrives` |
| `MessagesAreLists` | as `WholeMessagesOnly`, and `None` is no list | `Spec => ImplementsArgs` |

The argument. Everything rests on one notion, `Run`: arguments of given types lie one after another
in a buffer from an offset on, each of the size that its bytes say in a given byte order. A run
determines its offsets (`RunIsOffsets`), so that a message whose data are a run to their end is read
inside them (`Sound`; `MessageInv` says it of every message). Adding an argument extends a run
(`RunExtends`); a datagram that was validated is one in network order (`FromWire`), whatever it
was before it was damaged; and swapping the arguments, one after another, makes a run of one order
a run of the other (`SwapRun`), which is why sizes checked before the conversion hold
after it. `OnlyWholeAccepted` has two sides: what was sent is taken (`WholeAccepted`; `MessagesFit` says
that what validation asks for is there), and a proper beginning or extension is not (`NoneIsCutShort`), since its types still ask
for all of the data. The limit on blobs is real: a longer one is sent, and
refused by every receiver. For `BundleArrives`, swapping the arguments of
a run twice gives the same bytes (`SwapTwice`), so that a message that is read on a host of the sender's order
is the one that was sent (`RoundTrip`); and a bundle is written element by
element (`Writes`), each element staying where it is when more are written (`WritesOn`), so that the receiver, who goes from size to size, comes by
every place where one was begun and ends where the last one does (`BundleWalk`): he has a step for every four bytes, and an element has more.
That lo_bundle_length adds up what is written (`LengthIsWritten`) is why the serialisation does not
fail, and that the messages are there (`ItemsLive`) holds because a program frees none while it has a bundle.
For `FreedOnce`, a sorted list has equal messages side by side (`Groups`);
that a list can be sorted goes by insertion.
The refinement maps `Contents`, the values that are read along each message, to `args`: an addition is
`AppendArgs`, `Receive` is `Arrives`, and reading and bundling stutter (`ListsStep`). The value of an
argument depends on no byte but its own (`ValueOwn`), so that what is added leaves those before it as
they were (`ReadsOneMore`), and is itself read as it was given (`ValueArg`). When sender and receiver are of
different order, each swaps or leaves alone what the other does not, and an argument arrives
with its first word or two from behind (`ArgFlips`); read in the other order that is the same value
(`FlippedValue`), but for the exchanged words of an int64 or double and for the four bytes of a char,
which is what `Portable` leaves open.

`LoSendProofs` is about `Spec` of `LoSend` for any sets of addresses and servers, any finite
set of descriptors and any number of attempts (`SendAssumption`).

| Theorem | Says |
|---|---|
| `SocketsAreOwned` | `[]NoDescriptorTwice` |
| `SharedSocketIsLive` | `[]SharedIsLive` |
| `OnlyKnownLeaks` | `[]NothingElseOpen` |
| `ErrnumIsOfTheLastSend` | `[]TypeOK` |

The argument. None of them is inductive: that a close does no harm depends on
the descriptor having one owner, that a new descriptor has none depends on every
owner's being open, and that the shared socket survives the freeing of another server depends on
servers' having different ones. So the holders are taken together: `Sockets` and `Purposes` are
functions over all addresses, servers and servers in the making, and `Kept` says of any such
functions that each holder's descriptor is open for its purpose, was not dropped and is no
other's, and that what is open is held or was dropped. What system calls do to `Kept` is said
once, with no action in sight: `Closing`, `Opening`, `Dropping` (a socket that an attempt leaves
behind), `Straying` (an accepted stream) and `Moving` (a socket that passes from the making of
a server to the server). `Inv` joins `Kept`, `Objects` (types), `CallFits` (the call in progress
fits its object) and `SharedIsLive`. There is one lemma per action; those that fail before there
is a socket share `FailuresPreserve`, those that only go on to the next system call
`CallsPreserve` and `AttemptsPreserve`, and the ends of a send, in `ConnectFails` and
`Transmit`, share `EndsPreserve`.

`LoDispatchProofs` is about `Spec` of `LoDispatch` for any paths, typespecs, messages,
deletions and number of methods (`DispatchAssumption`: paths and messages are strings of the
alphabet, and a path of a method has none of a pattern's characters; without such a path
`lo_server_add_method` would have refused).

| Theorem | Further assumption | Says |
|---|---|---|
| `TypesAreKept` | none | `[]TypeOK` |
| `RepliesAreRight` | none | `Spec => RepliesAreTruthful` |
| `MatchesAreCalled` | `MatchAgrees` | `[]EachMatchOnceInOrder` |
| `PointersImplementTable` | `MatchAgrees` | `Spec => ImplementsMethodTable` |
| `WithoutListsAgree` | a pattern of plain characters, `?` and `*` | `Match(s, p) <=> StandsFor(p, s)` |
| `WildcardsAgree` | all patterns in use are such (`WildcardsOnly`) | `MatchAgrees` |

The argument. None of the properties is inductive: they speak of the list that the pointers
make, and a deletion changes pointers one after another while it walks. `Linked` says what
the pointers are without walking: each goes to the least method above that is there
(`Held`, `Following`), so that they are in the order of their addition, and `ListNow` gives
from it the list as a sequence. A method added goes to the end (`AddKeeps`); for a deletion, an
induction over the walk says that after each step the pointers behind it link what is left,
that those before it are untouched, and that `prev` is the last one left. For the messages,
`Position` has the walk at a method that is there in each place of `dispatch_method`,
`Order` the calls in ascending order and before the walk, and `Reached` that each method which takes
the message was called, is ahead, or comes after the one that took it; a handler that adds a
method adds it ahead, one that deletes leaves its own, so that `it` stays linked. The refinement maps
`Kept` to `methods`: `Add` is `AddNewest`, `Delete` is `RemoveAll`, and the rest stutter.
`RepliesAreRight` goes by induction over the list, name by name.

`MatchAgrees` says that the matcher answers what the pattern stands for, on the patterns and
paths in use. It is a hypothesis of the two theorems and not assumed of the constants, because it is about code:
`lo_pattern_match` is wrong for some brace lists (section 6). It is proved where patterns have
no sets and no brace lists, for patterns and strings of any length (`WithoutListsAgree`, by
induction from the end of the pattern and from its beginning, which meet). For sets and brace lists it depends on
the pattern, and `lo_dispatch` has it for those of the instance.

Induction. The library's induction theorems take an operator, which these provers cannot
instantiate. `LeastNumber` has the same as a fact about sets: a set of numbers that is not
empty has a least element (`LeastElement`), one that has 0 and with each number the next has them
all (`AllNumbers`), and a function that is defined by recursion over numbers exists and satisfies
its equation (`Repetition`). What a recursive function of a model computes is proved with these.
Where a proof needed it, the model is written with such functions rather than with the folds
of the community modules.

Model-checked only:

- liveness: `FramesGoOn`, `NothingStaysPending`, `QueuedIsHandled` and `StopReturns`. The prover
  treats neither fairness nor ENABLED.
- `MatchAgrees` for patterns with sets or brace lists, of which `lo_dispatch` has one each.

- the four negative runs, which refute.

## 5. Plan

Done: `Cell`, `Automaton`, `FxView`, `FxViewProofs`, `CellSpace`, `FxOSC`, `LoServer`,
`LoPattern`, `LoMethods`, `LoDispatch`, `OscArgs`, `LoWire`, `LoMessage`, `LoSend`,
`LoSendProofs`, `CellSpaceProofs`, `FxOSCProofs`, `LoServerProofs`, `LeastNumber`,
`LoMessageProofs`, `LoDispatchProofs`.

Next, in this order:

1. Proofs: the matcher on sets, and on brace lists of which no alternative begins another.
2. `FxFreeze`: `drawFrame` and its clock, which joins `FxView`'s runs; the dispatch of patches
   in `drawCell`.
3. `FxSystem`: server thread, mailbox and render thread composed; a request from its
   datagram to the frame that serves it.
4. Abstract specifications: a queue of timed messages that `LoServer` implements; a mailbox
   in which a request is served whole, that `FxOSC` implements while no frame overlaps a handler.

## 6. Not modelled

The SuperCollider scripts, the interface and project files, and OpenGL output; the
Objective-C runtime beyond exceptions and the reference counts of the world; in liblo the
printing functions, the text of URLs and host names, the conversions of `lo_coerce`, error
strings, multicast groups, TTL, and allocations that fail.

Met while modelling, and not the subject of a run:

- `pattern_match.c:203`: of the alternatives of a brace list the first that is a prefix of the
  path is taken, and no other is tried: `/{a,ab}` does not match `/ab`. At line 214, a string that
  ends with the alternative is refused when anything follows the list: `/{a,b}*` does not match `/a`.
- `lo_endian.h:94`: `lo_swap64` exchanges the words of a number on big-endian hosts too. Numbers
  of 64 bits sent between hosts of different byte order arrive with their words
  exchanged, against the "correct endianess" of `lo_lowlevel.h:285`; between hosts of
  one order they arrive. The one byte of a char, and a time tag among the arguments, lie
  on the wire where other OSC programs do not look for them. `ImplementsArgs` compares these
  up to that exchange (`Portable`).
- `send.c:116` and `151`: `lo_send_timestamped` and `lo_send_from` test an errnum they have just
  cleared where `lo_send` tests the result of collecting the arguments: a list that does
  not match its types is sent as far as it was collected, and the call succeeds. In `LoSend` that
  is a send like any other. Over TCP, `lo_send_from` sends through a socket that
  listens, and fails; nor is the server's protocol compared with the address's.
- `server.c:298`: the socket of an attempt that finds its port in use is not closed;
  `server.c:479`: nor is an accepted stream. Both are `stray` in `LoSend`.
- `address.c`: an address made from a URL has TTL 0, one made by name -1; a TTL set on the shared
  socket stays for all addresses that use it.
- `message.c:677`: `lo_message_serialise` into a buffer of the caller's that is not zero leaves
  its old bytes after the path and the types, which a receiver refuses as padding.
- `FxOSC.m:325`: `reset` is one word. A change of weights (2) that is handled before a frame has
  taken a rebuild (1) overwrites it, and the world asked for is never built, with no race at
  all. `FxOSC` has this; `InForceIfAlone` promises the last request only.
- `server.c:948` compares with `FLT_EPSILON`, so that messages up to some 119 ns apart are
  dispatched together; `LoServer`, whose tick is longer, compares with 0.
- `message.c:331` copies as many bytes for MIDI as a pointer has: four on the hosts that the
  project is built for (`Fx.xcodeproj`: ppc and i386), as in `LoMessage`; eight, past the room
  made, on others.
- `message.c:156`: a symbol whose pointer is the mark behind the arguments ends the list
  (`Taken`); for a string, at 126, the code says so and goes on with the mark as a pointer,
  which is left out. That the mark does not follow the last argument (`message.c:200`) changes
  only the result, which in `LoSend` is one of `BadArguments`.
- `FxOSC.m:236`: a server thread that could not be made is used all the same, and
  `server_thread.c:111` leaves `active` set when it could not be started, so that stop joins a
  thread that never was; `FxOSC.m:213`: a
  blob is made for every report and not freed; `FxOSC.m:255`: a patch number outside
  0..10 sends a message to an uninitialised pointer, as racing handlers can
  with any number (`StrayPatch`); of several patch commands between two frames only the last is
  applied; `FxView.m:243`: `/fx/cell` takes two of
  three coordinates, so that every such request raises (`FxView` has the raise,
  `CellRequest`, and `FxOSC`, `TakeCell`).
