------------------------------ MODULE LoServer ------------------------------
(***************************************************************************)
(* liblo's server (server.c, timetag.c) and the thread that runs it        *)
(* (server_thread.c): packets from the socket, bundles for now and for     *)
(* later, the queue of later messages, and the owner that starts, stops    *)
(* and frees the thread.                                                   *)
(*                                                                         *)
(* Time is a number of ticks, Frac of them to a second; a time tag is the  *)
(* tick it names.  The difference of two tags is what lo_timetag_diff      *)
(* computes of them, in ticks: the multiplier is 2^-30, not 2^-32, so a    *)
(* fraction counts four times.  A message is its number; the handlers are  *)
(* FxOSC's.  The elements of a bundle, and the messages of one call of     *)
(* dispatch_queued, are taken one at a time: the clock, the network and    *)
(* the owner go on between them.                                           *)
(***************************************************************************)
EXTENDS Integers, SequencesExt

CONSTANTS
  Messages,   \* the messages, each its number
  Packets,    \* all packets that may be sent: [from, due, elems]
  Senders,    \* their senders
  Immediate,  \* the time tag {0, 1}, and that of a message outside a bundle
  Bad,        \* an element that lo_message_deserialise rejects
  Capacity,   \* datagrams the socket holds
  Frac,       \* ticks per second
  Slack,      \* 0.01 s: messages due within it are dispatched at once
  MaxWait,    \* 10 s: the longest single wait of lo_server_recv
  MaxNow,     \* the clock is not advanced beyond this tick
  MaxStarts   \* times the owner starts the thread

ASSUME ServerAssumption ==
  /\ Frac \in Nat \ {0} /\ Slack \in Nat \ {0} /\ MaxWait \in Nat /\ MaxWait > Slack
  /\ MaxNow \in Nat /\ MaxStarts \in Nat /\ Capacity \in Nat \ {0}
  /\ Immediate \notin Nat /\ Bad \notin Messages
  /\ \A p \in Packets :
       /\ p.from \in Senders /\ p.due \in Nat \cup {Immediate}
       /\ p.elems \in Seq(Messages \cup {Bad})

(* Messages are told apart, whatever they say. *)
ASSUME MessagesDiffer ==
  \A p, q \in Packets : \A i \in DOMAIN p.elems, j \in DOMAIN q.elems :
    p.elems[i] = q.elems[j] /\ p.elems[i] # Bad => p = q /\ i = j

VARIABLES
  now,       \* the system clock
  unsent,    \* packets not sent yet
  inbox,     \* datagrams in the socket's buffer, oldest first
  addr,      \* s->addr: the sender of the last datagram read
  queued,    \* s->queued: messages for later, [ts, msg]
  thread,    \* where the server thread is: "ended" when there is none
  local,     \* variables of the call that runs: when the wait of lo_server_recv times out;
             \* the packet and the place in it, or the time that dispatch_queued dispatches,
             \* and when the clock was read
  active,    \* st->active
  owner,     \* the owner of the thread: "idle", "joining" or "freed"
  starts,    \* times the thread was started
  accepted,  \* every message taken from a packet, in order
  handled,   \* every handler call, in order: [msg, src, ts, at]
  errors     \* did the server report LO_INT_ERR

serverVars == <<queued, accepted, handled, errors>>
worldVars  == <<now, unsent>>
ownerVars  == <<active, owner, starts>>
threadVars == <<thread, local>>
vars == <<worldVars, inbox, addr, serverVars, threadVars, ownerVars>>

NoLocals == << >>

-----------------------------------------------------------------------------
(* Time tags. *)

(* lo_timetag_diff: sec_a - sec_b + (frac_a - frac_b) * 2^-30 *)
Value(t) == Frac * (t \div Frac) + 4 * (t % Frac)
Diff(a, b) == Value(a) - Value(b)

(* lo_server_next_event_delay; the 100 s of an empty queue, or of a far     *)
(* event, only matter as more than the 10 s a wait lasts.                   *)
Delay ==
  CASE queued = << >> -> MaxWait + 1
    [] queued # << >> /\ Diff(Head(queued).ts, now) < 0 -> 0
    [] OTHER -> Diff(Head(queued).ts, now)

Init ==
  /\ now = 0 /\ unsent = Packets /\ inbox = << >>
  /\ addr \in Senders
  /\ queued = << >> /\ thread = "ended" /\ local = NoLocals
  /\ active = FALSE /\ owner = "idle" /\ starts = 0
  /\ accepted = << >> /\ handled = << >> /\ errors = FALSE

-----------------------------------------------------------------------------
(* The world around the server. *)

Tick ==
  /\ now < MaxNow
  /\ now' = now + 1
  /\ UNCHANGED <<unsent, inbox, addr, serverVars, threadVars, ownerVars>>

(* Datagrams come in any order; one that finds the buffer full, or the      *)
(* socket closed, is lost.                                                  *)
Arrive ==
  \E p \in unsent :
    /\ unsent' = unsent \ {p}
    /\ inbox' = IF Len(inbox) < Capacity /\ owner # "freed"
                THEN Append(inbox, p) ELSE inbox
    /\ UNCHANGED <<now, addr, serverVars, threadVars, ownerVars>>

-----------------------------------------------------------------------------
(* The owner of the thread. *)

(* lo_server_thread_start *)
Start ==
  /\ owner = "idle" /\ ~ active /\ starts < MaxStarts
  /\ active' = TRUE /\ starts' = starts + 1
  /\ thread' = "loop"
  /\ UNCHANGED <<worldVars, inbox, addr, serverVars, local, owner>>

(* lo_server_thread_stop, up to the join *)
Stop ==
  /\ owner = "idle" /\ active
  /\ active' = FALSE /\ owner' = "joining"
  /\ UNCHANGED <<worldVars, inbox, addr, serverVars, threadVars, starts>>

Joinable_atOnce == owner = "joining"

Joinable == owner = "joining" /\ thread = "ended"

(* pthread_join returns. *)
Join ==
  /\ Joinable
  /\ owner' = "idle"
  /\ UNCHANGED <<worldVars, inbox, addr, serverVars, threadVars, active, starts>>

(* lo_server_free, after lo_server_thread_stop: the socket closes, and      *)
(* what is queued is never freed and never handled.                         *)
Free ==
  /\ owner = "idle" /\ ~ active
  /\ owner' = "freed" /\ inbox' = << >>
  /\ UNCHANGED <<worldVars, addr, serverVars, threadVars, active, starts>>

-----------------------------------------------------------------------------
(* The thread: thread_func, and lo_server_recv_noblock(s, 10) in its loop. *)

ThreadAt(p) == thread = p /\ owner # "freed"
OnlyMoves == UNCHANGED <<worldVars, inbox, addr, serverVars, ownerVars>>

LoopAgain_ignoresActive == "poll"
LoopAgain == IF active THEN "poll" ELSE "ended"

Loop ==
  /\ ThreadAt("loop")
  /\ thread' = LoopAgain
  /\ UNCHANGED local /\ OnlyMoves

(* poll: readable. *)
PollReadable ==
  /\ ThreadAt("poll") /\ inbox # << >>
  /\ thread' = "recv"
  /\ UNCHANGED local /\ OnlyMoves

AfterPoll_readableOnly == "loop"

(* poll: nothing in 10 ms, or before the next event. *)
AfterPoll == IF Delay < Slack THEN "recv" ELSE "loop"

PollTimeout ==
  /\ ThreadAt("poll") /\ inbox = << >>
  /\ thread' = AfterPoll
  /\ UNCHANGED local /\ OnlyMoves

(* lo_server_recv, when the next event is not due: poll until it is, but    *)
(* no longer than 10 s at a time.                                           *)
Longest(d) == IF d > MaxWait THEN MaxWait ELSE d

Wait ==
  /\ ThreadAt("recv") /\ Delay > Slack
  /\ thread' = "wait" /\ local' = [wakeAt |-> now + Longest(Delay)]
  /\ OnlyMoves

WaitReadable ==
  /\ ThreadAt("wait") /\ inbox # << >>
  /\ thread' = "read" /\ local' = NoLocals
  /\ OnlyMoves

WaitAgain ==
  /\ ThreadAt("wait") /\ inbox = << >> /\ now >= local.wakeAt
  /\ Delay > Slack
  /\ local' = [wakeAt |-> now + Longest(Delay)]
  /\ UNCHANGED thread /\ OnlyMoves

-----------------------------------------------------------------------------
(* lo_server_dispatch_data *)

\* dispatch_method: the source is the sender of the last datagram read
Calls(m) ==
  handled' = Append(handled, [msg |-> m.msg, src |-> addr, ts |-> m.ts, at |-> local.now])

IsPlace_atEnd(i, ts) == i = Len(queued) + 1
IsPlace_beforeEquals(i, ts) ==
  /\ i <= Len(queued) => Diff(queued[i].ts, ts) >= 0
  /\ \A j \in 1..i - 1 : Diff(queued[j].ts, ts) < 0

\* before the first message that is later
IsPlace(i, ts) ==
  /\ i <= Len(queued) => Diff(queued[i].ts, ts) > 0
  /\ \A j \in 1..i - 1 : Diff(queued[j].ts, ts) <= 0

QueueData(m) ==
  \E i \in 1..Len(queued) + 1 : IsPlace(i, m.ts) /\ queued' = InsertAt(queued, i, m)

(* recvfrom, and lo_timetag_now. *)
Read ==
  /\ ThreadAt("read")
  /\ addr' = Head(inbox).from
  /\ inbox' = Tail(inbox)
  /\ thread' = "element" /\ local' = [data |-> Head(inbox), pos |-> 1, now |-> now]
  /\ UNCHANGED <<worldVars, ownerVars, serverVars>>

More == local.pos <= Len(local.data.elems) /\ local.data.elems[local.pos] # Bad

Soon(due) == due = Immediate \/ (due # Immediate /\ Diff(due, local.now) <= 0)

(* An element, for now or for later. *)
Element ==
  /\ ThreadAt("element") /\ More
  /\ LET m == [msg |-> local.data.elems[local.pos], ts |-> local.data.due] IN
     /\ accepted' = Append(accepted, m.msg)
     /\ \/ Soon(m.ts) /\ Calls(m) /\ UNCHANGED queued
        \/ ~ Soon(m.ts) /\ QueueData(m) /\ UNCHANGED handled
  /\ local' = [local EXCEPT !.pos = @ + 1]
  /\ UNCHANGED <<worldVars, inbox, addr, errors, thread, ownerVars>>

(* After the last; or at one that lo_message_deserialise rejects, when the  *)
(* rest is dropped, but those before it have been dispatched or queued.     *)
EndPacket ==
  /\ ThreadAt("element") /\ ~ More
  /\ thread' = "loop" /\ local' = NoLocals
  /\ UNCHANGED <<worldVars, inbox, addr, serverVars, ownerVars>>

-----------------------------------------------------------------------------
(* dispatch_queued *)

(* From lo_server_recv: at once, or when the wait is over. *)
Due ==
  /\ \/ ThreadAt("recv")
     \/ ThreadAt("wait") /\ inbox = << >> /\ now >= local.wakeAt
  /\ Delay <= Slack
  /\ IF queued = << >>
     THEN thread' = "loop" /\ errors' = TRUE /\ local' = NoLocals
     ELSE /\ thread' = "dispatch" /\ UNCHANGED errors
          /\ local' = [disp_time |-> Head(queued).ts, now |-> now]
  /\ UNCHANGED <<worldVars, inbox, addr, ownerVars, queued, accepted, handled>>

Rest_dropsNext == IF Len(queued) > 1 THEN Tail(Tail(queued)) ELSE << >>
Rest == Tail(queued)

Goes_on_always(q) == q # << >>
Goes_on(q) == q # << >> /\ Diff(Head(q).ts, local.disp_time) <= 0

(* The head; then what follows it at the same time. *)
DispatchHead ==
  /\ ThreadAt("dispatch")
  /\ Calls(Head(queued))
  /\ queued' = Rest
  /\ IF Goes_on(queued') THEN UNCHANGED <<thread, local>>
     ELSE thread' = "loop" /\ local' = NoLocals
  /\ UNCHANGED <<worldVars, inbox, addr, ownerVars, accepted, errors>>

-----------------------------------------------------------------------------
Thread ==
  \/ Loop \/ PollReadable \/ PollTimeout
  \/ Wait \/ WaitReadable \/ WaitAgain
  \/ Read \/ Element \/ EndPacket
  \/ Due \/ DispatchHead

Next == Tick \/ Arrive \/ Start \/ Stop \/ Join \/ Free \/ Thread

Spec == Init /\ [][Next]_vars

(* The clock runs, the thread is scheduled, and a join that can return does.*)
FairSpec == Spec /\ WF_vars(Tick) /\ WF_vars(Thread) /\ WF_vars(Join)

-----------------------------------------------------------------------------
Message == [ts : Nat, msg : Messages]
Call == [msg : Messages, src : Senders, ts : Nat \cup {Immediate}, at : 0..MaxNow]

AcceptedBefore(m, n) ==
  \A i, j \in DOMAIN accepted : accepted[i] = m /\ accepted[j] = n => i < j

(* The queue is in the order of its times, and messages of one time are in  *)
(* the order in which they were accepted.                                   *)
QueueOrdered ==
  \A i, j \in DOMAIN queued : i < j =>
    \/ Diff(queued[i].ts, queued[j].ts) < 0
    \/ /\ Diff(queued[i].ts, queued[j].ts) = 0
       /\ AcceptedBefore(queued[i].msg, queued[j].msg)

(* Types, and the order of the queue. *)
TypeOK ==
  /\ now \in 0..MaxNow /\ unsent \subseteq Packets
  /\ inbox \in Seq(Packets) /\ Len(inbox) <= Capacity
  /\ addr \in Senders
  /\ queued \in Seq(Message)
  /\ accepted \in Seq(Messages) /\ handled \in Seq(Call)
  /\ thread \in {"loop", "poll", "recv", "wait", "read", "element", "dispatch", "ended"}
  /\ local \in [wakeAt : 0..MaxNow + MaxWait]
              \cup [data : Packets, pos : Nat \ {0}, now : 0..MaxNow]
              \cup [disp_time : Nat, now : 0..MaxNow] \cup {NoLocals}
  /\ active \in BOOLEAN /\ owner \in {"idle", "joining", "freed"} /\ starts \in 0..MaxStarts
  /\ errors \in BOOLEAN /\ QueueOrdered

(* Every accepted message is handled once or still queued once, whatever    *)
(* bundles it shares its time or the queue with.                            *)
ExactlyOnce ==
  \A m \in {accepted[i] : i \in DOMAIN accepted} :
    Cardinality({i \in DOMAIN handled : handled[i].msg = m})
      + Cardinality({i \in DOMAIN queued : queued[i].msg = m}) = 1

\* n follows m in a bundle, and nothing is wrong with it before
Follows(n, m) ==
  \E p \in Packets : \E k \in 1..Len(p.elems) - 1 :
    /\ m = p.elems[k] /\ n = p.elems[k + 1]
    /\ \A j \in 1..k + 1 : p.elems[j] # Bad

(* The messages of a bundle are handled in their order and with nothing     *)
(* between them, also when they were queued meanwhile: the next one comes   *)
(* next, or is what the thread is about.                                    *)
BundleAtomic ==
  \A i \in DOMAIN handled, m \in Messages :
    Follows(m, handled[i].msg) =>
      IF i < Len(handled) THEN handled[i + 1].msg = m ELSE thread \in {"element", "dispatch"}

(* A queued message is not handled before it is due by the server's own     *)
(* reckoning, although all that share the time of the head go with it, and  *)
(* dispatch_queued is never called for an empty queue (LO_INT_ERR).         *)
NotEarly ==
  /\ ~ errors
  /\ \A i \in DOMAIN handled :
       handled[i].ts # Immediate => Diff(handled[i].ts, handled[i].at) <= Slack

(* No handler is called, and the socket is not read, while the thread is    *)
(* stopped: the owner may free what the handlers use.                       *)
NoCallbackWhenStopped ==
  [][owner = "freed" \/ (owner = "idle" /\ ~ active) => UNCHANGED <<handled, accepted>>]_vars

\* an element of p is in the queue
Pending(p) == \E i \in DOMAIN queued, k \in DOMAIN p.elems : queued[i].msg = p.elems[k]

(* What is queued of a packet leaves the queue in the end, and so (with     *)
(* ExactlyOnce) is handled, unless the owner stops or frees.                *)
QueuedIsHandled == \A p \in Packets : Pending(p) ~> (~ active \/ ~ Pending(p))

(* lo_server_thread_stop returns.                                           *)
StopReturns == owner = "joining" ~> owner # "joining"

(* "Returns a - b in seconds": a message is handled no earlier than its     *)
(* time tag, but for the slack.                                             *)
NotBeforeItsTime ==
  \A i \in DOMAIN handled :
    handled[i].ts # Immediate => handled[i].ts - handled[i].at <= Slack

(* "Returns the source (lo_address) of an incoming message."                *)
SourceIsSender ==
  \A i \in DOMAIN handled : \E p \in Packets :
    /\ p.from = handled[i].src
    /\ \E k \in DOMAIN p.elems : p.elems[k] = handled[i].msg
=============================================================================
