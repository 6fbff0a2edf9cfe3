---------------------------- MODULE LoServerProofs ----------------------------
(***************************************************************************)
(* What liblo's server guarantees for any packets, senders and clock: that *)
(* every message it accepts is handled exactly once, bundles stay whole    *)
(* through its queue of later messages, nothing is handled early, and no   *)
(* handler runs when its thread has been joined.                           *)
(***************************************************************************)
EXTENDS LoServer, SequenceTheorems, FiniteSetTheorems, TLAPS

-----------------------------------------------------------------------------
(* The inductive invariant. *)

Times == 0..MaxNow

\* all variables but those that say where the two threads are
Types ==
  /\ now \in Times /\ unsent \subseteq Packets
  /\ inbox \in Seq(Packets) /\ Len(inbox) <= Capacity
  /\ addr \in Senders
  /\ queued \in Seq(Message) /\ accepted \in Seq(Messages) /\ handled \in Seq(Call)
  /\ starts \in 0..MaxStarts /\ errors \in BOOLEAN

\* the call that runs has the variables that its step reads
Locals ==
  /\ thread = "wait" => local \in [wakeAt : 0..MaxNow + MaxWait]
  /\ thread = "element" => local \in [data : Packets, pos : Nat \ {0}, now : Times]
  /\ thread = "dispatch" => local \in [disp_time : Nat, now : Times]
  /\ thread \notin {"wait", "element", "dispatch"} => local = NoLocals

\* the owner frees only what the ended thread has left, and a step that takes a datagram
\* or the head of the queue finds one
Control ==
  /\ thread \in {"loop", "poll", "recv", "wait", "read", "element", "dispatch", "ended"}
  /\ Locals
  /\ active \in BOOLEAN /\ owner \in {"idle", "joining", "freed"}
  /\ owner # "idle" => ~ active
  /\ owner = "freed" \/ (owner = "idle" /\ ~ active) => thread = "ended"
  /\ thread = "read" => inbox # << >>
  /\ thread = "dispatch" => queued # << >>

\* the packet is still to be read
Waits(p) == p \in unsent \/ \E i \in DOMAIN inbox : inbox[i] = p

\* a packet is sent once, and so is read once
SentOnce ==
  /\ \A i, j \in DOMAIN inbox : inbox[i] = inbox[j] => i = j
  /\ \A i \in DOMAIN inbox : inbox[i] \notin unsent
  /\ thread = "element" => ~ Waits(local.data)

\* m was taken from its packet
IsAccepted(m) == \E i \in DOMAIN accepted : accepted[i] = m

\* element k of p is still to be taken
ToCome(p, k) == Waits(p) \/ (thread = "element" /\ local.data = p /\ k >= local.pos)

\* no message is taken from its packet twice
TakenOnce ==
  /\ \A p \in Packets : \A k \in DOMAIN p.elems : ToCome(p, k) => ~ IsAccepted(p.elems[k])
  /\ \A i, j \in DOMAIN accepted : accepted[i] = accepted[j] => i = j

\* a handler was called for m; m is in the queue
IsHandled(m) == \E i \in DOMAIN handled : handled[i].msg = m
IsQueued(m) == \E i \in DOMAIN queued : queued[i].msg = m

\* what was taken was handled or is queued, not both, and once
Once ==
  /\ \A i, j \in DOMAIN handled : handled[i].msg = handled[j].msg => i = j
  /\ \A i, j \in DOMAIN queued : queued[i].msg = queued[j].msg => i = j
  /\ \A m \in Messages : ~ (IsHandled(m) /\ IsQueued(m))
  /\ \A m \in Messages : IsAccepted(m) <=> IsHandled(m) \/ IsQueued(m)

\* what is queued has the time of the packet that it came in
FromPackets ==
  \A j \in DOMAIN queued : \E p \in Packets : \E k \in DOMAIN p.elems :
    queued[j] = [msg |-> p.elems[k], ts |-> p.due]

\* m is the element that the thread takes next
IsNext(m) == thread = "element" /\ More /\ local.data.elems[local.pos] = m

\* after a message was handled, the next of its packet is what the running call does next
HandledTogether ==
  \A i \in DOMAIN handled, m \in Messages : Follows(m, handled[i].msg) =>
    IF i < Len(handled) THEN handled[i + 1].msg = m
    ELSE \/ IsNext(m) /\ Soon(local.data.due)
         \/ thread = "dispatch" /\ Head(queued).msg = m

\* queued[j] is the last of those with time t
EndsAt(j, t) ==
  Diff(queued[j].ts, t) = 0 /\ (j < Len(queued) => Diff(queued[j + 1].ts, t) > 0)

\* the queue is never cut between two messages of a packet: later ones go behind the last
\* of equal time
QueuedTogether ==
  \A j \in DOMAIN queued, m \in Messages : Follows(m, queued[j].msg) =>
    \/ j < Len(queued) /\ queued[j + 1].msg = m
    \/ IsNext(m) /\ ~ Soon(local.data.due) /\ EndsAt(j, local.data.due)

\* the time that dispatch_queued works on is within the slack of the clock it read, and
\* the head is no later
Timely ==
  /\ NotEarly
  /\ thread = "dispatch" =>
       /\ Diff(Head(queued).ts, local.disp_time) <= 0
       /\ Diff(local.disp_time, local.now) <= Slack

Inv ==
  /\ Types /\ Control /\ SentOnce /\ TakenOnce /\ Once /\ FromPackets
  /\ QueueOrdered /\ HandledTogether /\ QueuedTogether /\ Timely

-----------------------------------------------------------------------------
(* Sequences, time tags and types. *)

\* what is before place i stays, and what was at i or after it moves on
HasInserted(s, i, e, u) ==
  /\ Len(u) = Len(s) + 1 /\ u[i] = e
  /\ \A j \in 1..i - 1 : u[j] = s[j]
  /\ \A j \in i + 1..Len(s) + 1 : u[j] = s[j - 1]

(* InsertAt does that. *)
LEMMA Inserted ==
  ASSUME NEW S, NEW s \in Seq(S), NEW i \in 1..Len(s) + 1, NEW e \in S,
         NEW u, u = InsertAt(s, i, e)
  PROVE  u \in Seq(S) /\ HasInserted(s, i, e, u)
<1> DEFINE a == SubSeq(s, 1, i - 1)
           c == SubSeq(s, i, Len(s))
<1>1. Len(s) \in Nat /\ i \in Nat /\ \A j \in 1..Len(s) : s[j] \in S
  OBVIOUS
<1>2. /\ a \in Seq(S) /\ Len(a) = i - 1
      /\ \A j \in 1..i - 1 : a[j] = s[j]
  BY <1>1, SubSeqProperties
<1>3. /\ c \in Seq(S) /\ Len(c) = Len(s) - i + 1
      /\ \A j \in 1..Len(s) - i + 1 : c[j] = s[i + j - 1]
  BY <1>1, SubSeqProperties
<1>4. InsertAt(s, i, e) = a \o <<e>> \o c
  BY DEF InsertAt
<1> HIDE DEF a, c
<1> DEFINE b == a \o <<e>>
<1>5. /\ b \in Seq(S) /\ Len(b) = i
      /\ b[i] = e /\ \A j \in 1..i - 1 : b[j] = s[j]
  <2>1. <<e>> \in Seq(S) /\ Len(<<e>>) = 1 /\ <<e>>[1] = e
    OBVIOUS
  <2>2. /\ b \in Seq(S) /\ Len(b) = Len(a) + 1
        /\ \A j \in 1..Len(a) + 1 : b[j] = IF j <= Len(a) THEN a[j] ELSE <<e>>[j - Len(a)]
    BY <1>2, <2>1, ConcatProperties
  <2> HIDE DEF b
  <2>3. QED
    BY <1>1, <1>2, <2>1, <2>2
<1> HIDE DEF b
<1> DEFINE t == b \o c
<1>6. /\ t \in Seq(S) /\ Len(t) = Len(b) + Len(c)
      /\ \A j \in 1..Len(b) + Len(c) : t[j] = IF j <= Len(b) THEN b[j] ELSE c[j - Len(b)]
  BY <1>3, <1>5, ConcatProperties
<1> HIDE DEF t
<1>7. Len(t) = Len(s) + 1 /\ t[i] = e /\ \A j \in 1..i - 1 : t[j] = s[j]
  BY <1>1, <1>3, <1>5, <1>6
<1>8. ASSUME NEW j \in i + 1..Len(s) + 1 PROVE t[j] = s[j - 1]
  <2>1. t[j] = c[j - i]
    BY <1>1, <1>3, <1>5, <1>6
  <2>2. j - i \in 1..Len(s) - i + 1 /\ i + (j - i) - 1 = j - 1
    BY <1>1
  <2>3. QED
    BY <1>3, <2>1, <2>2
<1>9. u = t
  BY <1>4 DEF b, t
<1>10. HasInserted(s, i, e, t)
  BY <1>7, <1>8 DEF HasInserted
<1>11. QED
  BY <1>6, <1>9, <1>10

(* The two halves of a tag, scaled, are a number: differences of tags compare. *)
LEMMA ValueType ==
  ASSUME NEW t \in Nat
  PROVE  Value(t) \in Int
<1>1. t \div Frac \in Int /\ t % Frac \in Int /\ Frac \in Int
  BY ServerAssumption
<1>2. \A a, b, c \in Int : a * b + 4 * c \in Int
  OBVIOUS
<1>3. QED
  BY <1>1, <1>2 DEF Value

(* The next event is not negative, and is near only when there is one. *)
LEMMA DelayType ==
  ASSUME Types
  PROVE  /\ Delay \in Nat
         /\ Delay <= Slack => queued # << >> /\ Diff(Head(queued).ts, now) <= Slack
<1>1. now \in Nat /\ Slack \in Nat /\ MaxWait \in Nat /\ MaxWait > Slack
  BY ServerAssumption DEF Types, Times
<1>2. CASE queued = << >>
  BY <1>1, <1>2 DEF Delay
<1>3. CASE queued # << >>
  <2>1. Head(queued) \in Message
    BY <1>3 DEF Types
  <2>2. Diff(Head(queued).ts, now) \in Int
    <3>1. Value(Head(queued).ts) \in Int /\ Value(now) \in Int
      BY <1>1, <2>1, ValueType DEF Message
    <3>2. QED
      BY <3>1 DEF Diff
  <2>3. QED
    BY <1>1, <1>3, <2>2 DEF Delay
<1>4. QED
  BY <1>2, <1>3

(* The head and the tail of a sequence that is not empty. *)
LEMMA TailType ==
  ASSUME NEW S, NEW s \in Seq(S), s # << >>
  PROVE  /\ Head(s) = s[1] /\ Head(s) \in S /\ Tail(s) \in Seq(S)
         /\ Len(s) \in Nat \ {0} /\ Len(Tail(s)) = Len(s) - 1
         /\ \A i \in 1..Len(s) - 1 : Tail(s)[i] = s[i + 1]
  BY HeadTailProperties

(* queue_data keeps a queue of messages. *)
LEMMA QueueType ==
  ASSUME Types, NEW m \in Message, QueueData(m)
  PROVE  queued' \in Seq(Message)
<1>1. PICK i \in 1..Len(queued) + 1 : queued' = InsertAt(queued, i, m)
  BY DEF QueueData
<1>2. QED
  BY <1>1, Inserted DEF Types

(* dispatch_method records a call. *)
LEMMA CallType ==
  ASSUME Types, local.now \in Times, NEW m, m.msg \in Messages, m.ts \in Nat \cup {Immediate},
         Calls(m)
  PROVE  handled' \in Seq(Call)
<1>1. [msg |-> m.msg, src |-> addr, ts |-> m.ts, at |-> local.now] \in Call
  BY DEF Call, Types, Times
<1>2. QED
  BY <1>1, AppendProperties DEF Calls, Types

(* The element that is taken is a message, and one for later has a time tag. *)
LEMMA ElementType ==
  ASSUME Types, Control, Element
  PROVE  LET m == [msg |-> local.data.elems[local.pos], ts |-> local.data.due] IN
         /\ m.msg \in Messages /\ m.ts \in Nat \cup {Immediate}
         /\ ~ Soon(m.ts) => m \in Message
         /\ local.now \in Times /\ local.data \in Packets /\ local.pos \in Nat \ {0}
         /\ local.pos \in DOMAIN local.data.elems
<1>1. local \in [data : Packets, pos : Nat \ {0}, now : Times]
  BY DEF Element, ThreadAt, Control, Locals
<1>2. local.data.elems \in Seq(Messages \cup {Bad}) /\ local.data.due \in Nat \cup {Immediate}
  BY <1>1, ServerAssumption
<1>3. local.pos \in 1..Len(local.data.elems) /\ local.data.elems[local.pos] # Bad
  BY <1>1, <1>2 DEF Element, More
<1>4. local.data.elems[local.pos] \in Messages /\ local.pos \in DOMAIN local.data.elems
  BY <1>2, <1>3
<1>5. ~ Soon(local.data.due) => local.data.due \in Nat
  BY <1>2 DEF Soon
<1>6. QED
  BY <1>1, <1>2, <1>4, <1>5 DEF Message

(* The types are kept by every step. *)
LEMMA TypesStep ==
  ASSUME Types, Control, [Next]_vars
  PROVE  Types'
<1> USE DEF Types
<1>1. CASE UNCHANGED vars
  BY <1>1 DEF vars, worldVars, serverVars, threadVars, ownerVars
<1>2. CASE Tick
  BY <1>2, ServerAssumption DEF Tick, serverVars, threadVars, ownerVars, Times
<1>3. CASE Arrive
  <2>1. PICK p \in unsent : /\ unsent' = unsent \ {p}
                            /\ inbox' = IF Len(inbox) < Capacity /\ owner # "freed"
                                        THEN Append(inbox, p) ELSE inbox
                            /\ UNCHANGED <<now, addr, serverVars, threadVars, ownerVars>>
    BY <1>3 DEF Arrive
  <2>2. inbox' \in Seq(Packets) /\ Len(inbox') <= Capacity
    <3>1. Append(inbox, p) \in Seq(Packets) /\ Len(Append(inbox, p)) = Len(inbox) + 1
      BY AppendProperties
    <3>2. Len(inbox) \in Nat /\ Capacity \in Nat
      BY ServerAssumption
    <3>3. QED
      BY <2>1, <3>1, <3>2
  <2>3. QED
    BY <2>1, <2>2 DEF serverVars, ownerVars
<1>4. CASE Start
  BY <1>4, ServerAssumption DEF Start, worldVars, serverVars
<1>5. CASE Stop \/ Join
  BY <1>5 DEF Stop, Join, worldVars, serverVars
<1>6. CASE Free
  <2>1. << >> \in Seq(Packets) /\ Len(<< >>) = 0 /\ Capacity \in Nat
    BY ServerAssumption
  <2>2. QED
    BY <1>6, <2>1 DEF Free, worldVars, serverVars
<1>7. CASE Loop \/ PollReadable \/ PollTimeout \/ Wait \/ WaitReadable \/ WaitAgain
  BY <1>7 DEF Loop, PollReadable, PollTimeout, Wait, WaitReadable, WaitAgain, OnlyMoves,
              worldVars, serverVars, ownerVars
<1>8. CASE Read
  <2>1. inbox # << >>
    BY <1>8 DEF Read, ThreadAt, Control
  <2>2. Head(inbox) \in Packets /\ Tail(inbox) \in Seq(Packets)
        /\ Len(Tail(inbox)) = Len(inbox) - 1 /\ Len(inbox) \in Nat /\ Capacity \in Nat
    BY <2>1, TailType, ServerAssumption
  <2>3. Head(inbox).from \in Senders
    BY <2>2, ServerAssumption
  <2>4. QED
    BY <1>8, <2>2, <2>3 DEF Read, worldVars, serverVars, ownerVars
<1>9. CASE Element
  <2> DEFINE m == [msg |-> local.data.elems[local.pos], ts |-> local.data.due]
  <2>1. /\ m.msg \in Messages /\ m.ts \in Nat \cup {Immediate}
        /\ ~ Soon(m.ts) => m \in Message
        /\ local.now \in Times
    BY <1>9, ElementType
  <2>2. /\ accepted' = Append(accepted, m.msg)
        /\ \/ Soon(m.ts) /\ Calls(m) /\ UNCHANGED queued
           \/ ~ Soon(m.ts) /\ QueueData(m) /\ UNCHANGED handled
    BY <1>9 DEF Element
  <2> HIDE DEF m
  <2>3. accepted' \in Seq(Messages)
    BY <2>1, <2>2, AppendProperties
  <2>4. queued' \in Seq(Message)
    BY <2>1, <2>2, QueueType
  <2>5. handled' \in Seq(Call)
    BY <2>1, <2>2, CallType
  <2>6. QED
    BY <1>9, <2>3, <2>4, <2>5 DEF Element, worldVars, ownerVars
<1>10. CASE EndPacket \/ Due
  BY <1>10 DEF EndPacket, Due, worldVars, serverVars, ownerVars
<1>11. CASE DispatchHead
  <2>1. queued # << >> /\ local.now \in Times
    BY <1>11 DEF DispatchHead, ThreadAt, Control, Locals
  <2>2. Head(queued) \in Message /\ Tail(queued) \in Seq(Message)
    BY <2>1, TailType
  <2>3. handled' \in Seq(Call)
    BY <1>11, <2>1, <2>2, CallType DEF DispatchHead, Message
  <2>4. QED
    BY <1>11, <2>2, <2>3 DEF DispatchHead, Rest, worldVars, ownerVars
<1>12. QED
  BY <1>1, <1>2, <1>3, <1>4, <1>5, <1>6, <1>7, <1>8, <1>9, <1>10, <1>11 DEF Next, Thread

(* A wait ends within 10 s of the clock. *)
LEMMA WaitType ==
  ASSUME Types
  PROVE  [wakeAt |-> now + Longest(Delay)] \in [wakeAt : 0..MaxNow + MaxWait]
<1>1. Delay \in Nat /\ MaxWait \in Nat /\ now \in Nat /\ MaxNow \in Nat /\ now <= MaxNow
  BY DelayType, ServerAssumption DEF Types, Times
<1>2. QED
  BY <1>1 DEF Longest

(* So is the place of the threads: recv goes on to dispatch only with a queue, and the *)
(* owner is idle and not active only when a join returned or before the first start.   *)
LEMMA ControlStep ==
  ASSUME Types, Control, [Next]_vars
  PROVE  Control'
<1> USE DEF Control, Locals
<1> DEFINE Same == UNCHANGED <<thread, local, queued>>
<1>1. CASE UNCHANGED vars
  BY <1>1 DEF vars, worldVars, serverVars, threadVars, ownerVars
<1>2. CASE Tick
  BY <1>2 DEF Tick, serverVars, threadVars, ownerVars
<1>3. CASE Arrive
  <2>1. PICK p \in unsent : /\ inbox' = IF Len(inbox) < Capacity /\ owner # "freed"
                                        THEN Append(inbox, p) ELSE inbox
                            /\ UNCHANGED <<now, addr, serverVars, threadVars, ownerVars>>
    BY <1>3 DEF Arrive
  <2>2. Append(inbox, p) # << >>
    BY AppendProperties DEF Types
  <2>3. thread = "read" => inbox' # << >>
    BY <2>1, <2>2
  <2>4. QED
    BY <2>1, <2>3 DEF serverVars, threadVars, ownerVars
<1>4. CASE Start
  BY <1>4 DEF Start, worldVars, serverVars
<1>5. CASE Stop \/ Join
  BY <1>5 DEF Stop, Join, Joinable, worldVars, serverVars, threadVars
<1>6. CASE Free
  BY <1>6 DEF Free, worldVars, serverVars, threadVars
<1> USE DEF ThreadAt, OnlyMoves, worldVars, serverVars, ownerVars
<1>7. CASE Loop \/ PollReadable
  BY <1>7 DEF Loop, LoopAgain, PollReadable
<1>8. CASE PollTimeout
  BY <1>8 DEF PollTimeout, AfterPoll
<1>9. CASE Wait
  BY <1>9, WaitType DEF Wait
<1>10. CASE WaitReadable
  BY <1>10 DEF WaitReadable
<1>11. CASE WaitAgain
  BY <1>11, WaitType DEF WaitAgain
<1>12. CASE Read
  <2>1. Head(inbox) \in Packets
    BY <1>12, TailType DEF Read, Types
  <2>2. local' \in [data : Packets, pos : Nat \ {0}, now : Times]
    BY <1>12, <2>1 DEF Read, Types
  <2>3. QED
    BY <1>12, <2>2 DEF Read
<1>13. CASE Element
  <2>1. local' \in [data : Packets, pos : Nat \ {0}, now : Times]
    BY <1>13 DEF Element
  <2>2. QED
    BY <1>13, <2>1 DEF Element
<1>14. CASE EndPacket
  BY <1>14 DEF EndPacket
<1>15. CASE Due
  <2>1. queued # << >> => Head(queued) \in Message
    BY TailType DEF Types
  <2>2. queued # << >> /\ now \in Times
    BY <1>15, DelayType DEF Due, Types
  <2>3. Head(queued).ts \in Nat
    BY <1>15, <2>1, <2>2 DEF Message, Due, Delay
  <2>4. local' \in [disp_time : Nat, now : Times]
    BY <1>15, <2>2, <2>3 DEF Due
  <2>5. QED
    BY <1>15, <2>2, <2>4 DEF Due
<1>16. CASE DispatchHead
  <2>1. CASE Goes_on(queued')
    <3>1. UNCHANGED <<thread, local, inbox, active, owner>> /\ queued' # << >>
      BY <1>16, <2>1 DEF DispatchHead, Goes_on
    <3>2. QED
      BY <3>1
  <2>2. CASE ~ Goes_on(queued')
    <3>1. thread' = "loop" /\ local' = NoLocals /\ UNCHANGED <<active, owner>>
      BY <1>16, <2>2 DEF DispatchHead
    <3>2. QED
      BY <1>16, <3>1 DEF DispatchHead
  <2>3. QED
    BY <2>1, <2>2
<1>17. QED
  BY <1>1, <1>2, <1>3, <1>4, <1>5, <1>6, <1>7, <1>8, <1>9, <1>10, <1>11, <1>12, <1>13, <1>14,
     <1>15, <1>16 DEF Next, Thread

\* steps other than those that take, queue or handle a message
Quiet ==
  \/ UNCHANGED vars \/ Tick \/ Start \/ Stop \/ Join
  \/ Loop \/ PollReadable \/ PollTimeout \/ Wait \/ WaitReadable \/ WaitAgain

(* They leave the queue, the packets and what was handled. *)
LEMMA QuietStep ==
  ASSUME Control, Quiet
  PROVE  /\ UNCHANGED <<unsent, inbox, addr, serverVars>>
         /\ thread' # "dispatch" \/ UNCHANGED <<thread, local>>
         /\ IF thread = "element" THEN UNCHANGED <<thread, local>> ELSE thread' # "element"
         /\ thread = "dispatch" => UNCHANGED <<thread, local>>
<1> USE DEF ThreadAt, OnlyMoves, worldVars, serverVars, ownerVars, threadVars
<1>1. CASE UNCHANGED vars
  BY <1>1 DEF vars
<1>2. CASE Tick \/ Stop \/ Join
  BY <1>2 DEF Tick, Stop, Join
<1>3. CASE Start
  BY <1>3 DEF Start, Control
<1>4. CASE Loop \/ PollReadable \/ PollTimeout \/ Wait \/ WaitReadable \/ WaitAgain
  BY <1>4 DEF Loop, LoopAgain, PollReadable, PollTimeout, AfterPoll, Wait, WaitReadable, WaitAgain
<1>5. QED
  BY <1>1, <1>2, <1>3, <1>4 DEF Quiet

(* The steps, by what they do to the messages. *)
LEMMA NextSteps ==
  ASSUME [Next]_vars
  PROVE  Quiet \/ Arrive \/ Free \/ Read \/ Element \/ EndPacket \/ Due \/ DispatchHead
  BY DEF Next, Thread, Quiet

-----------------------------------------------------------------------------
(* Where messages come from. *)

(* recvfrom: the oldest datagram leaves the buffer. *)
LEMMA ReadStep ==
  ASSUME Types, Control, Read
  PROVE  LET p == inbox[1] IN
         /\ p \in Packets /\ 1 \in DOMAIN inbox /\ Len(inbox) \in Nat
         /\ inbox' \in Seq(Packets) /\ Len(inbox') = Len(inbox) - 1
         /\ \A i \in DOMAIN inbox' : inbox'[i] = inbox[i + 1] /\ i + 1 \in DOMAIN inbox
         /\ local' = [data |-> p, pos |-> 1, now |-> now]
         /\ thread = "read" /\ thread' = "element" /\ UNCHANGED <<unsent, serverVars>>
<1>1. inbox # << >> /\ inbox \in Seq(Packets)
  BY DEF Control, Read, ThreadAt, Types
<1>2. /\ Head(inbox) = inbox[1] /\ Head(inbox) \in Packets /\ Tail(inbox) \in Seq(Packets)
      /\ Len(inbox) \in Nat \ {0} /\ Len(Tail(inbox)) = Len(inbox) - 1
      /\ \A i \in 1..Len(inbox) - 1 : Tail(inbox)[i] = inbox[i + 1]
  BY <1>1, TailType
<1>3. inbox' = Tail(inbox) /\ local' = [data |-> Head(inbox), pos |-> 1, now |-> now]
      /\ thread = "read" /\ thread' = "element" /\ UNCHANGED <<unsent, serverVars>>
  BY DEF Read, ThreadAt, worldVars
<1>4. QED
  BY <1>1, <1>2, <1>3

(* A packet that arrives is at the end of the buffer, or lost. *)
LEMMA ArriveStep ==
  ASSUME Types, Arrive
  PROVE  \E p \in unsent :
         /\ unsent' = unsent \ {p} /\ UNCHANGED <<now, addr, serverVars, threadVars, ownerVars>>
         /\ \/ inbox' = inbox
            \/ /\ inbox' \in Seq(Packets) /\ Len(inbox') = Len(inbox) + 1 /\ Len(inbox) \in Nat
               /\ inbox'[Len(inbox) + 1] = p
               /\ \A i \in DOMAIN inbox : inbox'[i] = inbox[i]
<1>1. PICK p \in unsent :
        /\ unsent' = unsent \ {p}
        /\ inbox' = IF Len(inbox) < Capacity /\ owner # "freed" THEN Append(inbox, p) ELSE inbox
        /\ UNCHANGED <<now, addr, serverVars, threadVars, ownerVars>>
  BY DEF Arrive
<1>2. inbox \in Seq(Packets) /\ p \in Packets
  BY DEF Types
<1>3. QED
  BY <1>1, <1>2, AppendProperties

(* A packet is in one place: not sent, in the buffer, or the one being taken. *)
LEMMA SentOnceStep ==
  ASSUME Types, Control, SentOnce, [Next]_vars
  PROVE  SentOnce'
<1>1. CASE Quiet
  BY <1>1, QuietStep DEF SentOnce, Waits
<1>2. CASE Arrive
  <2>1. PICK p \in unsent :
         /\ unsent' = unsent \ {p} /\ UNCHANGED <<now, addr, serverVars, threadVars, ownerVars>>
         /\ \/ inbox' = inbox
            \/ /\ inbox' \in Seq(Packets) /\ Len(inbox') = Len(inbox) + 1 /\ Len(inbox) \in Nat
               /\ inbox'[Len(inbox) + 1] = p
               /\ \A i \in DOMAIN inbox : inbox'[i] = inbox[i]
    BY <1>2, ArriveStep
  <2>2. inbox \in Seq(Packets)
    BY DEF Types
  <2>3. ASSUME NEW i \in DOMAIN inbox'
        PROVE  \/ i \in DOMAIN inbox /\ inbox'[i] = inbox[i]
               \/ inbox'[i] = p /\ i = Len(inbox) + 1
    BY <2>1, <2>2
  <2>4. \A q : Waits(q)' => Waits(q)
    BY <2>1, <2>3 DEF Waits
  <2>5. \A i, j \in DOMAIN inbox' : inbox'[i] = inbox'[j] => i = j
    BY <2>1, <2>3 DEF SentOnce
  <2>6. \A i \in DOMAIN inbox' : inbox'[i] \notin unsent'
    BY <2>1, <2>3 DEF SentOnce
  <2>7. UNCHANGED <<thread, local>>
    BY <2>1 DEF threadVars
  <2>8. QED
    BY <2>4, <2>5, <2>6, <2>7 DEF SentOnce
<1>3. CASE Free
  BY <1>3 DEF Free, SentOnce, Waits, worldVars, threadVars
<1>4. CASE Read
  <2> DEFINE p == inbox[1]
  <2>1. /\ p \in Packets /\ 1 \in DOMAIN inbox /\ Len(inbox) \in Nat
        /\ inbox' \in Seq(Packets) /\ Len(inbox') = Len(inbox) - 1
        /\ \A i \in DOMAIN inbox' : inbox'[i] = inbox[i + 1] /\ i + 1 \in DOMAIN inbox
        /\ local' = [data |-> p, pos |-> 1, now |-> now]
        /\ thread = "read" /\ thread' = "element" /\ UNCHANGED <<unsent, serverVars>>
    BY <1>4, ReadStep
  <2>2. \A i, j \in DOMAIN inbox' : i \in Int /\ j \in Int
    BY <2>1
  <2>3. \A i, j \in DOMAIN inbox' : inbox'[i] = inbox'[j] => i = j
    BY <2>1, <2>2 DEF SentOnce
  <2>4. \A i \in DOMAIN inbox' : inbox'[i] \notin unsent'
    BY <2>1 DEF SentOnce
  <2>5. \A i \in DOMAIN inbox' : inbox'[i] # p
    <3>1. \A i \in DOMAIN inbox' : i + 1 # 1
      BY <2>1
    <3>2. QED
      BY <2>1, <3>1 DEF SentOnce
  <2>6. p \notin unsent'
    BY <2>1 DEF SentOnce
  <2>7. QED
    BY <2>1, <2>3, <2>4, <2>5, <2>6 DEF SentOnce, Waits
<1>5. CASE Element
  <2>1. local'.data = local.data
    BY <1>5 DEF Element, ThreadAt, Control, Locals
  <2>2. QED
    BY <1>5, <2>1 DEF Element, SentOnce, Waits, worldVars
<1>6. CASE EndPacket \/ Due \/ DispatchHead
  BY <1>6 DEF EndPacket, Due, DispatchHead, ThreadAt, SentOnce, Waits, worldVars
<1>7. QED
  BY <1>1, <1>2, <1>3, <1>4, <1>5, <1>6, NextSteps

\* e is element k of packet p, and is called or queued
Takes(p, k, e) ==
  /\ local.data = p /\ local.pos = k /\ thread = "element"
  /\ UNCHANGED <<unsent, inbox, thread>>
  /\ k \in DOMAIN p.elems /\ k \in 1..Len(p.elems) /\ p.elems[k] = e /\ e # Bad
  /\ p.elems \in Seq(Messages \cup {Bad})
  /\ accepted' = Append(accepted, e)
  /\ local' = [local EXCEPT !.pos = k + 1] /\ local'.data = p /\ local'.pos = k + 1
  /\ local'.now = local.now /\ local.now \in Times
  /\ \/ /\ Soon(p.due) /\ Calls([msg |-> e, ts |-> p.due]) /\ UNCHANGED queued
     \/ /\ ~ Soon(p.due) /\ p.due \in Nat /\ UNCHANGED handled
        /\ QueueData([msg |-> e, ts |-> p.due])

(* What an element step does. *)
LEMMA ElementStep ==
  ASSUME Types, Control, Element
  PROVE  \E p \in Packets, k \in Nat \ {0}, e \in Messages : Takes(p, k, e)
<1> DEFINE p == local.data
           k == local.pos
           e == p.elems[k]
<1>1. /\ e \in Messages /\ p \in Packets /\ k \in Nat \ {0} /\ k \in DOMAIN p.elems
      /\ ~ Soon(p.due) => p.due \in Nat
      /\ local.now \in Times
  BY ElementType DEF Message
<1>2. p.elems \in Seq(Messages \cup {Bad})
  BY <1>1, ServerAssumption
<1>3. k \in 1..Len(p.elems) /\ e # Bad /\ thread = "element"
  BY <1>1, <1>2 DEF Element, More, ThreadAt
<1>4. local \in [data : Packets, pos : Nat \ {0}, now : Times]
  BY <1>3 DEF Control, Locals
<1>5. local' = [local EXCEPT !.pos = k + 1]
  BY DEF Element
<1>6. local'.data = p /\ local'.pos = k + 1 /\ local'.now = local.now
  BY <1>4, <1>5
<1>7. /\ accepted' = Append(accepted, e)
      /\ \/ Soon(p.due) /\ Calls([msg |-> e, ts |-> p.due]) /\ UNCHANGED queued
         \/ ~ Soon(p.due) /\ QueueData([msg |-> e, ts |-> p.due]) /\ UNCHANGED handled
      /\ UNCHANGED <<unsent, inbox, thread>>
  BY DEF Element, worldVars
<1>8. Takes(p, k, e)
  BY <1>1, <1>2, <1>3, <1>5, <1>6, <1>7 DEF Takes
<1>9. QED
  BY <1>1, <1>8

\* m is inserted at i
PutsAt(i, m) ==
  /\ IsPlace(i, m.ts)
  /\ queued' \in Seq(Message) /\ Len(queued') = Len(queued) + 1 /\ Len(queued) \in Nat
  /\ queued'[i] = m
  /\ \A j \in 1..i - 1 : queued'[j] = queued[j]
  /\ \A j \in i + 1..Len(queued) + 1 : queued'[j] = queued[j - 1]

(* queue_data inserts at the one place behind all that is not later. *)
LEMMA Queued ==
  ASSUME Types, NEW m \in Message, QueueData(m)
  PROVE  \E i \in 1..Len(queued) + 1 : PutsAt(i, m)
<1>1. PICK i \in 1..Len(queued) + 1 : IsPlace(i, m.ts) /\ queued' = InsertAt(queued, i, m)
  BY DEF QueueData
<1>2. queued \in Seq(Message) /\ Len(queued) \in Nat
  BY DEF Types
<1>3. PutsAt(i, m)
  <2>1. queued' \in Seq(Message) /\ HasInserted(queued, i, m, queued')
    BY <1>1, <1>2, Inserted
  <2>2. QED
    BY <1>1, <1>2, <2>1 DEF PutsAt, HasInserted
<1>4. QED
  BY <1>3

(* A call is recorded at the end. *)
LEMMA HandledOne ==
  ASSUME Types, local.now \in Times, NEW m, m.msg \in Messages, m.ts \in Nat \cup {Immediate},
         Calls(m)
  PROVE  /\ handled' \in Seq(Call) /\ Len(handled') = Len(handled) + 1 /\ Len(handled) \in Nat
         /\ handled'[Len(handled) + 1] =
              [msg |-> m.msg, src |-> addr, ts |-> m.ts, at |-> local.now]
         /\ \A i \in 1..Len(handled) : handled'[i] = handled[i]
<1>1. [msg |-> m.msg, src |-> addr, ts |-> m.ts, at |-> local.now] \in Call
  BY DEF Call, Types, Times
<1> DEFINE c == [msg |-> m.msg, src |-> addr, ts |-> m.ts, at |-> local.now]
<1>2. handled' = Append(handled, c) /\ handled \in Seq(Call) /\ c \in Call
  BY <1>1 DEF Calls, Types
<1> HIDE DEF c
<1>3. /\ handled' \in Seq(Call) /\ Len(handled') = Len(handled) + 1 /\ Len(handled) \in Nat
      /\ handled'[Len(handled) + 1] = c
      /\ \A i \in 1..Len(handled) : handled'[i] = handled[i]
  BY <1>2, AppendProperties
<1>4. QED
  BY <1>3 DEF c

(* An element is recorded at the end. *)
LEMMA AcceptedOne ==
  ASSUME Types, NEW e \in Messages, accepted' = Append(accepted, e)
  PROVE  /\ accepted' \in Seq(Messages) /\ Len(accepted') = Len(accepted) + 1
         /\ Len(accepted) \in Nat /\ accepted'[Len(accepted) + 1] = e
         /\ \A i \in 1..Len(accepted) : accepted'[i] = accepted[i]
         /\ \A m : IsAccepted(m)' <=> IsAccepted(m) \/ m = e
<1>1. /\ accepted' \in Seq(Messages) /\ Len(accepted') = Len(accepted) + 1
      /\ Len(accepted) \in Nat /\ accepted'[Len(accepted) + 1] = e
      /\ \A i \in 1..Len(accepted) : accepted'[i] = accepted[i]
  BY AppendProperties DEF Types
<1>2. DOMAIN accepted' = 1..Len(accepted) + 1 /\ DOMAIN accepted = 1..Len(accepted)
  BY <1>1 DEF Types
<1>3. ASSUME NEW m PROVE IsAccepted(m)' <=> IsAccepted(m) \/ m = e
  BY <1>1, <1>2 DEF IsAccepted
<1>4. QED
  BY <1>1, <1>3

(* Messages differ, so what is taken was not taken before: its packet was not read, or  *)
(* the place in it not reached.                                                         *)
LEMMA TakenOnceStep ==
  ASSUME Types, Control, SentOnce, TakenOnce, [Next]_vars
  PROVE  TakenOnce'
<1>1. ASSUME accepted' = accepted,
             \A p \in Packets : \A k \in DOMAIN p.elems : ToCome(p, k)' => ToCome(p, k)
      PROVE  TakenOnce'
  BY <1>1 DEF TakenOnce, IsAccepted
<1>2. CASE Quiet
  BY <1>1, <1>2, QuietStep DEF ToCome, Waits, serverVars
<1>3. CASE Arrive
  <2>1. PICK p \in unsent :
         /\ unsent' = unsent \ {p} /\ UNCHANGED <<now, addr, serverVars, threadVars, ownerVars>>
         /\ \/ inbox' = inbox
            \/ /\ inbox' \in Seq(Packets) /\ Len(inbox') = Len(inbox) + 1 /\ Len(inbox) \in Nat
               /\ inbox'[Len(inbox) + 1] = p
               /\ \A i \in DOMAIN inbox : inbox'[i] = inbox[i]
    BY <1>3, ArriveStep
  <2>2. inbox \in Seq(Packets)
    BY DEF Types
  <2>3. ASSUME NEW i \in DOMAIN inbox'
        PROVE  \/ i \in DOMAIN inbox /\ inbox'[i] = inbox[i]
               \/ inbox'[i] = p
    BY <2>1, <2>2
  <2>4. \A q : Waits(q)' => Waits(q)
    BY <2>1, <2>3 DEF Waits
  <2>5. UNCHANGED <<accepted, thread, local>>
    BY <2>1 DEF serverVars, threadVars
  <2>6. QED
    BY <1>1, <2>4, <2>5 DEF ToCome
<1>4. CASE Free
  <2>1. UNCHANGED <<accepted, unsent, thread, local>> /\ inbox' = << >>
    BY <1>4 DEF Free, worldVars, serverVars, threadVars
  <2>2. QED
    BY <1>1, <2>1 DEF ToCome, Waits
<1>5. CASE Read
  <2> DEFINE p == inbox[1]
  <2>1. /\ p \in Packets /\ 1 \in DOMAIN inbox
        /\ \A i \in DOMAIN inbox' : inbox'[i] = inbox[i + 1] /\ i + 1 \in DOMAIN inbox
        /\ local' = [data |-> p, pos |-> 1, now |-> now]
        /\ UNCHANGED <<unsent, accepted>>
    BY <1>5, ReadStep DEF serverVars
  <2>2. Waits(p) /\ \A q : Waits(q)' => Waits(q)
    BY <2>1 DEF Waits
  <2>3. QED
    BY <1>1, <2>1, <2>2 DEF ToCome
<1>6. CASE Element
  <2>0. PICK p \in Packets, k \in Nat \ {0}, e \in Messages : Takes(p, k, e)
    BY <1>6, ElementStep
  <2>1. /\ local.data = p /\ local.pos = k /\ thread = "element"
        /\ UNCHANGED <<unsent, inbox, thread>>
        /\ k \in DOMAIN p.elems /\ p.elems[k] = e /\ e # Bad
        /\ accepted' = Append(accepted, e)
        /\ local'.data = p /\ local'.pos = k + 1
    BY <2>0 DEF Takes
  <2>2. /\ accepted' \in Seq(Messages) /\ Len(accepted') = Len(accepted) + 1
        /\ Len(accepted) \in Nat /\ accepted'[Len(accepted) + 1] = e
        /\ \A i \in 1..Len(accepted) : accepted'[i] = accepted[i]
        /\ \A m : IsAccepted(m)' <=> IsAccepted(m) \/ m = e
    BY <2>1, AcceptedOne
  <2>3. ~ Waits(p) /\ ~ IsAccepted(e)
    <3>1. k >= k
      BY <2>1
    <3>2. QED
      BY <2>1, <3>1 DEF SentOnce, TakenOnce, ToCome
  <2>4. ASSUME NEW q \in Packets, NEW j \in DOMAIN q.elems, ToCome(q, j)'
        PROVE  ToCome(q, j) /\ q.elems[j] # e
    <3>1. q.elems \in Seq(Messages \cup {Bad}) /\ j \in Nat
      <4>1. q.elems \in Seq(Messages \cup {Bad})
        BY ServerAssumption
      <4>2. QED
        BY <4>1
    <3>2. CASE Waits(q)'
      <4>1. Waits(q) /\ q # p
        BY <2>1, <2>3, <3>2 DEF Waits
      <4>2. QED
        BY <2>1, <4>1, MessagesDiffer DEF ToCome
    <3>3. CASE q = p /\ j >= k + 1
      <4>1. j >= k /\ j # k
        BY <2>1, <3>1, <3>3
      <4>2. QED
        BY <2>1, <3>3, <4>1, MessagesDiffer DEF ToCome
    <3>4. QED
      BY <2>1, <2>4, <3>2, <3>3 DEF ToCome
  <2>5. \A q \in Packets : \A j \in DOMAIN q.elems : ToCome(q, j)' => ~ IsAccepted(q.elems[j])'
    BY <2>2, <2>4 DEF TakenOnce
  <2>6. ASSUME NEW i \in DOMAIN accepted', NEW j \in DOMAIN accepted', accepted'[i] = accepted'[j]
        PROVE  i = j
    <3>1. DOMAIN accepted = 1..Len(accepted) /\ DOMAIN accepted' = 1..Len(accepted) + 1
      BY <2>2 DEF Types
    <3>2. \A a \in 1..Len(accepted) : accepted[a] # e
      BY <2>3, <3>1 DEF IsAccepted
    <3>3. QED
      BY <2>2, <2>6, <3>1, <3>2 DEF TakenOnce
  <2>7. QED
    BY <2>5, <2>6 DEF TakenOnce
<1>7. CASE EndPacket \/ Due \/ DispatchHead
  <2>1. /\ UNCHANGED <<accepted, unsent, inbox>>
        /\ thread' # "element" \/ UNCHANGED <<thread, local>>
    BY <1>7 DEF EndPacket, Due, DispatchHead, serverVars, worldVars
  <2>2. QED
    BY <1>1, <2>1 DEF ToCome, Waits
<1>8. QED
  BY <1>2, <1>3, <1>4, <1>5, <1>6, <1>7, NextSteps

-----------------------------------------------------------------------------
(* Where messages go. *)

(* Inserting at i: where every message of the old queue is, and where those of the new  *)
(* were.                                                                                *)
LEMMA PutsOne ==
  ASSUME Types, NEW m \in Message, NEW i \in 1..Len(queued) + 1, PutsAt(i, m)
  PROVE  /\ DOMAIN queued = 1..Len(queued) /\ DOMAIN queued' = 1..Len(queued) + 1
         /\ Len(queued) \in Nat /\ i \in Nat
         /\ queued'[i] = m
         /\ \A j \in DOMAIN queued' :
              j # i => queued'[j] = queued[IF j < i THEN j ELSE j - 1]
                       /\ (IF j < i THEN j ELSE j - 1) \in DOMAIN queued
         /\ \A j \in DOMAIN queued : queued'[IF j < i THEN j ELSE j + 1] = queued[j]
                       /\ (IF j < i THEN j ELSE j + 1) \in DOMAIN queued' \ {i}
<1>1. /\ queued \in Seq(Message) /\ Len(queued) \in Nat /\ i \in Nat
      /\ queued' \in Seq(Message) /\ Len(queued') = Len(queued) + 1
  BY DEF PutsAt, Types
<1>2. DOMAIN queued = 1..Len(queued) /\ DOMAIN queued' = 1..Len(queued) + 1
  BY <1>1
<1>3. ASSUME NEW j \in DOMAIN queued', j # i
      PROVE  queued'[j] = queued[IF j < i THEN j ELSE j - 1]
             /\ (IF j < i THEN j ELSE j - 1) \in DOMAIN queued
  BY <1>1, <1>2, <1>3 DEF PutsAt
<1>4. ASSUME NEW j \in DOMAIN queued
      PROVE  queued'[IF j < i THEN j ELSE j + 1] = queued[j]
             /\ (IF j < i THEN j ELSE j + 1) \in DOMAIN queued' \ {i}
  <2>1. CASE j < i
    BY <1>1, <1>2, <2>1 DEF PutsAt
  <2>2. CASE ~ (j < i)
    <3>1. j + 1 \in i + 1..Len(queued) + 1 /\ j + 1 - 1 = j
      BY <1>1, <1>2, <2>2
    <3>2. QED
      BY <1>1, <1>2, <2>2, <3>1 DEF PutsAt
  <2>3. QED
    BY <2>1, <2>2
<1>5. QED
  BY <1>1, <1>2, <1>3, <1>4 DEF PutsAt

(* One message more is queued. *)
LEMMA PutsMessage ==
  ASSUME Types, NEW m \in Message, NEW i \in 1..Len(queued) + 1, PutsAt(i, m)
  PROVE  \A n : IsQueued(n)' <=> IsQueued(n) \/ n = m.msg
<1>1. /\ queued'[i] = m /\ i \in DOMAIN queued'
      /\ \A j \in DOMAIN queued' :
           j # i => queued'[j] = queued[IF j < i THEN j ELSE j - 1]
                    /\ (IF j < i THEN j ELSE j - 1) \in DOMAIN queued
      /\ \A j \in DOMAIN queued : queued'[IF j < i THEN j ELSE j + 1] = queued[j]
                    /\ (IF j < i THEN j ELSE j + 1) \in DOMAIN queued'
  BY PutsOne
<1>2. ASSUME NEW n PROVE IsQueued(n)' => IsQueued(n) \/ n = m.msg
  <2>1. SUFFICES ASSUME NEW j \in DOMAIN queued', queued'[j].msg = n PROVE IsQueued(n) \/ n = m.msg
    BY DEF IsQueued
  <2>2. QED
    BY <1>1, <2>1 DEF IsQueued
<1>3. ASSUME NEW n, IsQueued(n) PROVE IsQueued(n)'
  BY <1>1, <1>3 DEF IsQueued
<1>4. IsQueued(m.msg)'
  BY <1>1 DEF IsQueued
<1>5. QED
  BY <1>2, <1>3, <1>4

(* One message more is handled. *)
LEMMA HandledMessage ==
  ASSUME Types, local.now \in Times, NEW m, m.msg \in Messages, m.ts \in Nat \cup {Immediate},
         Calls(m)
  PROVE  \A n : IsHandled(n)' <=> IsHandled(n) \/ n = m.msg
<1>1. /\ handled' \in Seq(Call) /\ Len(handled') = Len(handled) + 1 /\ Len(handled) \in Nat
      /\ handled'[Len(handled) + 1] = [msg |-> m.msg, src |-> addr, ts |-> m.ts, at |-> local.now]
      /\ \A i \in 1..Len(handled) : handled'[i] = handled[i]
  BY HandledOne
<1>2. DOMAIN handled = 1..Len(handled) /\ DOMAIN handled' = 1..Len(handled) + 1
  BY <1>1 DEF Types
<1>3. handled'[Len(handled) + 1].msg = m.msg /\ Len(handled) + 1 \in DOMAIN handled'
  BY <1>1, <1>2
<1>4. ASSUME NEW n PROVE IsHandled(n)' => IsHandled(n) \/ n = m.msg
  BY <1>1, <1>2, <1>3 DEF IsHandled
<1>5. ASSUME NEW n, IsHandled(n) PROVE IsHandled(n)'
  BY <1>1, <1>2, <1>5 DEF IsHandled
<1>6. IsHandled(m.msg)'
  BY <1>3 DEF IsHandled
<1>7. QED
  BY <1>4, <1>5, <1>6

(* dispatch_queued: the head leaves the queue, and it goes on as long as the next is due. *)
LEMMA DispatchStep ==
  ASSUME Types, Control, DispatchHead
  PROVE  /\ queued[1] \in Message /\ Calls(queued[1]) /\ local.now \in Times
         /\ queued[1].msg \in Messages /\ queued[1].ts \in Nat
         /\ Len(queued) \in Nat \ {0} /\ queued' \in Seq(Message)
         /\ Len(queued') = Len(queued) - 1
         /\ DOMAIN queued = 1..Len(queued) /\ DOMAIN queued' = 1..Len(queued) - 1
         /\ \A j \in DOMAIN queued' : queued'[j] = queued[j + 1]
         /\ UNCHANGED <<accepted, inbox, unsent, errors>>
         /\ thread = "dispatch" /\ thread' # "element"
         /\ IF Goes_on(queued') THEN UNCHANGED <<thread, local>> ELSE thread' = "loop"
<1>1. queued # << >> /\ queued \in Seq(Message) /\ thread = "dispatch"
  BY DEF Control, DispatchHead, ThreadAt, Types
<1>2. /\ Head(queued) = queued[1] /\ Head(queued) \in Message /\ Tail(queued) \in Seq(Message)
      /\ Len(queued) \in Nat \ {0} /\ Len(Tail(queued)) = Len(queued) - 1
      /\ \A i \in 1..Len(queued) - 1 : Tail(queued)[i] = queued[i + 1]
  BY <1>1, TailType
<1>3. local.now \in Times
  BY <1>1 DEF Control, Locals
<1>4. Calls(queued[1]) /\ queued' = Tail(queued)
  BY <1>2 DEF DispatchHead, Rest
<1>5. DOMAIN queued = 1..Len(queued) /\ DOMAIN queued' = 1..Len(queued) - 1
  BY <1>1, <1>2, <1>4
<1>6. /\ UNCHANGED <<accepted, inbox, unsent, errors>> /\ thread' # "element"
      /\ IF Goes_on(queued') THEN UNCHANGED <<thread, local>> ELSE thread' = "loop"
  BY <1>1 DEF DispatchHead, worldVars
<1>7. QED
  BY <1>1, <1>2, <1>3, <1>4, <1>5, <1>6 DEF Message

(* Steps that leave the queue and what was accepted and handled. *)
LEMMA OtherSteps ==
  ASSUME Types, Control, [Next]_vars, ~ Element, ~ DispatchHead
  PROVE  UNCHANGED <<queued, accepted, handled>>
<1>1. CASE Quiet
  BY <1>1, QuietStep DEF serverVars
<1>2. CASE Arrive \/ Free \/ Read \/ EndPacket \/ Due
  BY <1>2 DEF Arrive, Free, Read, EndPacket, Due, serverVars
<1>3. QED
  BY <1>1, <1>2, NextSteps

(* A message that is taken is handled or queued, and one that leaves the queue is handled. *)
LEMMA OnceStep ==
  ASSUME Types, Control, TakenOnce, Once, [Next]_vars
  PROVE  Once'
<1>1. CASE Element
  <2>0. PICK p \in Packets, k \in Nat \ {0}, e \in Messages : Takes(p, k, e)
    BY <1>1, ElementStep
  <2>1. /\ local.data = p /\ local.pos = k /\ thread = "element"
        /\ k \in DOMAIN p.elems /\ p.elems[k] = e
        /\ accepted' = Append(accepted, e) /\ local.now \in Times
        /\ \/ /\ Soon(p.due) /\ Calls([msg |-> e, ts |-> p.due]) /\ UNCHANGED queued
           \/ /\ ~ Soon(p.due) /\ p.due \in Nat /\ UNCHANGED handled
              /\ QueueData([msg |-> e, ts |-> p.due])
    BY <2>0 DEF Takes
  <2>2. \A m : IsAccepted(m)' <=> IsAccepted(m) \/ m = e
    BY <2>1, AcceptedOne
  <2>3. ~ IsAccepted(e)
    <3>1. k >= k
      BY <2>1
    <3>2. QED
      BY <2>1, <3>1 DEF TakenOnce, ToCome
  <2>4. ~ IsHandled(e) /\ ~ IsQueued(e)
    BY <2>3 DEF Once
  <2> DEFINE m == [msg |-> e, ts |-> p.due]
  <2>5. CASE Soon(p.due)
    <3>1. m.msg = e /\ m.ts = p.due /\ p.due \in Nat \cup {Immediate}
      BY ServerAssumption
    <3> HIDE DEF m
    <3>2. Calls(m) /\ queued' = queued
      BY <2>1, <2>5 DEF m
    <3>3. \A n : IsHandled(n)' <=> IsHandled(n) \/ n = e
      BY <2>1, <3>1, <3>2, HandledMessage
    <3>4. \A n : IsQueued(n)' <=> IsQueued(n)
      BY <3>2 DEF IsQueued
    <3>5. \A i, j \in DOMAIN handled' : handled'[i].msg = handled'[j].msg => i = j
      <4>1. /\ handled' \in Seq(Call) /\ Len(handled') = Len(handled) + 1 /\ Len(handled) \in Nat
            /\ handled'[Len(handled) + 1] =
                 [msg |-> e, src |-> addr, ts |-> p.due, at |-> local.now]
            /\ \A i \in 1..Len(handled) : handled'[i] = handled[i]
        BY <2>1, <3>1, <3>2, HandledOne
      <4>2. DOMAIN handled = 1..Len(handled) /\ DOMAIN handled' = 1..Len(handled) + 1
        BY <4>1 DEF Types
      <4>3. \A i \in 1..Len(handled) : handled'[i].msg = handled[i].msg /\ handled[i].msg # e
        BY <2>4, <4>1, <4>2 DEF IsHandled
      <4>4. handled'[Len(handled) + 1].msg = e
        BY <4>1
      <4>5. \A i, j \in 1..Len(handled) : handled[i].msg = handled[j].msg => i = j
        BY <4>2 DEF Once
      <4>6. QED
        BY <4>1, <4>2, <4>3, <4>4, <4>5
    <3>6. QED
      BY <2>2, <2>3, <2>4, <3>2, <3>3, <3>4, <3>5 DEF Once
  <2>6. CASE ~ Soon(p.due)
    <3>1. m \in Message /\ m.msg = e
      BY <2>1, <2>6 DEF Message
    <3> HIDE DEF m
    <3>2. QueueData(m) /\ handled' = handled
      BY <2>1, <2>6 DEF m
    <3>3. PICK i \in 1..Len(queued) + 1 : PutsAt(i, m)
      BY <3>1, <3>2, Queued
    <3>4. \A n : IsQueued(n)' <=> IsQueued(n) \/ n = e
      BY <3>1, <3>3, PutsMessage
    <3>5. \A n : IsHandled(n)' <=> IsHandled(n)
      BY <3>2 DEF IsHandled
    <3>6. ASSUME NEW a \in DOMAIN queued', NEW b \in DOMAIN queued', queued'[a].msg = queued'[b].msg
          PROVE  a = b
      <4>1. /\ DOMAIN queued = 1..Len(queued) /\ DOMAIN queued' = 1..Len(queued) + 1
            /\ Len(queued) \in Nat /\ i \in Nat
            /\ queued'[i] = m
            /\ \A j \in DOMAIN queued' :
                 j # i => queued'[j] = queued[IF j < i THEN j ELSE j - 1]
                          /\ (IF j < i THEN j ELSE j - 1) \in DOMAIN queued
        BY <3>1, <3>3, PutsOne
      <4>2. \A j \in DOMAIN queued' : j # i => queued'[j].msg # e
        BY <2>4, <4>1 DEF IsQueued
      <4>3. CASE a = i \/ b = i
        BY <3>1, <3>6, <4>1, <4>2, <4>3
      <4>4. CASE a # i /\ b # i
        <5>1. (IF a < i THEN a ELSE a - 1) = (IF b < i THEN b ELSE b - 1)
          BY <3>6, <4>1, <4>4 DEF Once
        <5>2. QED
          BY <4>1, <4>4, <5>1
      <4>5. QED
        BY <4>3, <4>4
    <3>7. QED
      BY <2>2, <2>3, <2>4, <3>2, <3>4, <3>5, <3>6 DEF Once
  <2>7. QED
    BY <2>5, <2>6
<1>2. CASE DispatchHead
  <2> DEFINE h == queued[1]
  <2>1. /\ Calls(h) /\ local.now \in Times /\ h.msg \in Messages /\ h.ts \in Nat
        /\ Len(queued) \in Nat \ {0}
        /\ DOMAIN queued = 1..Len(queued) /\ DOMAIN queued' = 1..Len(queued) - 1
        /\ \A j \in DOMAIN queued' : queued'[j] = queued[j + 1]
        /\ accepted' = accepted
    BY <1>2, DispatchStep
  <2>2. \A n : IsHandled(n)' <=> IsHandled(n) \/ n = h.msg
    BY <2>1, HandledMessage
  <2>3. 1 \in DOMAIN queued /\ IsQueued(h.msg) /\ ~ IsHandled(h.msg)
    BY <2>1 DEF Once, IsQueued
  <2>4. ASSUME NEW n PROVE IsQueued(n)' <=> IsQueued(n) /\ n # h.msg
    <3>1. ASSUME NEW j \in DOMAIN queued', queued'[j].msg = n PROVE IsQueued(n) /\ n # h.msg
      <4>1. j + 1 \in DOMAIN queued /\ j + 1 # 1 /\ queued[j + 1].msg = n
        BY <2>1, <3>1
      <4>2. QED
        BY <2>3, <4>1 DEF IsQueued, Once
    <3>2. ASSUME NEW j \in DOMAIN queued, queued[j].msg = n, n # h.msg PROVE IsQueued(n)'
      <4>1. j # 1
        BY <3>2
      <4>2. j - 1 \in DOMAIN queued' /\ j - 1 + 1 = j
        BY <2>1, <4>1
      <4>3. QED
        BY <2>1, <3>2, <4>2 DEF IsQueued
    <3>3. QED
      BY <3>1, <3>2 DEF IsQueued
  <2>5. \A i, j \in DOMAIN queued' : queued'[i].msg = queued'[j].msg => i = j
    <3>1. \A i \in DOMAIN queued' : i \in Int /\ i + 1 \in DOMAIN queued
      BY <2>1
    <3>2. QED
      BY <2>1, <3>1 DEF Once
  <2>6. \A i, j \in DOMAIN handled' : handled'[i].msg = handled'[j].msg => i = j
    <3>1. /\ handled' \in Seq(Call) /\ Len(handled') = Len(handled) + 1 /\ Len(handled) \in Nat
          /\ handled'[Len(handled) + 1] =
               [msg |-> h.msg, src |-> addr, ts |-> h.ts, at |-> local.now]
          /\ \A i \in 1..Len(handled) : handled'[i] = handled[i]
      BY <2>1, HandledOne
    <3>2. DOMAIN handled = 1..Len(handled) /\ DOMAIN handled' = 1..Len(handled) + 1
      BY <3>1 DEF Types
    <3>3. \A i \in 1..Len(handled) : handled'[i].msg = handled[i].msg /\ handled[i].msg # h.msg
      BY <2>3, <3>1, <3>2 DEF IsHandled
    <3>4. handled'[Len(handled) + 1].msg = h.msg
      BY <3>1
    <3>5. \A i, j \in 1..Len(handled) : handled[i].msg = handled[j].msg => i = j
      BY <3>2 DEF Once
    <3>6. QED
      BY <3>1, <3>2, <3>3, <3>4, <3>5
  <2>7. \A m : IsAccepted(m)' <=> IsAccepted(m)
    BY <2>1 DEF IsAccepted
  <2>8. QED
    BY <2>2, <2>3, <2>4, <2>5, <2>6, <2>7 DEF Once
<1>3. CASE ~ Element /\ ~ DispatchHead
  BY <1>3, OtherSteps DEF Once, IsHandled, IsQueued, IsAccepted
<1>4. QED
  BY <1>1, <1>2, <1>3

-----------------------------------------------------------------------------
(* The order of the queue. *)

(* What is queued has the time of its packet, wherever it is inserted. *)
LEMMA FromPacketsStep ==
  ASSUME Types, Control, FromPackets, [Next]_vars
  PROVE  FromPackets'
<1> DEFINE Is(x) == \E p \in Packets : \E k \in DOMAIN p.elems :
                      x = [msg |-> p.elems[k], ts |-> p.due]
<1>1. CASE Element
  <2>0. PICK p \in Packets, k \in Nat \ {0}, e \in Messages : Takes(p, k, e)
    BY <1>1, ElementStep
  <2>1. /\ k \in DOMAIN p.elems /\ p.elems[k] = e
        /\ \/ /\ Soon(p.due) /\ Calls([msg |-> e, ts |-> p.due]) /\ UNCHANGED queued
           \/ /\ ~ Soon(p.due) /\ p.due \in Nat /\ UNCHANGED handled
              /\ QueueData([msg |-> e, ts |-> p.due])
    BY <2>0 DEF Takes
  <2>2. CASE UNCHANGED queued
    BY <2>2 DEF FromPackets
  <2>3. CASE p.due \in Nat /\ QueueData([msg |-> e, ts |-> p.due])
    <3> DEFINE m == [msg |-> e, ts |-> p.due]
    <3>1. m \in Message /\ Is(m)
      BY <2>1, <2>3 DEF Message
    <3> HIDE DEF m
    <3>2. PICK i \in 1..Len(queued) + 1 : PutsAt(i, m)
      BY <2>3, <3>1, Queued DEF m
    <3>3. /\ queued'[i] = m
          /\ \A j \in DOMAIN queued' :
               j # i => queued'[j] = queued[IF j < i THEN j ELSE j - 1]
                        /\ (IF j < i THEN j ELSE j - 1) \in DOMAIN queued
      BY <3>1, <3>2, PutsOne
    <3>4. \A j \in DOMAIN queued : Is(queued[j])
      BY DEF FromPackets
    <3> HIDE DEF Is
    <3>5. \A j \in DOMAIN queued' : Is(queued'[j])
      BY <3>1, <3>3, <3>4
    <3>6. QED
      BY <3>5 DEF FromPackets, Is
  <2>4. QED
    BY <2>1, <2>2, <2>3
<1>2. CASE DispatchHead
  <2>1. /\ Len(queued) \in Nat \ {0}
        /\ DOMAIN queued = 1..Len(queued) /\ DOMAIN queued' = 1..Len(queued) - 1
        /\ \A j \in DOMAIN queued' : queued'[j] = queued[j + 1]
    BY <1>2, DispatchStep
  <2>2. \A j \in DOMAIN queued' : j + 1 \in DOMAIN queued
    BY <2>1
  <2>3. QED
    BY <2>1, <2>2 DEF FromPackets
<1>3. CASE ~ Element /\ ~ DispatchHead
  BY <1>3, OtherSteps DEF FromPackets
<1>4. QED
  BY <1>1, <1>2, <1>3

(* The times of queued messages are tags, so their differences are numbers. *)
LEMMA QueueValues ==
  ASSUME Types
  PROVE  \A j \in DOMAIN queued : queued[j] \in Message /\ Value(queued[j].ts) \in Int
<1> SUFFICES ASSUME NEW j \in DOMAIN queued
             PROVE  queued[j] \in Message /\ Value(queued[j].ts) \in Int
  OBVIOUS
<1>1. queued[j] \in Message
  BY DEF Types
<1>2. QED
  BY <1>1, ValueType DEF Message

\* AcceptedBefore of any record of what was accepted
Before(s, m, n) == \A i, j \in DOMAIN s : s[i] = m /\ s[j] = n => i < j

\* the order of two queued messages
InOrder(x, y, s) ==
  \/ Value(x.ts) < Value(y.ts)
  \/ Value(x.ts) = Value(y.ts) /\ Before(s, x.msg, y.msg)

(* QueueOrdered, in these terms; *)
LEMMA OrderOf ==
  ASSUME Types
  PROVE  QueueOrdered <=>
           \A i, j \in DOMAIN queued : i < j => InOrder(queued[i], queued[j], accepted)
  BY QueueValues DEF QueueOrdered, InOrder, Before, AcceptedBefore, Diff

(* and after a step. *)
LEMMA OrderOfNext ==
  ASSUME Types'
  PROVE  QueueOrdered' <=>
           \A i, j \in DOMAIN queued' : i < j => InOrder(queued'[i], queued'[j], accepted')
<1>1. \A j \in DOMAIN queued' : queued'[j] \in Message
  BY DEF Types
<1>2. \A j \in DOMAIN queued' : Value(queued'[j].ts) \in Int
  BY <1>1, ValueType DEF Message
<1>3. QED
  BY <1>2 DEF QueueOrdered, InOrder, Before, AcceptedBefore, Diff, Value

(* Of equal times the newest is last: it is inserted behind them, and accepted last. *)
LEMMA QueueOrderedStep ==
  ASSUME Types, Control, TakenOnce, Once, QueueOrdered, [Next]_vars
  PROVE  QueueOrdered'
<1>1. /\ \A i, j \in DOMAIN queued : i < j => InOrder(queued[i], queued[j], accepted)
      /\ Types'
      /\ (\A i, j \in DOMAIN queued' : i < j => InOrder(queued'[i], queued'[j], accepted'))
           => QueueOrdered'
  BY TypesStep, OrderOf, OrderOfNext
<1>2. CASE Element
  <2>0. PICK p \in Packets, k \in Nat \ {0}, e \in Messages : Takes(p, k, e)
    BY <1>2, ElementStep
  <2>1. /\ local.data = p /\ local.pos = k /\ thread = "element"
        /\ k \in DOMAIN p.elems /\ p.elems[k] = e
        /\ accepted' = Append(accepted, e)
        /\ \/ /\ Soon(p.due) /\ Calls([msg |-> e, ts |-> p.due]) /\ UNCHANGED queued
           \/ /\ ~ Soon(p.due) /\ p.due \in Nat /\ UNCHANGED handled
              /\ QueueData([msg |-> e, ts |-> p.due])
    BY <2>0 DEF Takes
  <2>2. ~ IsAccepted(e)
    <3>1. k >= k
      BY <2>1
    <3>2. QED
      BY <2>1, <3>1 DEF TakenOnce, ToCome
  <2>3. /\ Len(accepted) \in Nat /\ DOMAIN accepted = 1..Len(accepted)
        /\ DOMAIN accepted' = 1..Len(accepted) + 1 /\ accepted'[Len(accepted) + 1] = e
        /\ \A i \in 1..Len(accepted) : accepted'[i] = accepted[i]
    <3>1. /\ accepted' \in Seq(Messages) /\ Len(accepted') = Len(accepted) + 1
          /\ Len(accepted) \in Nat /\ accepted'[Len(accepted) + 1] = e
          /\ \A i \in 1..Len(accepted) : accepted'[i] = accepted[i]
      BY <2>1, AcceptedOne
    <3>2. QED
      BY <3>1 DEF Types
  <2>4. \A a \in 1..Len(accepted) : accepted[a] # e
    BY <2>2, <2>3 DEF IsAccepted
  <2>5. \A m, n : m # e /\ n # e /\ Before(accepted, m, n) => Before(accepted', m, n)
    BY <2>3 DEF Before
  <2>6. \A m : m # e => Before(accepted', m, e)
    BY <2>3, <2>4 DEF Before
  <2>7. \A j \in DOMAIN queued : queued[j].msg # e
    BY <2>1, <2>2 DEF Once, IsQueued
  <2>8. CASE UNCHANGED queued
    BY <1>1, <2>5, <2>7, <2>8 DEF InOrder
  <2>9. CASE p.due \in Nat /\ QueueData([msg |-> e, ts |-> p.due])
    <3> DEFINE m == [msg |-> e, ts |-> p.due]
    <3>1. m \in Message /\ m.msg = e /\ m.ts = p.due
      BY <2>1, <2>9 DEF Message
    <3> HIDE DEF m
    <3>2. PICK i \in 1..Len(queued) + 1 : PutsAt(i, m)
      BY <2>9, <3>1, Queued DEF m
    <3>3. /\ DOMAIN queued = 1..Len(queued) /\ DOMAIN queued' = 1..Len(queued) + 1
          /\ Len(queued) \in Nat /\ i \in Nat
          /\ queued'[i] = m
          /\ \A j \in DOMAIN queued' :
               j # i => queued'[j] = queued[IF j < i THEN j ELSE j - 1]
                        /\ (IF j < i THEN j ELSE j - 1) \in DOMAIN queued
      BY <3>1, <3>2, PutsOne
    <3>4. Value(p.due) \in Int /\ \A j \in DOMAIN queued : Value(queued[j].ts) \in Int
      BY <2>9, QueueValues, ValueType
    <3>5. /\ \A j \in DOMAIN queued : j < i => Value(queued[j].ts) <= Value(p.due)
          /\ i \in DOMAIN queued => Value(queued[i].ts) > Value(p.due)
      BY <3>1, <3>2, <3>3, <3>4 DEF PutsAt, IsPlace, Diff
    <3>7. \A b \in DOMAIN queued : b >= i => Value(queued[b].ts) > Value(p.due)
      BY <1>1, <3>3, <3>4, <3>5 DEF InOrder
    <3>8. ASSUME NEW a \in DOMAIN queued', NEW b \in DOMAIN queued', a < b
          PROVE  InOrder(queued'[a], queued'[b], accepted')
      <4>1. CASE a = i
        <5>1. queued'[b] = queued[b - 1] /\ b - 1 \in DOMAIN queued /\ b - 1 >= i
          BY <3>3, <3>8, <4>1
        <5>2. QED
          BY <3>1, <3>3, <3>7, <4>1, <5>1 DEF InOrder
      <4>2. CASE b = i
        <5>1. queued'[a] = queued[a] /\ a \in DOMAIN queued /\ a < i
          BY <3>3, <3>8, <4>2
        <5>2. Value(queued[a].ts) <= Value(p.due) /\ Before(accepted', queued[a].msg, e)
          BY <2>6, <2>7, <3>5, <5>1
        <5>3. QED
          BY <3>1, <3>3, <3>4, <4>2, <5>1, <5>2 DEF InOrder
      <4>3. CASE a # i /\ b # i
        <5> DEFINE c == IF a < i THEN a ELSE a - 1
                   d == IF b < i THEN b ELSE b - 1
        <5>1. /\ queued'[a] = queued[c] /\ c \in DOMAIN queued
              /\ queued'[b] = queued[d] /\ d \in DOMAIN queued /\ c < d
          BY <3>3, <3>8, <4>3
        <5> HIDE DEF c, d
        <5>2. InOrder(queued[c], queued[d], accepted)
          BY <1>1, <5>1
        <5>3. queued[c].msg # e /\ queued[d].msg # e
          BY <2>7, <5>1
        <5>4. QED
          BY <2>5, <5>1, <5>2, <5>3 DEF InOrder
      <4>4. QED
        BY <4>1, <4>2, <4>3
    <3>9. QED
      BY <1>1, <3>8
  <2>10. QED
    BY <2>1, <2>8, <2>9
<1>3. CASE DispatchHead
  <2>1. /\ Len(queued) \in Nat \ {0}
        /\ DOMAIN queued = 1..Len(queued) /\ DOMAIN queued' = 1..Len(queued) - 1
        /\ \A j \in DOMAIN queued' : queued'[j] = queued[j + 1]
        /\ accepted' = accepted
    BY <1>3, DispatchStep
  <2>2. \A j \in DOMAIN queued' : j + 1 \in DOMAIN queued /\ j \in Int
    BY <2>1
  <2>3. \A a, b \in DOMAIN queued' : a < b => a + 1 < b + 1
    BY <2>2
  <2>4. QED
    BY <1>1, <2>1, <2>2, <2>3
<1>4. CASE ~ Element /\ ~ DispatchHead
  BY <1>4, OtherSteps DEF QueueOrdered, AcceptedBefore, Diff, Value
<1>5. QED
  BY <1>2, <1>3, <1>4

-----------------------------------------------------------------------------
(* Bundles. *)

(* Messages differ, so what follows one is the next element of its own packet. *)
LEMMA FollowsAt ==
  ASSUME NEW p \in Packets, NEW k \in DOMAIN p.elems, p.elems[k] \in Messages,
         NEW n, Follows(n, p.elems[k])
  PROVE  /\ k + 1 \in 1..Len(p.elems) /\ k + 1 \in DOMAIN p.elems
         /\ n = p.elems[k + 1] /\ n # Bad
<1>1. PICK q \in Packets : \E j \in 1..Len(q.elems) - 1 :
        /\ p.elems[k] = q.elems[j] /\ n = q.elems[j + 1]
        /\ \A i \in 1..j + 1 : q.elems[i] # Bad
  BY DEF Follows
<1>2. PICK j \in 1..Len(q.elems) - 1 :
        /\ p.elems[k] = q.elems[j] /\ n = q.elems[j + 1]
        /\ \A i \in 1..j + 1 : q.elems[i] # Bad
  BY <1>1
<1>3. q.elems \in Seq(Messages \cup {Bad}) /\ p.elems[k] # Bad
  BY ServerAssumption
<1>4. /\ j \in DOMAIN q.elems /\ j + 1 \in 1..Len(q.elems)
      /\ j + 1 \in DOMAIN q.elems /\ j + 1 \in 1..j + 1
  BY <1>3
<1>5. p = q /\ k = j
  BY <1>2, <1>3, <1>4, MessagesDiffer
<1>6. QED
  BY <1>2, <1>4, <1>5

(* Two messages of a packet are queued with one time. *)
LEMMA SameTime ==
  ASSUME Types, FromPackets, NEW i \in DOMAIN queued, NEW j \in DOMAIN queued,
         Follows(queued[j].msg, queued[i].msg)
  PROVE  queued[i].ts = queued[j].ts
<1>1. queued[i] \in Message /\ queued[j] \in Message
  BY QueueValues
<1>2. PICK p \in Packets :
        \E k \in DOMAIN p.elems : queued[i] = [msg |-> p.elems[k], ts |-> p.due]
  BY DEF FromPackets
<1>3. PICK k \in DOMAIN p.elems : queued[i] = [msg |-> p.elems[k], ts |-> p.due]
  BY <1>2
<1>4. PICK q \in Packets :
        \E l \in DOMAIN q.elems : queued[j] = [msg |-> q.elems[l], ts |-> q.due]
  BY DEF FromPackets
<1>5. PICK l \in DOMAIN q.elems : queued[j] = [msg |-> q.elems[l], ts |-> q.due]
  BY <1>4
<1>6. queued[i].msg = p.elems[k] /\ queued[j].msg = q.elems[l]
  BY <1>3, <1>5
<1>7. p.elems[k] \in Messages /\ q.elems[l] \in Messages
  BY <1>1, <1>6 DEF Message
<1>8. k + 1 \in DOMAIN p.elems /\ q.elems[l] = p.elems[k + 1] /\ q.elems[l] # Bad
  BY <1>6, <1>7, FollowsAt
<1>9. p = q
  BY <1>8, MessagesDiffer
<1>10. QED
  BY <1>3, <1>5, <1>9

(* Steps that take no element and dispatch nothing. *)
LEMMA StaysAbout ==
  ASSUME Types, Control, [Next]_vars, ~ Element, ~ DispatchHead
  PROVE  /\ thread = "dispatch" => UNCHANGED <<thread, local>>
         /\ thread = "element" /\ More => UNCHANGED <<thread, local>>
<1>1. CASE Quiet
  BY <1>1, QuietStep
<1>2. CASE Arrive \/ Free
  BY <1>2 DEF Arrive, Free, threadVars
<1>3. CASE Read \/ EndPacket \/ Due
  BY <1>3 DEF Read, EndPacket, Due, ThreadAt
<1>4. QED
  BY <1>1, <1>2, <1>3, NextSteps

(* The element after the one that was taken is the next one. *)
LEMMA NextElement ==
  ASSUME NEW p \in Packets, NEW k \in Nat \ {0}, k \in DOMAIN p.elems, p.elems[k] \in Messages,
         NEW m, Follows(m, p.elems[k]),
         thread' = "element", local'.data = p, local'.pos = k + 1
  PROVE  IsNext(m)'
<1>1. /\ k + 1 \in 1..Len(p.elems)
      /\ m = p.elems[k + 1] /\ m # Bad
  BY FollowsAt
<1>2. QED
  BY <1>1 DEF IsNext, More

(* The thread takes the elements of a packet in a row, and dispatch_queued does not stop *)
(* between two of one time, which follow each other in the queue.                        *)
LEMMA HandledTogetherStep ==
  ASSUME Types, Control, FromPackets, HandledTogether, QueuedTogether, Timely, [Next]_vars
  PROVE  HandledTogether'
<1>1. CASE Element
  <2>0. PICK p \in Packets, k \in Nat \ {0}, e \in Messages : Takes(p, k, e)
    BY <1>1, ElementStep
  <2>1. /\ local.data = p /\ local.pos = k /\ thread = "element" /\ thread' = thread
        /\ k \in DOMAIN p.elems /\ p.elems[k] = e
        /\ local'.data = p /\ local'.pos = k + 1 /\ local'.now = local.now /\ local.now \in Times
        /\ \/ /\ Soon(p.due) /\ Calls([msg |-> e, ts |-> p.due]) /\ UNCHANGED queued
           \/ /\ ~ Soon(p.due) /\ p.due \in Nat /\ UNCHANGED handled
              /\ QueueData([msg |-> e, ts |-> p.due])
    BY <2>0 DEF Takes
  <2>2. \A m : IsNext(m) => m = e
    BY <2>1 DEF IsNext
  <2>3. CASE Soon(p.due)
    <3> DEFINE c == [msg |-> e, ts |-> p.due]
    <3>1. c.msg = e /\ c.ts = p.due /\ p.due \in Nat \cup {Immediate}
      BY ServerAssumption
    <3> HIDE DEF c
    <3>2. Calls(c)
      BY <2>1, <2>3 DEF c
    <3>3. /\ Len(handled') = Len(handled) + 1 /\ Len(handled) \in Nat
          /\ handled'[Len(handled) + 1] = [msg |-> e, src |-> addr, ts |-> p.due, at |-> local.now]
          /\ \A i \in 1..Len(handled) : handled'[i] = handled[i]
          /\ DOMAIN handled = 1..Len(handled) /\ DOMAIN handled' = 1..Len(handled) + 1
      <4>1. /\ handled' \in Seq(Call) /\ Len(handled') = Len(handled) + 1 /\ Len(handled) \in Nat
            /\ handled'[Len(handled) + 1] =
                 [msg |-> e, src |-> addr, ts |-> p.due, at |-> local.now]
            /\ \A i \in 1..Len(handled) : handled'[i] = handled[i]
        BY <2>1, <3>1, <3>2, HandledOne
      <4>2. QED
        BY <4>1 DEF Types
    <3>4. handled'[Len(handled) + 1].msg = e
      BY <3>3
    <3>5. ASSUME NEW i \in DOMAIN handled', NEW m \in Messages, Follows(m, handled'[i].msg)
          PROVE  IF i < Len(handled') THEN handled'[i + 1].msg = m
                 ELSE IsNext(m)' /\ Soon(local.data.due)'
      <4>1. CASE i < Len(handled)
        <5>1. i \in DOMAIN handled /\ i + 1 \in DOMAIN handled /\ handled'[i] = handled[i]
              /\ handled'[i + 1] = handled[i + 1] /\ i < Len(handled')
          BY <3>3, <3>5, <4>1
        <5>2. QED
          BY <3>5, <4>1, <5>1 DEF HandledTogether
      <4>2. CASE i = Len(handled)
        <5>1. i \in DOMAIN handled /\ handled'[i] = handled[i] /\ i < Len(handled')
              /\ ~ (i < Len(handled))
          BY <3>3, <3>5, <4>2
        <5>2. IsNext(m)
          BY <2>1, <3>5, <5>1 DEF HandledTogether
        <5>3. QED
          BY <2>2, <3>4, <4>2, <5>1, <5>2
      <4>3. CASE i = Len(handled) + 1
        <5>1. Follows(m, p.elems[k]) /\ ~ (i < Len(handled'))
          BY <2>1, <3>3, <3>4, <3>5, <4>3
        <5>2. IsNext(m)'
          BY <2>1, <5>1, NextElement
        <5>3. Soon(local.data.due)'
          BY <2>1, <2>3 DEF Soon, Diff, Value
        <5>4. QED
          BY <5>1, <5>2, <5>3
      <4>4. QED
        BY <3>3, <4>1, <4>2, <4>3
    <3>6. QED
      BY <3>5 DEF HandledTogether
  <2>4. CASE ~ Soon(p.due)
    <3>1. handled' = handled
      BY <2>1, <2>4
    <3>2. ASSUME NEW i \in DOMAIN handled, NEW m \in Messages, Follows(m, handled[i].msg)
          PROVE  i < Len(handled) /\ handled[i + 1].msg = m
      BY <2>1, <2>4, <3>2 DEF HandledTogether
    <3>3. QED
      BY <3>1, <3>2 DEF HandledTogether
  <2>5. QED
    BY <2>3, <2>4
<1>2. CASE DispatchHead
  <2> DEFINE h == queued[1]
  <2>1. /\ Calls(h) /\ local.now \in Times /\ h.msg \in Messages /\ h.ts \in Nat
        /\ queued \in Seq(Message) /\ Len(queued) \in Nat \ {0} /\ queued' \in Seq(Message)
        /\ DOMAIN queued = 1..Len(queued) /\ DOMAIN queued' = 1..Len(queued) - 1
        /\ \A j \in DOMAIN queued' : queued'[j] = queued[j + 1]
        /\ thread = "dispatch"
        /\ Goes_on(queued') => UNCHANGED <<thread, local>>
    BY <1>2, DispatchStep DEF Types
  <2>2. /\ Len(handled') = Len(handled) + 1 /\ Len(handled) \in Nat
        /\ handled'[Len(handled) + 1] = [msg |-> h.msg, src |-> addr, ts |-> h.ts, at |-> local.now]
        /\ \A i \in 1..Len(handled) : handled'[i] = handled[i]
        /\ DOMAIN handled = 1..Len(handled) /\ DOMAIN handled' = 1..Len(handled) + 1
    <3>1. /\ handled' \in Seq(Call) /\ Len(handled') = Len(handled) + 1 /\ Len(handled) \in Nat
          /\ handled'[Len(handled) + 1] =
               [msg |-> h.msg, src |-> addr, ts |-> h.ts, at |-> local.now]
          /\ \A i \in 1..Len(handled) : handled'[i] = handled[i]
      BY <2>1, HandledOne
    <3>2. QED
      BY <3>1 DEF Types
  <2>3. handled'[Len(handled) + 1].msg = h.msg
    BY <2>2
  <2>4. Head(queued) = h
    BY <2>1
  <2>5. ASSUME NEW i \in DOMAIN handled', NEW m \in Messages, Follows(m, handled'[i].msg)
        PROVE  IF i < Len(handled') THEN handled'[i + 1].msg = m
               ELSE thread' = "dispatch" /\ Head(queued').msg = m
    <3>1. CASE i < Len(handled)
      <4>1. i \in DOMAIN handled /\ i + 1 \in DOMAIN handled /\ handled'[i] = handled[i]
            /\ handled'[i + 1] = handled[i + 1] /\ i < Len(handled')
        BY <2>2, <2>5, <3>1
      <4>2. QED
        BY <2>5, <3>1, <4>1 DEF HandledTogether
    <3>2. CASE i = Len(handled)
      <4>1. i \in DOMAIN handled /\ handled'[i] = handled[i] /\ i < Len(handled')
            /\ ~ (i < Len(handled))
        BY <2>2, <2>5, <3>2
      <4>2. Head(queued).msg = m
        BY <2>1, <2>5, <4>1 DEF HandledTogether, IsNext
      <4>3. QED
        BY <2>3, <2>4, <3>2, <4>1, <4>2
    <3>3. CASE i = Len(handled) + 1
      <4>1. Follows(m, h.msg) /\ ~ (i < Len(handled')) /\ 1 \in DOMAIN queued
        BY <2>1, <2>2, <2>3, <2>5, <3>3
      <4>2. 1 < Len(queued) /\ queued[1 + 1].msg = m
        BY <2>1, <4>1 DEF QueuedTogether, IsNext
      <4>3. 1 + 1 \in DOMAIN queued /\ 1 \in DOMAIN queued' /\ queued'[1] = queued[1 + 1]
        BY <2>1, <4>2
      <4>4. queued[1 + 1].ts = h.ts
        BY <4>1, <4>2, <4>3, SameTime
      <4>5. queued' # << >> /\ Head(queued') = queued[1 + 1]
        BY <2>1, <4>3
      <4>6. Diff(h.ts, local.disp_time) <= 0
        BY <2>1, <2>4 DEF Timely
      <4>7. Goes_on(queued')
        BY <4>4, <4>5, <4>6 DEF Goes_on
      <4>8. QED
        BY <2>1, <4>1, <4>2, <4>5, <4>7
    <3>4. QED
      BY <2>2, <3>1, <3>2, <3>3
  <2>6. QED
    BY <2>5 DEF HandledTogether
<1>3. CASE ~ Element /\ ~ DispatchHead
  <2>1. UNCHANGED <<queued, handled>>
    BY <1>3, OtherSteps
  <2>2. /\ thread = "dispatch" => UNCHANGED <<thread, local>>
        /\ thread = "element" /\ More => UNCHANGED <<thread, local>>
    BY <1>3, StaysAbout
  <2>3. CASE UNCHANGED <<thread, local>>
    BY <2>1, <2>3 DEF HandledTogether, IsNext, More, Soon, Diff, Value
  <2>4. CASE ~ UNCHANGED <<thread, local>>
    <3>1. ASSUME NEW i \in DOMAIN handled, NEW m \in Messages, Follows(m, handled[i].msg)
          PROVE  i < Len(handled) /\ handled[i + 1].msg = m
      BY <2>2, <2>4, <3>1 DEF HandledTogether, IsNext
    <3>2. QED
      BY <2>1, <3>1 DEF HandledTogether
  <2>5. QED
    BY <2>3, <2>4
<1>4. QED
  BY <1>1, <1>2, <1>3

(* Two neighbours of one packet have one time, so nothing is inserted between them; and  *)
(* the next element is inserted right behind the one before it.                          *)
LEMMA QueuedTogetherStep ==
  ASSUME Types, Control, FromPackets, QueueOrdered, QueuedTogether, [Next]_vars
  PROVE  QueuedTogether'
<1>1. CASE Element
  <2>0. PICK p \in Packets, k \in Nat \ {0}, e \in Messages : Takes(p, k, e)
    BY <1>1, ElementStep
  <2>1. /\ local.data = p /\ local.pos = k /\ thread = "element" /\ thread' = thread
        /\ k \in DOMAIN p.elems /\ p.elems[k] = e
        /\ local'.data = p /\ local'.pos = k + 1 /\ local'.now = local.now
        /\ \/ Soon(p.due) /\ UNCHANGED queued
           \/ ~ Soon(p.due) /\ p.due \in Nat /\ QueueData([msg |-> e, ts |-> p.due])
    BY <2>0 DEF Takes
  <2>2. \A m : IsNext(m) => m = e
    BY <2>1 DEF IsNext
  <2>3. CASE Soon(p.due)
    <3>1. queued' = queued
      BY <2>1, <2>3
    <3>2. ASSUME NEW j \in DOMAIN queued, NEW m \in Messages, Follows(m, queued[j].msg)
          PROVE  j < Len(queued) /\ queued[j + 1].msg = m
      BY <2>1, <2>3, <3>2 DEF QueuedTogether
    <3>3. QED
      BY <3>1, <3>2 DEF QueuedTogether
  <2>4. CASE ~ Soon(p.due)
    <3> DEFINE m == [msg |-> e, ts |-> p.due]
    <3>1. m \in Message /\ m.msg = e /\ m.ts = p.due
      BY <2>1, <2>4 DEF Message
    <3>2. QueueData(m)
      BY <2>1, <2>4
    <3> HIDE DEF m
    <3>3. PICK i \in 1..Len(queued) + 1 : PutsAt(i, m)
      BY <3>1, <3>2, Queued
    <3>4. /\ DOMAIN queued = 1..Len(queued) /\ DOMAIN queued' = 1..Len(queued) + 1
          /\ Len(queued) \in Nat /\ i \in Nat
          /\ queued'[i] = m
          /\ \A j \in DOMAIN queued' :
               j # i => queued'[j] = queued[IF j < i THEN j ELSE j - 1]
                        /\ (IF j < i THEN j ELSE j - 1) \in DOMAIN queued
          /\ \A j \in DOMAIN queued : queued'[IF j < i THEN j ELSE j + 1] = queued[j]
      BY <3>1, <3>3, PutsOne
    <3>5. Len(queued') = Len(queued) + 1
      BY <3>3 DEF PutsAt
    <3>6. Value(p.due) \in Int /\ \A j \in DOMAIN queued : Value(queued[j].ts) \in Int
      BY <2>1, <2>4, QueueValues, ValueType
    <3>7. /\ \A j \in DOMAIN queued : j < i => Value(queued[j].ts) <= Value(p.due)
          /\ i \in DOMAIN queued => Value(queued[i].ts) > Value(p.due)
      BY <3>1, <3>3, <3>4, <3>6 DEF PutsAt, IsPlace, Diff
    <3>8. \A a, b \in DOMAIN queued : a < b => Value(queued[a].ts) <= Value(queued[b].ts)
      BY <3>6, OrderOf DEF InOrder
    <3>9. ASSUME NEW a \in DOMAIN queued', NEW n \in Messages, Follows(n, queued'[a].msg)
          PROVE  \/ a < Len(queued') /\ queued'[a + 1].msg = n
                 \/ IsNext(n)' /\ ~ Soon(local.data.due)' /\ EndsAt(a, local.data.due)'
      <4>1. CASE a = i
        <5>1. Follows(n, p.elems[k])
          BY <2>1, <3>1, <3>4, <3>9, <4>1
        <5>2. IsNext(n)'
          BY <2>1, <5>1, NextElement
        <5>3. ~ Soon(local.data.due)'
          BY <2>1, <2>4 DEF Soon, Diff, Value
        <5>4. i < Len(queued') => i \in DOMAIN queued /\ queued'[i + 1] = queued[i]
          BY <3>4, <3>5
        <5>5. /\ Value(queued'[i].ts) = Value(p.due)
              /\ i < Len(queued') => Value(queued'[i + 1].ts) > Value(p.due)
          BY <3>1, <3>4, <3>7, <5>4
        <5>6. \A x : Value(x)' = Value(x')
          BY DEF Value
        <5>7. EndsAt(a, local.data.due)'
          <6>1. i < Len(queued') => Value(queued'[i + 1].ts) \in Int
            BY <3>6, <5>4
          <6>2. Value(queued'[i].ts) - Value(p.due) = 0
            BY <3>6, <5>5
          <6>3. i < Len(queued') => Value(queued'[i + 1].ts) - Value(p.due) > 0
            BY <3>6, <5>5, <6>1
          <6>4. QED
            BY <2>1, <4>1, <6>2, <6>3 DEF EndsAt, Diff, Value
        <5>8. QED
          BY <5>2, <5>3, <5>7
      <4>2. CASE a # i
        <5> DEFINE b == IF a < i THEN a ELSE a - 1
        <5>1. queued'[a] = queued[b] /\ b \in DOMAIN queued /\ a \in Nat /\ a >= 1
          BY <3>4, <4>2
        <5>2. (a < i => b = a) /\ (a > i => b = a - 1)
          BY <3>4, <4>2, <5>1
        <5> HIDE DEF b
        <5>3. Follows(n, queued[b].msg)
          BY <3>9, <5>1
        <5>4. \/ b < Len(queued) /\ queued[b + 1].msg = n
              \/ IsNext(n) /\ EndsAt(b, p.due)
          BY <2>1, <5>1, <5>3 DEF QueuedTogether
        <5>5. CASE b < Len(queued) /\ queued[b + 1].msg = n
          <6>1. b + 1 \in DOMAIN queued
            BY <3>4, <5>1, <5>5
          <6>2. queued[b].ts = queued[b + 1].ts
            BY <5>1, <5>3, <5>5, <6>1, SameTime
          <6>3. i # b + 1
            BY <3>4, <3>6, <3>7, <5>1, <6>1, <6>2
          <6>4. a < Len(queued') /\ queued'[a + 1] = queued[b + 1]
            BY <3>4, <3>5, <4>2, <5>1, <5>2, <6>1, <6>3
          <6>5. QED
            BY <5>5, <6>4
        <5>6. CASE IsNext(n) /\ EndsAt(b, p.due)
          <6>1. n = e
            BY <2>2, <5>6
          <6>2. /\ Value(queued[b].ts) = Value(p.due)
                /\ b < Len(queued) =>
                     Value(queued[b + 1].ts) > Value(p.due) /\ b + 1 \in DOMAIN queued
            <7>1. b < Len(queued) => b + 1 \in DOMAIN queued
              BY <3>4, <5>1
            <7>2. QED
              BY <3>6, <5>1, <5>6, <7>1 DEF EndsAt, Diff
          <6>3. ~ (i <= b)
            <7>1. SUFFICES ASSUME i <= b PROVE FALSE
              OBVIOUS
            <7>2. i \in DOMAIN queued
              BY <3>4, <5>1, <7>1
            <7>3. Value(queued[i].ts) <= Value(queued[b].ts)
              <8>1. CASE i = b
                BY <3>6, <7>2, <8>1
              <8>2. CASE i # b
                <9>1. i < b
                  BY <3>4, <5>1, <7>1, <8>2
                <9>2. QED
                  BY <3>8, <5>1, <7>2, <9>1
              <8>3. QED
                BY <8>1, <8>2
            <7>4. QED
              BY <3>6, <3>7, <5>1, <6>2, <7>2, <7>3
          <6>4. ~ (i > b + 1)
            <7>1. SUFFICES ASSUME i > b + 1 PROVE FALSE
              OBVIOUS
            <7>2. b < Len(queued)
              BY <3>4, <5>1, <7>1
            <7>3. QED
              BY <3>6, <3>7, <6>2, <7>1, <7>2
          <6>5. i = b + 1 /\ a = b /\ a < Len(queued')
            BY <3>4, <3>5, <4>2, <5>1, <5>2, <6>3, <6>4
          <6>6. QED
            BY <3>1, <3>4, <6>1, <6>5
        <5>7. QED
          BY <5>4, <5>5, <5>6
      <4>3. QED
        BY <4>1, <4>2
    <3>10. QED
      BY <3>9 DEF QueuedTogether
  <2>5. QED
    BY <2>3, <2>4
<1>2. CASE DispatchHead
  <2>1. /\ Len(queued) \in Nat \ {0} /\ queued' \in Seq(Message)
        /\ DOMAIN queued = 1..Len(queued) /\ DOMAIN queued' = 1..Len(queued) - 1
        /\ \A j \in DOMAIN queued' : queued'[j] = queued[j + 1]
        /\ thread = "dispatch" /\ Len(queued') = Len(queued) - 1
    BY <1>2, DispatchStep
  <2>3. ASSUME NEW a \in DOMAIN queued', NEW n \in Messages, Follows(n, queued'[a].msg)
        PROVE  a < Len(queued') /\ queued'[a + 1].msg = n
    <3>1. a + 1 \in DOMAIN queued /\ queued'[a] = queued[a + 1] /\ a \in Nat
      BY <2>1
    <3>2. a + 1 < Len(queued) /\ queued[a + 1 + 1].msg = n
      BY <2>1, <2>3, <3>1 DEF QueuedTogether, IsNext
    <3>3. a + 1 \in DOMAIN queued' /\ a < Len(queued')
      BY <2>1, <3>1, <3>2
    <3>4. QED
      BY <2>1, <3>2, <3>3
  <2>4. QED
    BY <2>3 DEF QueuedTogether
<1>3. CASE ~ Element /\ ~ DispatchHead
  <2>1. UNCHANGED queued
    BY <1>3, OtherSteps
  <2>2. thread = "element" /\ More => UNCHANGED <<thread, local>>
    BY <1>3, StaysAbout
  <2>3. CASE UNCHANGED <<thread, local>>
    BY <2>1, <2>3 DEF QueuedTogether, IsNext, More, Soon, EndsAt, Diff, Value
  <2>4. CASE ~ UNCHANGED <<thread, local>>
    <3>1. ASSUME NEW j \in DOMAIN queued, NEW m \in Messages, Follows(m, queued[j].msg)
          PROVE  j < Len(queued) /\ queued[j + 1].msg = m
      BY <2>2, <2>4, <3>1 DEF QueuedTogether, IsNext
    <3>2. QED
      BY <2>1, <3>1 DEF QueuedTogether
  <2>5. QED
    BY <2>3, <2>4
<1>4. QED
  BY <1>1, <1>2, <1>3

\* the call is not early
Punctual(c) == c.ts # Immediate => Value(c.ts) - Value(c.at) <= Slack

-----------------------------------------------------------------------------
(* Times. *)

(* What dispatch_queued calls is no later than the head it began with, which was within the *)
(* slack of the clock when it began.                                                        *)
LEMMA TimelyStep ==
  ASSUME Types, Control, Timely, [Next]_vars
  PROVE  Timely'
<1>1. ASSUME NEW m, m.msg \in Messages, m.ts \in Nat \cup {Immediate},
             local.now \in Times, Calls(m),
             m.ts # Immediate => Value(m.ts) - Value(local.now) <= Slack
      PROVE  \A i \in DOMAIN handled' : Punctual(handled'[i])
  <2> DEFINE c == [msg |-> m.msg, src |-> addr, ts |-> m.ts, at |-> local.now]
  <2>1. /\ handled' \in Seq(Call) /\ Len(handled') = Len(handled) + 1 /\ Len(handled) \in Nat
        /\ handled'[Len(handled) + 1] = c
        /\ \A i \in 1..Len(handled) : handled'[i] = handled[i]
    BY <1>1, HandledOne
  <2>2. DOMAIN handled = 1..Len(handled) /\ DOMAIN handled' = 1..Len(handled) + 1
    BY <2>1 DEF Types
  <2>3. Punctual(c)
    BY <1>1 DEF Punctual
  <2> HIDE DEF c
  <2>4. \A i \in DOMAIN handled : Punctual(handled[i])
    BY DEF Timely, NotEarly, Punctual, Diff
  <2>5. QED
    BY <2>1, <2>2, <2>3, <2>4
<1>2. (\A i \in DOMAIN handled' : Punctual(handled'[i])) /\ ~ errors' => NotEarly'
  BY DEF NotEarly, Punctual, Diff, Value
<1>3. CASE Element
  <2>0. PICK p \in Packets, k \in Nat \ {0}, e \in Messages : Takes(p, k, e)
    BY <1>3, ElementStep
  <2>1. /\ thread' = "element" /\ local.now \in Times
        /\ \/ Soon(p.due) /\ Calls([msg |-> e, ts |-> p.due])
           \/ UNCHANGED handled
    BY <2>0 DEF Takes
  <2>2. UNCHANGED errors
    BY <1>3 DEF Element
  <2>3. CASE UNCHANGED handled
    BY <2>1, <2>2, <2>3 DEF Timely, NotEarly, Diff, Value
  <2>4. CASE Soon(p.due) /\ Calls([msg |-> e, ts |-> p.due])
    <3> DEFINE m == [msg |-> e, ts |-> p.due]
    <3>1. m.msg \in Messages /\ m.ts \in Nat \cup {Immediate} /\ m.ts = p.due
      BY ServerAssumption
    <3>2. Calls(m)
      BY <2>4
    <3>3. m.ts # Immediate => Value(m.ts) - Value(local.now) <= Slack
      <4>1. SUFFICES ASSUME p.due # Immediate PROVE Value(p.due) - Value(local.now) <= Slack
        BY <3>1
      <4>2. p.due \in Nat /\ local.now \in Nat /\ Slack \in Nat
        BY <2>1, <3>1, <4>1, ServerAssumption DEF Times
      <4>3. Value(p.due) - Value(local.now) <= 0
        BY <2>4, <4>1 DEF Soon, Diff
      <4>4. Value(p.due) \in Int /\ Value(local.now) \in Int
        BY <4>2, ValueType
      <4>5. QED
        BY <4>2, <4>3, <4>4
    <3> HIDE DEF m
    <3>4. \A i \in DOMAIN handled' : Punctual(handled'[i])
      BY <1>1, <2>1, <3>1, <3>2, <3>3
    <3>5. QED
      BY <1>2, <2>1, <2>2, <3>4 DEF Timely, NotEarly
  <2>5. QED
    BY <2>1, <2>3, <2>4
<1>4. CASE DispatchHead
  <2> DEFINE h == queued[1]
  <2>1. /\ Calls(h) /\ local.now \in Times /\ h.msg \in Messages /\ h.ts \in Nat
        /\ Len(queued) \in Nat \ {0} /\ queued \in Seq(Message) /\ thread = "dispatch"
        /\ UNCHANGED errors
        /\ IF Goes_on(queued') THEN UNCHANGED <<thread, local>> ELSE thread' = "loop"
    BY <1>4, DispatchStep DEF Types
  <2>2. Head(queued) = h
    BY <2>1
  <2>3. /\ Value(h.ts) - Value(local.disp_time) <= 0
        /\ Value(local.disp_time) - Value(local.now) <= Slack
    BY <2>1, <2>2 DEF Timely, Diff
  <2>4. local.disp_time \in Nat /\ local.now \in Nat /\ Slack \in Nat
    BY <2>1, ServerAssumption DEF Control, Locals, Times
  <2>5. Value(h.ts) \in Int /\ Value(local.disp_time) \in Int /\ Value(local.now) \in Int
    BY <2>1, <2>4, ValueType
  <2>6. Value(h.ts) - Value(local.now) <= Slack
    BY <2>3, <2>4, <2>5
  <2> HIDE DEF h
  <2>7. \A i \in DOMAIN handled' : Punctual(handled'[i])
    BY <1>1, <2>1, <2>6
  <2>8. NotEarly'
    BY <1>2, <2>1, <2>7 DEF Timely, NotEarly
  <2>9. CASE Goes_on(queued')
    <3>1. Diff(Head(queued').ts, local.disp_time) <= 0 /\ UNCHANGED <<thread, local>>
      BY <2>1, <2>9 DEF Goes_on
    <3>2. QED
      BY <2>1, <2>8, <3>1 DEF Timely, Diff, Value
  <2>10. CASE ~ Goes_on(queued')
    BY <2>1, <2>8, <2>10 DEF Timely
  <2>11. QED
    BY <2>9, <2>10
<1>5. CASE Due
  <2>1. Delay <= Slack
    BY <1>5 DEF Due
  <2>2. queued # << >> /\ Diff(Head(queued).ts, now) <= Slack
    BY <2>1, DelayType
  <2>3. /\ thread' = "dispatch" /\ UNCHANGED <<errors, queued, handled>>
        /\ local' = [disp_time |-> Head(queued).ts, now |-> now]
    BY <1>5, <2>2 DEF Due
  <2>4. Value(Head(queued).ts) \in Int
    <3>1. Head(queued) \in Message
      BY <2>2 DEF Types
    <3>2. QED
      BY <3>1, ValueType DEF Message
  <2>5. Diff(Head(queued).ts, Head(queued).ts) <= 0
    BY <2>4 DEF Diff
  <2>6. local'.disp_time = Head(queued).ts /\ local'.now = now
    BY <2>3
  <2>7. NotEarly'
    BY <2>3 DEF Timely, NotEarly, Diff, Value
  <2>8. QED
    BY <2>2, <2>3, <2>5, <2>6, <2>7 DEF Timely, Diff, Value
<1>6. CASE Quiet
  BY <1>6, QuietStep DEF Timely, NotEarly, Diff, Value, serverVars
<1>7. CASE Arrive \/ Free
  BY <1>7 DEF Arrive, Free, Timely, NotEarly, Diff, Value, serverVars, threadVars
<1>8. CASE Read \/ EndPacket
  BY <1>8 DEF Read, EndPacket, Timely, NotEarly, Diff, Value, serverVars
<1>9. QED
  BY <1>3, <1>4, <1>5, <1>6, <1>7, <1>8, NextSteps

-----------------------------------------------------------------------------
(* The theorems. *)

(* It holds at first: nothing was sent, and there is no thread. *)
LEMMA InitHolds ==
  ASSUME Init
  PROVE  Inv
<1>1. Types
  <2>1. now \in Times /\ starts \in 0..MaxStarts /\ Len(inbox) <= Capacity
    BY ServerAssumption DEF Init, Times
  <2>2. << >> \in Seq(Packets) /\ << >> \in Seq(Message) /\ << >> \in Seq(Messages)
        /\ << >> \in Seq(Call)
    OBVIOUS
  <2>3. QED
    BY <2>1, <2>2 DEF Init, Types
<1>2. Control
  BY DEF Init, Control, Locals
<1>3. DOMAIN queued = {} /\ DOMAIN handled = {} /\ DOMAIN accepted = {} /\ DOMAIN inbox = {}
      /\ thread = "ended" /\ errors = FALSE
  BY DEF Init
<1>4. SentOnce
  BY <1>3 DEF SentOnce
<1>5. TakenOnce
  BY <1>3 DEF TakenOnce, IsAccepted
<1>6. Once
  BY <1>3 DEF Once, IsAccepted, IsHandled, IsQueued
<1>7. FromPackets /\ QueueOrdered
  BY <1>3 DEF FromPackets, QueueOrdered
<1>8. HandledTogether /\ QueuedTogether
  BY <1>3 DEF HandledTogether, QueuedTogether
<1>9. Timely
  BY <1>3 DEF Timely, NotEarly
<1>10. QED
  BY <1>1, <1>2, <1>4, <1>5, <1>6, <1>7, <1>8, <1>9 DEF Inv

(* Every step keeps it. *)
LEMMA InvStep ==
  ASSUME Inv, [Next]_vars
  PROVE  Inv'
<1>1. /\ Types /\ Control /\ SentOnce /\ TakenOnce /\ Once /\ FromPackets
      /\ QueueOrdered /\ HandledTogether /\ QueuedTogether /\ Timely
  BY DEF Inv
<1>2. Types' /\ Control'
  BY <1>1, TypesStep, ControlStep
<1>3. SentOnce' /\ TakenOnce' /\ Once'
  BY <1>1, SentOnceStep, TakenOnceStep, OnceStep
<1>4. FromPackets' /\ QueueOrdered'
  BY <1>1, FromPacketsStep, QueueOrderedStep
<1>5. HandledTogether' /\ QueuedTogether'
  BY <1>1, HandledTogetherStep, QueuedTogetherStep
<1>6. Timely'
  BY <1>1, TimelyStep
<1>7. QED
  BY <1>2, <1>3, <1>4, <1>5, <1>6 DEF Inv

(* So it holds always. *)
LEMMA Invariance == Spec => []Inv
<1>1. Init => Inv
  BY InitHolds
<1>2. Inv /\ [Next]_vars => Inv'
  BY InvStep
<1>3. QED
  BY <1>1, <1>2, PTL DEF Spec

(* server.c queue_data keeps the queue in the order of the times, and messages of one time *)
(* in the order in which they came; and every variable has its type.                        *)
THEOREM QueueInOrder == Spec => []TypeOK
<1>1. Inv => TypeOK
  <2> SUFFICES ASSUME Types, Control, QueueOrdered PROVE TypeOK
    BY DEF Inv
  <2>1. local \in [wakeAt : 0..MaxNow + MaxWait]
              \cup [data : Packets, pos : Nat \ {0}, now : 0..MaxNow]
              \cup [disp_time : Nat, now : 0..MaxNow] \cup {NoLocals}
    BY Zenon DEF Control, Locals, Times
  <2>2. errors \in BOOLEAN
    BY DEF Types
  <2>3. QED
    BY <2>1, <2>2 DEF TypeOK, Types, Control, Times
<1>2. QED
  BY <1>1, Invariance, PTL

(* server.c: a message that a packet brought is in the queue or was handled, once, whatever *)
(* bundles share its time, and whatever arrives while dispatch_queued runs.                 *)
THEOREM HandledExactlyOnce == Spec => []ExactlyOnce
<1>1. Inv => ExactlyOnce
  <2> SUFFICES ASSUME Types, Once, NEW i \in DOMAIN accepted
               PROVE  Cardinality({j \in DOMAIN handled : handled[j].msg = accepted[i]})
                        + Cardinality({j \in DOMAIN queued : queued[j].msg = accepted[i]}) = 1
    BY DEF Inv, ExactlyOnce
  <2> DEFINE m == accepted[i]
             H == {j \in DOMAIN handled : handled[j].msg = m}
             Q == {j \in DOMAIN queued : queued[j].msg = m}
  <2>1. m \in Messages /\ IsAccepted(m)
    BY DEF Types, IsAccepted
  <2>2. CASE IsHandled(m)
    <3>1. PICK j \in DOMAIN handled : handled[j].msg = m
      BY <2>2 DEF IsHandled
    <3>2. H = {j}
      BY <3>1 DEF Once
    <3>3. Q = {}
      BY <2>1, <2>2 DEF Once, IsQueued
    <3>4. Cardinality(H) = 1 /\ Cardinality(Q) = 0
      BY <3>2, <3>3, FS_Singleton, FS_EmptySet
    <3>5. QED
      BY <3>4
  <2>3. CASE ~ IsHandled(m)
    <3>1. IsQueued(m)
      BY <2>1, <2>3 DEF Once
    <3>2. PICK j \in DOMAIN queued : queued[j].msg = m
      BY <3>1 DEF IsQueued
    <3>3. Q = {j}
      BY <3>2 DEF Once
    <3>4. H = {}
      BY <2>3 DEF IsHandled
    <3>5. Cardinality(Q) = 1 /\ Cardinality(H) = 0
      BY <3>3, <3>4, FS_Singleton, FS_EmptySet
    <3>6. QED
      BY <3>5
  <2>4. QED
    BY <2>2, <2>3
<1>2. QED
  BY <1>1, Invariance, PTL

(* server.c: the messages of a bundle are handled in their order and with nothing between    *)
(* them, at once or through the queue.                                                      *)
THEOREM BundlesStayWhole == Spec => []BundleAtomic
<1>1. Inv => BundleAtomic
  BY DEF Inv, HandledTogether, BundleAtomic, IsNext
<1>2. QED
  BY <1>1, Invariance, PTL

(* server.c: no message is handled before its time, less the slack, by the difference that   *)
(* lo_timetag_diff computes; and dispatch_queued never finds the queue empty.               *)
THEOREM NothingIsEarly == Spec => []NotEarly
<1>1. Inv => NotEarly
  BY DEF Inv, Timely
<1>2. QED
  BY <1>1, Invariance, PTL

(* server_thread.c: no handler runs and no socket is read while the thread is stopped, so   *)
(* that the owner may free what they use: lo_server_thread_stop joins it first.             *)
THEOREM NeverCalledBackWhenStopped == Spec => NoCallbackWhenStopped
<1> DEFINE Idle == owner = "freed" \/ (owner = "idle" /\ ~ active)
<1>1. Inv /\ [Next]_vars => [Idle => UNCHANGED <<handled, accepted>>]_vars
  <2> SUFFICES ASSUME Control, Next, Idle PROVE UNCHANGED <<handled, accepted>>
    BY DEF Inv, vars, serverVars
  <2>1. thread = "ended"
    BY DEF Control
  <2>2. CASE Tick \/ Arrive \/ Start \/ Stop \/ Join \/ Free
    BY <2>2 DEF Tick, Arrive, Start, Stop, Join, Free, serverVars
  <2>3. CASE Thread
    BY <2>1, <2>3 DEF Thread, ThreadAt, Loop, PollReadable, PollTimeout, Wait, WaitReadable,
                      WaitAgain, Read, Element, EndPacket, Due, DispatchHead
  <2>4. QED
    BY <2>2, <2>3 DEF Next
<1>2. QED
  BY <1>1, Invariance, PTL DEF Spec, NoCallbackWhenStopped
===============================================================================
