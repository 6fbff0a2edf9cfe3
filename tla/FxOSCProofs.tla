----------------------------- MODULE FxOSCProofs -----------------------------
(***************************************************************************)
(* What the globals of FxOSC.m guarantee for any requests, however stores  *)
(* and reads interleave: that a reset builds at most one world; and that a *)
(* request whose own handler no frame overlapped arrives whole, whatever   *)
(* the races before it left behind.                                        *)
(***************************************************************************)
EXTENDS FxOSC, SequenceTheorems, FiniteSetTheorems, TLAPS

-----------------------------------------------------------------------------
(* What the handlers store, word by word. *)

\* the globals, and the two stores that are more than one
Names == {"reset", "geometry", "weights", "setpoll", "pollsize", "malloc", "entry",
          "done", "patch", "cmd", "setcell"}
Words == Names \X Nat

(* A handler that has k stores behind it goes on with store k + 1. *)
LEMMA NextStore ==
  ASSUME NEW S, NEW s \in Seq(S), NEW k \in 0..Len(s) - 1
  PROVE  LET t == SubSeq(s, k + 1, Len(s)) IN
         /\ t # << >> /\ Head(t) = s[k + 1]
         /\ Tail(t) = SubSeq(s, k + 2, Len(s))
         /\ k + 1 = Len(s) <=> Tail(t) = << >>
<1> DEFINE t == SubSeq(s, k + 1, Len(s))
<1>1. Len(s) \in Nat
  OBVIOUS
<1>2. Head(t) = s[k + 1] /\ Tail(t) = SubSeq(s, k + 2, Len(s))
  BY <1>1, HeadTailOfSubSeq
<1>3. t \in Seq(S) /\ Len(t) = Len(s) - k
  BY <1>1, SubSeqProperties
<1>4. SubSeq(s, k + 2, Len(s)) \in Seq(S)
      /\ Len(SubSeq(s, k + 2, Len(s))) = Len(s) - k - 1
  <2>1. k + 2 \in 1..Len(s) + 1 /\ Len(s) \in k + 1..Len(s)
    BY <1>1
  <2>2. QED
    BY <1>1, <2>1, SubSeqProperties
<1>5. t # << >>
  <2> HIDE DEF t
  <2>1. QED
    BY <1>1, <1>3
<1>6. k + 1 = Len(s) <=> Tail(t) = << >>
  <2> DEFINE u == SubSeq(s, k + 2, Len(s))
  <2>1. u \in Seq(S) /\ Len(u) = Len(s) - k - 1
    BY <1>4
  <2> HIDE DEF u
  <2>2. Len(u) = 0 <=> u = << >>
    BY <2>1
  <2>3. QED
    BY <1>1, <1>2, <2>1, <2>2 DEF u
<1>7. QED
  BY <1>2, <1>5, <1>6

(* The stores of reset_handler: the kind first, then the two arguments. *)
LEMMA WorldStores ==
  ASSUME NEW n \in Nat, NEW r, r.path = "/fx/world", r.arg \in Nat
  PROVE  LET s == Stores(r, n) IN
         /\ s \in Seq(Words) /\ Len(s) = 3
         /\ s[1] = <<"reset", r.arg>> /\ s[2] = <<"geometry", n>> /\ s[3] = <<"weights", n>>
<1>1. <<"reset", r.arg>> \in Words /\ <<"geometry", n>> \in Words /\ <<"weights", n>> \in Words
  BY DEF Words, Names
<1>2. QED
  BY <1>1 DEF Stores, ResetHandler

(* The stores of patch_handler: the patch, then what to do with it. *)
LEMMA PatchStores ==
  ASSUME NEW n \in Nat, NEW r, r.path = "/fx/patch", r.arg \in Nat
  PROVE  LET s == Stores(r, n) IN
         /\ s \in Seq(Words) /\ Len(s) = 2
         /\ s[1] = <<"patch", r.arg>> /\ s[2] = <<"cmd", n>>
<1>1. <<"patch", r.arg>> \in Words /\ <<"cmd", n>> \in Words
  BY DEF Words, Names
<1>2. QED
  BY <1>1 DEF Stores, PatchHandler

(* cell_handler and quit_handler store one flag each. *)
LEMMA FlagStores ==
  ASSUME NEW n \in Nat, NEW r, r.path \in {"/fx/cell", "/fx/quit"}
  PROVE  LET s == Stores(r, n) IN
         /\ s \in Seq(Words) /\ Len(s) = 1
         /\ r.path = "/fx/cell" => s[1] = <<"setcell", 1>>
         /\ r.path = "/fx/quit" => s[1] = <<"done", 1>>
<1>1. <<"setcell", 1>> \in Words /\ <<"done", 1>> \in Words
  BY DEF Words, Names
<1>2. QED
  BY <1>1 DEF Stores, CellHandler, QuitHandler

(* The stores of a poll list of the given size, the n-th request. *)
ArePollStores(s, n, size) ==
  /\ s \in Seq(Words) /\ Len(s) = size + 3
  /\ s[1] = <<"setpoll", 1>> /\ s[2] = <<"pollsize", size>> /\ s[3] = <<"malloc", n>>
  /\ \A k \in 4..size + 3 : s[k] = <<"entry", k - 3>>

(* The stores of poll_handler: the flag, the size, the block, the entries. *)
LEMMA PollStores ==
  ASSUME NEW n \in Nat, NEW r, r.path = "/fx/poll", r.arg \in Nat
  PROVE  ArePollStores(Stores(r, n), n, r.arg)
<1> DEFINE h == << <<"setpoll", 1>>, <<"pollsize", r.arg>>, <<"malloc", n>> >>
           e == [i \in 1..r.arg |-> <<"entry", i>>]
<1>1. h \in Seq(Words) /\ Len(h) = 3
      /\ h[1] = <<"setpoll", 1>> /\ h[2] = <<"pollsize", r.arg>> /\ h[3] = <<"malloc", n>>
  <2>1. <<"setpoll", 1>> \in Words /\ <<"pollsize", r.arg>> \in Words /\ <<"malloc", n>> \in Words
    BY DEF Words, Names
  <2>2. QED
    BY <2>1
<1>2. e \in Seq(Words) /\ Len(e) = r.arg /\ \A i \in 1..r.arg : e[i] = <<"entry", i>>
  <2>1. \A i \in 1..r.arg : <<"entry", i>> \in Words
    BY DEF Words, Names
  <2>2. QED
    BY <2>1
<1>3. Stores(r, n) = h \o e
  BY DEF Stores, PollHandler
<1> HIDE DEF h, e
<1>4. /\ h \o e \in Seq(Words) /\ Len(h \o e) = Len(h) + Len(e)
      /\ \A k \in 1..Len(h) + Len(e) :
           (h \o e)[k] = IF k <= Len(h) THEN h[k] ELSE e[k - Len(h)]
  <2>1. h \in Seq(Words) /\ e \in Seq(Words)
    BY <1>1, <1>2
  <2>2. QED
    BY <2>1, ConcatProperties
<1>5. \A k \in 4..r.arg + 3 : (h \o e)[k] = <<"entry", k - 3>>
  <2> TAKE k \in 4..r.arg + 3
  <2>1. k - 3 \in 1..r.arg /\ k \in 1..r.arg + 3 /\ ~ k <= 3
    OBVIOUS
  <2>2. (h \o e)[k] = e[k - 3]
    BY <1>1, <1>2, <1>4, <2>1
  <2>3. QED
    BY <1>2, <2>1, <2>2
<1>6. (h \o e)[1] = h[1] /\ (h \o e)[2] = h[2] /\ (h \o e)[3] = h[3]
  <2>1. 1 \in 1..Len(h) + Len(e) /\ 2 \in 1..Len(h) + Len(e) /\ 3 \in 1..Len(h) + Len(e)
    BY <1>1, <1>2
  <2>2. 1 <= Len(h) /\ 2 <= Len(h) /\ 3 <= Len(h)
    BY <1>1
  <2>3. QED
    BY <1>4, <2>1, <2>2
<1>7. Len(h \o e) = r.arg + 3
  BY <1>1, <1>2, <1>4
<1>8. QED
  BY <1>1, <1>3, <1>4, <1>5, <1>6, <1>7, Zenon DEF ArePollStores

-----------------------------------------------------------------------------
(* The handler of request r has k of its stores behind it. *)
Running(r, k) ==
  /\ 0 < last
  /\ k < Len(Stores(r, last))
  /\ job = SubSeq(Stores(r, last), k + 1, Len(Stores(r, last)))

\* what MailAssumption says of a request
IsRequest(r) ==
  /\ r.path \in {"/fx/patch", "/fx/world", "/fx/cell", "/fx/poll", "/fx/quit"}
  /\ r.arg \in Nat

(* Whatever the request, its handler stores a sequence of words, one at least. *)
LEMMA StoresAreWords ==
  ASSUME NEW n \in Nat, NEW r, IsRequest(r)
  PROVE  Stores(r, n) \in Seq(Words) /\ Len(Stores(r, n)) > 0
<1>1. r.arg \in Nat
  BY DEF IsRequest
<1>2. CASE r.path = "/fx/world"
  <2>1. Stores(r, n) \in Seq(Words) /\ Len(Stores(r, n)) = 3
    BY <1>1, <1>2, WorldStores
  <2>2. QED
    BY <2>1
<1>3. CASE r.path = "/fx/patch"
  <2>1. Stores(r, n) \in Seq(Words) /\ Len(Stores(r, n)) = 2
    BY <1>1, <1>3, PatchStores
  <2>2. QED
    BY <2>1
<1>4. CASE r.path = "/fx/poll"
  <2>1. Stores(r, n) \in Seq(Words) /\ Len(Stores(r, n)) = r.arg + 3
    BY <1>1, <1>4, PollStores DEF ArePollStores
  <2>2. QED
    BY <1>1, <2>1
<1>5. CASE r.path \in {"/fx/cell", "/fx/quit"}
  <2>1. Stores(r, n) \in Seq(Words) /\ Len(Stores(r, n)) = 1
    BY <1>5, FlagStores
  <2>2. QED
    BY <2>1
<1>6. QED
  BY <1>2, <1>3, <1>4, <1>5 DEF IsRequest

(* A handler that is called has all its stores left. *)
LEMMA HandleStarts ==
  ASSUME last \in Nat, NEW r, IsRequest(r), last' = last + 1, job' = Stores(r, last + 1)
  PROVE  Running(r, 0)'
<1>1. Stores(r, last + 1) \in Seq(Words) /\ Len(Stores(r, last + 1)) > 0
  BY StoresAreWords
<1>2. SubSeq(Stores(r, last + 1), 1, Len(Stores(r, last + 1))) = Stores(r, last + 1)
  BY <1>1, SubSeqFull
<1>3. Stores(r, last') = Stores(r, last + 1) /\ 0 < last' /\ 0 + 1 = 1
  OBVIOUS
<1>4. QED
  BY <1>1, <1>2, <1>3, Zenon DEF Running

(* A store is the next one of the running handler, which then has one more behind it. *)
LEMMA StoreMovesOn ==
  ASSUME last \in Nat, NEW r, IsRequest(r), NEW k \in Nat, Running(r, k), Store
  PROVE  /\ job # << >> /\ Head(job) = Stores(r, last)[k + 1]
         /\ IF k + 1 = Len(Stores(r, last)) THEN job' = << >>
            ELSE job' # << >> /\ Running(r, k + 1)'
<1> DEFINE s == Stores(r, last)
<1>1. s \in Seq(Words) /\ Len(s) \in Nat
  BY StoresAreWords
<1>2. last' = last /\ job' = Tail(job)
  BY DEF Store
<1>3. job = SubSeq(s, k + 1, Len(s)) /\ k \in 0..Len(s) - 1 /\ 0 < last
  BY <1>1 DEF Running
<1> HIDE DEF s
<1>4. /\ job # << >> /\ Head(job) = s[k + 1]
      /\ job' = SubSeq(s, k + 2, Len(s)) /\ (k + 1 = Len(s) <=> job' = << >>)
  BY <1>1, <1>2, <1>3, NextStore
<1>5. k + 1 # Len(s) => Running(r, k + 1)'
  BY <1>1, <1>2, <1>3, <1>4 DEF Running, s
<1>6. QED
  BY <1>4, <1>5 DEF s

\* the store of one word
Sets(name, v) == mail' = [mail EXCEPT ![name] = v] /\ UNCHANGED <<heap, wild>>

\* pollindex = malloc(...), for the size that pollsize has just got
SetsBlock(b) ==
  /\ mail' = [mail EXCEPT !.pollindex = b]
  /\ heap' = [heap EXCEPT ![b] = [used |-> "live", size |-> mail.pollsize, written |-> 0]]
  /\ UNCHANGED wild

(* Every name but two is that of a word, and storing it changes no other. *)
LEMMA SetsWord ==
  ASSUME NEW name \in Names \ {"malloc", "entry"}, NEW v, Head(job) = <<name, v>>, Store
  PROVE  Sets(name, v)
<1>1. Head(job)[1] = name /\ Head(job)[2] = v
  OBVIOUS
<1>2. name # "malloc" /\ name # "entry"
  BY DEF Names
<1>3. QED
  BY <1>1, <1>2 DEF Store, Sets

(* malloc makes a block of pollsize entries, and pollindex point to it. *)
LEMMA Mallocs ==
  ASSUME NEW v, Head(job) = <<"malloc", v>>, Store
  PROVE  SetsBlock(v)
<1>1. Head(job)[1] = "malloc" /\ Head(job)[2] = v
  OBVIOUS
<1>2. QED
  BY <1>1 DEF Store, SetsBlock

(* An entry is stored through the pointer. *)
LEMMA Fills ==
  ASSUME NEW v, Head(job) = <<"entry", v>>, Store
  PROVE  StoreEntry(v) /\ UNCHANGED mail
<1>1. Head(job)[1] = "entry" /\ Head(job)[2] = v
  OBVIOUS
<1>2. QED
  BY <1>1 DEF Store

-----------------------------------------------------------------------------
(* The types, strengthened until every step keeps them. *)

\* every request is sent once, so their numbers never run out
Sent ==
  /\ setting \in Settings /\ IsFiniteSet(unsent)
  /\ last + Cardinality(unsent) = Cardinality(setting.requests)

Blocks == [used : {"no", "live", "freed"}, size : Nat, written : Nat]

\* a poll handler past its malloc fills the block that it allocated, which is as long
\* as its request asks
PollJob(r, k) ==
  r.path = "/fx/poll" =>
    /\ k >= 2 => mail.pollsize = r.arg
    /\ k >= 3 => mail.pollindex = last /\ heap[last].size = r.arg

\* what is left of a handler is the end of the stores of one request
JobInv ==
  job # << >> =>
    \E r \in setting.requests, k \in Nat : Running(r, k) /\ PollJob(r, k)

\* a reset that is still to be stored, and one that is stored and not yet served
Owed == IF job # << >> /\ Head(job) = <<"reset", 1>> THEN 1 ELSE 0
Pending == IF pc \in {"geometry", "weights"} \/ (mail.reset = 1 /\ pc # "served") THEN 1 ELSE 0

\* every world rebuilt was asked for: neither of those two has been counted yet
TypeInv ==
  /\ TypeOK /\ Sent /\ JobInv
  /\ heap \in [Numbers -> Blocks]
  /\ rebuilt + Owed + Pending <= asked

(* What MailAssumption says, for the setting that runs. *)
LEMMA RequestsAreTyped ==
  ASSUME setting \in Settings
  PROVE  /\ IsFiniteSet(setting.requests) /\ Cardinality(setting.requests) \in Nat
         /\ setting.roomy \in BOOLEAN
         /\ \A r \in setting.requests : IsRequest(r)
  BY MailAssumption, FS_CardinalityType DEF IsRequest

(* Nothing is stored at first, and nothing is owed. *)
LEMMA InitTyped == Init => TypeInv
<1> SUFFICES ASSUME Init PROVE TypeInv
  OBVIOUS
<1>1. IsFiniteSet(setting.requests) /\ Cardinality(setting.requests) \in Nat
  BY RequestsAreTyped DEF Init
<1>2. mail \in [reset : Nat, geometry : 0..last, weights : 0..last,
               setpoll : 0..1, pollsize : Nat, pollindex : 0..last, done : 0..1,
               patch : Nat, cmd : 0..last, setcell : 0..1]
  BY DEF Init
<1>3. heap \in [Numbers -> Blocks]
  BY <1>1 DEF Init, Blocks, Numbers
<1>4. \A b \in Numbers : heap[b].used \in {"no", "live", "freed"} /\ heap[b].written <= heap[b].size
  BY <1>1 DEF Init, Numbers
<1>5. chosen \in PatchNumbers /\ patches \in [PatchNumbers -> 0..last]
  BY DEF Init, PatchNumbers
<1>6. copied \in Seq(-1..last) /\ polls \in Seq(-1..last)
  BY DEF Init
<1>7. TypeOK
  <2>1. unsent \subseteq setting.requests /\ last \in 0..Cardinality(setting.requests)
    BY <1>1 DEF Init
  <2>2. geometry \in 0..last /\ world.geometry \in 0..last /\ world.weights \in 0..last
    BY DEF Init
  <2>3. asked \in Nat /\ rebuilt \in 0..asked
    BY DEF Init
  <2>4. odd \in BOOLEAN /\ wild \in BOOLEAN
    BY Zenon DEF Init
  <2>5. latest \in [Lasting -> [number : 0..last, arg : Nat, alone : BOOLEAN]]
    BY DEF Init, NoRequest
  <2>6. QED
    BY <1>2, <1>4, <1>5, <1>6, <2>1, <2>2, <2>3, <2>4, <2>5, Zenon DEF TypeOK
<1>8. Sent
  BY <1>1 DEF Sent, Init
<1>9. JobInv
  BY DEF JobInv, Init
<1>11. Owed = 0 /\ Pending = 0 /\ rebuilt = 0 /\ asked = 0
  BY DEF Init, Owed, Pending
<1>12. QED
  BY <1>3, <1>7, <1>8, <1>9, <1>11 DEF TypeInv

(* Calling a handler keeps the types; one that resets is owed from then on. *)
LEMMA HandleTyped ==
  ASSUME TypeInv, Handle, UNCHANGED setting
  PROVE  TypeInv'
<1>1. IsFiniteSet(setting.requests) /\ Cardinality(setting.requests) \in Nat
      /\ \A r \in setting.requests : IsRequest(r)
  BY RequestsAreTyped DEF TypeInv, Sent
<1>2. PICK r \in unsent :
       /\ unsent' = unsent \ {r}
       /\ last' = last + 1
       /\ job' = Stores(r, last + 1)
       /\ latest' = [path \in Lasting |->
            IF path = r.path THEN [number |-> last + 1, arg |-> r.arg, alone |-> pc = "idle"]
            ELSE latest[path]]
       /\ asked' = IF r.path = "/fx/world" /\ r.arg = 1 THEN asked + 1 ELSE asked
  BY DEF Handle
<1>3. UNCHANGED <<frameVars, mail, heap, wild>> /\ job = << >>
  BY DEF Handle
<1>4. r \in setting.requests /\ IsRequest(r) /\ r.arg \in Nat
  BY <1>1, <1>2 DEF TypeInv, TypeOK, IsRequest
<1>5. last \in Nat /\ last + 1 \in 1..Cardinality(setting.requests) /\ Sent'
  <2>1. IsFiniteSet(unsent') /\ Cardinality(unsent') = Cardinality(unsent) - 1
        /\ Cardinality(unsent) \in Nat /\ Cardinality(unsent') \in Nat
    BY <1>2, FS_RemoveElement, FS_CardinalityType DEF TypeInv, Sent
  <2>2. last \in Nat
    BY <1>1 DEF TypeInv, TypeOK
  <2>3. QED
    BY <1>1, <1>2, <2>1, <2>2 DEF TypeInv, Sent
<1>6. JobInv'
  <2>1. Running(r, 0)'
    BY <1>2, <1>4, <1>5, HandleStarts
  <2>2. PollJob(r, 0)'
    BY DEF PollJob
  <2>3. QED
    BY <1>4, <2>1, <2>2 DEF JobInv
<1>8. latest' \in [Lasting -> [number : 0..last', arg : Nat, alone : BOOLEAN]]
  <2>1. latest \in [Lasting -> [number : 0..last, arg : Nat, alone : BOOLEAN]]
    BY DEF TypeInv, TypeOK
  <2>2. [number |-> last + 1, arg |-> r.arg, alone |-> pc = "idle"]
          \in [number : 0..last', arg : Nat, alone : BOOLEAN]
    BY <1>2, <1>4, <1>5
  <2>3. \A path \in Lasting : latest[path] \in [number : 0..last', arg : Nat, alone : BOOLEAN]
    BY <1>2, <1>5, <2>1
  <2>4. QED
    BY <1>2, <2>2, <2>3
<1>9. rebuilt' + Owed' + Pending' <= asked'
  <2>1. Owed = 0 /\ Pending' = Pending /\ rebuilt' = rebuilt
    BY <1>3 DEF Owed, Pending, frameVars, worldVars
  <2>2. asked \in Nat /\ rebuilt \in Nat /\ Pending \in Nat /\ rebuilt + Pending <= asked
    BY <2>1 DEF TypeInv, TypeOK, Pending
  <2>3. CASE r.path = "/fx/world" /\ r.arg = 1
    BY <1>2, <2>1, <2>2, <2>3 DEF Owed
  <2>4. CASE r.path = "/fx/world" /\ r.arg # 1
    <3>1. Head(job') = <<"reset", r.arg>>
      <4>1. Stores(r, last + 1) \in Seq(Words) /\ Stores(r, last + 1)[1] = <<"reset", r.arg>>
            /\ Len(Stores(r, last + 1)) = 3
        BY <1>4, <1>5, <2>4, WorldStores
      <4>2. QED
        BY <1>2, <4>1
    <3>2. <<"reset", r.arg>> # <<"reset", 1>>
      BY <2>4
    <3>3. Owed' = 0
      BY <3>1, <3>2 DEF Owed
    <3>4. QED
      BY <1>2, <2>1, <2>2, <2>4, <3>3
  <2>5. CASE r.path # "/fx/world"
    <3>1. Head(job') # <<"reset", 1>>
      <4>1. Head(job') = Stores(r, last + 1)[1]
        BY <1>2, <1>4, <1>5, StoresAreWords
      <4>2. CASE r.path = "/fx/patch"
        <5>1. last + 1 \in Nat
          BY <1>5
        <5>2. Stores(r, last + 1)[1] = <<"patch", r.arg>>
          BY <1>4, <4>2, <5>1, PatchStores
        <5>3. QED
          BY <4>1, <5>2
      <4>3. CASE r.path = "/fx/poll"
        <5>1. last + 1 \in Nat
          BY <1>5
        <5>2. Stores(r, last + 1)[1] = <<"setpoll", 1>>
          BY <1>4, <4>3, <5>1, PollStores DEF ArePollStores
        <5>3. QED
          BY <4>1, <5>2
      <4>4. CASE r.path \in {"/fx/cell", "/fx/quit"}
        BY <1>4, <1>5, <4>1, <4>4, FlagStores
      <4>5. QED
        BY <1>4, <2>5, <4>2, <4>3, <4>4 DEF IsRequest
    <3>2. Owed' = 0
      BY <3>1 DEF Owed
    <3>3. QED
      BY <1>2, <2>1, <2>2, <2>5, <3>2
  <2>6. QED
    BY <2>3, <2>4, <2>5
<1>10. TypeOK'
  <2>1. 0..last \subseteq 0..last' /\ -1..last \subseteq -1..last'
    BY <1>2, <1>5
  <2>2. mail' \in [reset : Nat, geometry : 0..last, weights : 0..last,
               setpoll : 0..1, pollsize : Nat, pollindex : 0..last, done : 0..1,
               patch : Nat, cmd : 0..last, setcell : 0..1]'
    BY <1>3, <2>1 DEF TypeInv, TypeOK
  <2>3. (copied \in Seq(-1..last) /\ polls \in Seq(-1..last))'
    <3>1. copied \in Seq(-1..last) /\ polls \in Seq(-1..last)
      BY DEF TypeInv, TypeOK
    <3>2. QED
      BY <1>3, <2>1, <3>1, SeqMonotonic DEF frameVars, worldVars
  <2>4. (chosen \in PatchNumbers /\ patches \in [PatchNumbers -> 0..last])'
    BY <1>3, <2>1 DEF TypeInv, TypeOK, frameVars, patchVars
  <2>5. asked' \in Nat /\ rebuilt' \in 0..asked'
    <3>1. asked \in Nat /\ rebuilt \in 0..asked /\ rebuilt' = rebuilt
      BY <1>3 DEF TypeInv, TypeOK, frameVars, worldVars
    <3>2. asked' \in {asked, asked + 1}
      BY <1>2
    <3>3. QED
      BY <3>1, <3>2
  <2>6. (unsent \subseteq setting.requests /\ last \in 0..Cardinality(setting.requests))'
    <3>1. unsent \subseteq setting.requests /\ setting' = setting
      BY DEF TypeInv, TypeOK
    <3>2. last + 1 \in 0..Cardinality(setting.requests)
      BY <1>1, <1>5
    <3>3. QED
      BY <1>2, <3>1, <3>2
  <2>7. (/\ geometry \in 0..last /\ world.geometry \in 0..last /\ world.weights \in 0..last
         /\ odd \in BOOLEAN /\ wild \in BOOLEAN)'
    BY <1>3, <2>1 DEF TypeInv, TypeOK, frameVars, worldVars
  <2>8. (\A b \in Numbers : heap[b].used \in {"no", "live", "freed"}
                            /\ heap[b].written <= heap[b].size)'
    BY <1>3 DEF TypeInv, TypeOK, Numbers
  <2>9. QED
    BY <1>8, <2>2, <2>3, <2>4, <2>5, <2>6, <2>7, <2>8 DEF TypeOK
<1>11. heap' \in [Numbers -> Blocks]'
  BY <1>3 DEF TypeInv, Numbers
<1>12. QED
  BY <1>5, <1>6, <1>9, <1>10, <1>11 DEF TypeInv, Numbers

-----------------------------------------------------------------------------
(* What the next store of a handler does. *)
StoresWorld(r, k) ==
  \/ k = 0 /\ Sets("reset", r.arg)
  \/ k = 1 /\ Sets("geometry", last)
  \/ k = 2 /\ Sets("weights", last)
StoresPatch(r, k) ==
  \/ k = 0 /\ Sets("patch", r.arg)
  \/ k = 1 /\ Sets("cmd", last)
StoresPoll(r, k) ==
  \/ k = 0 /\ Sets("setpoll", 1)
  \/ k = 1 /\ Sets("pollsize", r.arg)
  \/ k = 2 /\ SetsBlock(last)
  \/ k - 2 \in 1..r.arg /\ StoreEntry(k - 2) /\ UNCHANGED mail

(* Which word the next store of a handler changes, by its path and how far it got. *)
LEMMA WhatIsStored ==
  ASSUME last \in Nat, NEW r, IsRequest(r), NEW k \in Nat, Running(r, k), Store
  PROVE  /\ r.path = "/fx/world" => StoresWorld(r, k)
         /\ r.path = "/fx/patch" => StoresPatch(r, k)
         /\ r.path = "/fx/poll" => StoresPoll(r, k)
         /\ r.path = "/fx/cell" => k = 0 /\ Sets("setcell", 1)
         /\ r.path = "/fx/quit" => k = 0 /\ Sets("done", 1)
<1> DEFINE s == Stores(r, last)
<1>1. Head(job) = s[k + 1] /\ k < Len(s) /\ r.arg \in Nat
  BY StoreMovesOn DEF Running, IsRequest
<1>2. CASE r.path = "/fx/world"
  <2>1. Len(s) = 3 /\ s[1] = <<"reset", r.arg>>
        /\ s[2] = <<"geometry", last>> /\ s[3] = <<"weights", last>>
    BY <1>1, <1>2, WorldStores
  <2> HIDE DEF s
  <2>2. k \in 0..2
    BY <1>1, <2>1
  <2>3. CASE k = 0
    BY <1>1, <1>2, <2>1, <2>3, SetsWord DEF StoresWorld, Names
  <2>4. CASE k = 1
    BY <1>1, <1>2, <2>1, <2>4, SetsWord DEF StoresWorld, Names
  <2>5. CASE k = 2
    BY <1>1, <1>2, <2>1, <2>5, SetsWord DEF StoresWorld, Names
  <2>6. QED
    BY <2>2, <2>3, <2>4, <2>5
<1>3. CASE r.path = "/fx/patch"
  <2>1. Len(s) = 2 /\ s[1] = <<"patch", r.arg>> /\ s[2] = <<"cmd", last>>
    BY <1>1, <1>3, PatchStores
  <2> HIDE DEF s
  <2>2. k \in 0..1
    BY <1>1, <2>1
  <2>3. CASE k = 0
    BY <1>1, <1>3, <2>1, <2>3, SetsWord DEF StoresPatch, Names
  <2>4. CASE k = 1
    BY <1>1, <1>3, <2>1, <2>4, SetsWord DEF StoresPatch, Names
  <2>5. QED
    BY <2>2, <2>3, <2>4
<1>4. CASE r.path = "/fx/poll"
  <2>1. Len(s) = r.arg + 3 /\ s[1] = <<"setpoll", 1>> /\ s[2] = <<"pollsize", r.arg>>
        /\ s[3] = <<"malloc", last>> /\ \A j \in 4..r.arg + 3 : s[j] = <<"entry", j - 3>>
    <3>1. ArePollStores(s, last, r.arg)
      BY <1>1, <1>4, PollStores
    <3> HIDE DEF s
    <3>2. QED
      BY <3>1 DEF ArePollStores
  <2> HIDE DEF s
  <2>2. CASE k = 0
    BY <1>1, <1>4, <2>1, <2>2, SetsWord DEF StoresPoll, Names
  <2>3. CASE k = 1
    BY <1>1, <1>4, <2>1, <2>3, SetsWord DEF StoresPoll, Names
  <2>4. CASE k = 2
    BY <1>1, <1>4, <2>1, <2>4, Mallocs DEF StoresPoll, SetsBlock
  <2>5. CASE k > 2
    <3>1. k + 1 \in 4..r.arg + 3 /\ k - 2 \in 1..r.arg /\ k + 1 - 3 = k - 2
      BY <1>1, <2>1, <2>5
    <3>2. Head(job) = <<"entry", k - 2>>
      <4>1. s[k + 1] = <<"entry", k + 1 - 3>>
        BY <2>1, <3>1
      <4>2. QED
        BY <1>1, <3>1, <4>1
    <3>3. StoreEntry(k - 2) /\ UNCHANGED mail
      BY <3>2, Fills
    <3>4. QED
      BY <1>4, <3>1, <3>3 DEF StoresPoll
  <2>6. QED
    BY <2>2, <2>3, <2>4, <2>5
<1>5. CASE r.path \in {"/fx/cell", "/fx/quit"}
  <2>1. Len(s) = 1 /\ (r.path = "/fx/cell" => s[1] = <<"setcell", 1>>)
        /\ (r.path = "/fx/quit" => s[1] = <<"done", 1>>)
    BY <1>1, <1>5, FlagStores
  <2> HIDE DEF s
  <2>2. k = 0
    BY <1>1, <2>1
  <2>3. QED
    BY <1>1, <1>5, <2>1, <2>2, SetsWord DEF Names
<1>6. QED
  BY <1>2, <1>3, <1>4, <1>5 DEF IsRequest

(* Only the first store of a handler is a reset. *)
LEMMA OneReset ==
  ASSUME NEW n \in Nat, NEW r, IsRequest(r), NEW k \in Nat \ {0}, k < Len(Stores(r, n))
  PROVE  Head(SubSeq(Stores(r, n), k + 1, Len(Stores(r, n)))) # <<"reset", 1>>
<1> DEFINE s == Stores(r, n)
           rest == SubSeq(s, k + 1, Len(s))
<1>1. s \in Seq(Words) /\ k \in 0..Len(s) - 1 /\ r.arg \in Nat
  BY StoresAreWords DEF IsRequest
<1>2. Head(rest) = s[k + 1]
  <2> HIDE DEF s
  <2>1. QED
    BY <1>1, NextStore
<1> SUFFICES s[k + 1] # <<"reset", 1>>
  BY <1>2, Zenon
<1> HIDE DEF rest
<1>3. CASE r.path = "/fx/world"
  <2>1. Len(s) = 3 /\ s[2] = <<"geometry", n>> /\ s[3] = <<"weights", n>>
    BY <1>1, <1>3, WorldStores
  <2> HIDE DEF s
  <2>2. k \in {1, 2}
    BY <1>1, <2>1
  <2>3. QED
    BY <2>1, <2>2
<1>4. CASE r.path = "/fx/patch"
  <2>1. Len(s) = 2 /\ s[2] = <<"cmd", n>>
    BY <1>1, <1>4, PatchStores
  <2> HIDE DEF s
  <2>2. k = 1
    BY <1>1, <2>1
  <2>3. QED
    BY <2>1, <2>2
<1>5. CASE r.path = "/fx/poll"
  <2>1. Len(s) = r.arg + 3 /\ s[2] = <<"pollsize", r.arg>>
        /\ s[3] = <<"malloc", n>> /\ \A j \in 4..r.arg + 3 : s[j] = <<"entry", j - 3>>
    <3>1. ArePollStores(s, n, r.arg)
      BY <1>1, <1>5, PollStores
    <3> HIDE DEF s
    <3>2. QED
      BY <3>1 DEF ArePollStores
  <2> HIDE DEF s
  <2>2. k \in {1, 2} \/ k + 1 \in 4..r.arg + 3
    BY <1>1, <2>1
  <2>3. QED
    BY <2>1, <2>2
<1>6. CASE r.path \in {"/fx/cell", "/fx/quit"}
  <2>1. Len(s) = 1
    BY <1>6, FlagStores
  <2>2. QED
    BY <1>1, <2>1
<1>7. QED
  BY <1>3, <1>4, <1>5, <1>6 DEF IsRequest

MailType ==
  [reset : Nat, geometry : 0..last, weights : 0..last, setpoll : 0..1, pollsize : Nat,
   pollindex : 0..last, done : 0..1, patch : Nat, cmd : 0..last, setcell : 0..1]
HeapInv ==
  /\ heap \in [Numbers -> Blocks]
  /\ \A b \in Numbers : heap[b].written <= heap[b].size

(* What a store leaves in order, whichever it is. *)
LEMMA StoreKeeps ==
  ASSUME TypeInv, Store, UNCHANGED setting,
         NEW r, IsRequest(r), NEW k \in Nat, Running(r, k), PollJob(r, k)
  PROVE  /\ mail' \in MailType /\ HeapInv' /\ wild' \in BOOLEAN /\ PollJob(r, k + 1)'
         /\ mail'.reset = mail.reset \/ (Head(job) = <<"reset", mail'.reset>> /\ k = 0)
<1>1. /\ last \in Nat /\ last \in Numbers /\ last' = last /\ setting' = setting /\ r.arg \in Nat
  <2>1. Cardinality(setting.requests) \in Nat
    BY RequestsAreTyped DEF TypeInv, Sent
  <2>2. last \in 0..Cardinality(setting.requests) /\ 0 < last
    BY DEF TypeInv, TypeOK, Running
  <2>3. last' = last /\ setting' = setting /\ r.arg \in Nat
    BY DEF Store, IsRequest
  <2>4. QED
    BY <2>1, <2>2, <2>3 DEF Numbers
<1>2. mail \in MailType /\ HeapInv /\ wild \in BOOLEAN
  BY DEF TypeInv, TypeOK, MailType, HeapInv
<1>3. ASSUME NEW name \in Names, NEW v, Sets(name, v), name # "reset",
             \/ name \in {"geometry", "weights", "cmd"} /\ v = last
             \/ name \in {"setpoll", "setcell", "done"} /\ v = 1
             \/ name \in {"patch", "pollsize"} /\ v \in Nat
      PROVE  mail' \in MailType /\ HeapInv' /\ wild' \in BOOLEAN /\ mail'.reset = mail.reset
  <2>1. HeapInv' /\ wild' \in BOOLEAN
    <3>1. heap' = heap /\ wild' = wild
      BY <1>3 DEF Sets
    <3>2. QED
      BY <1>1, <1>2, <3>1, Zenon DEF HeapInv, Numbers
  <2>2. mail' \in MailType /\ mail'.reset = mail.reset
    BY <1>1, <1>2, <1>3 DEF Sets, MailType, Names
  <2>3. QED
    BY <2>1, <2>2
<1>4. CASE r.path = "/fx/world"
  <2>1. StoresWorld(r, k) /\ PollJob(r, k + 1)'
    BY <1>1, <1>4, WhatIsStored DEF PollJob
  <2>2. CASE k = 0
    <3>1. Sets("reset", r.arg)
      BY <2>1, <2>2 DEF StoresWorld
    <3>2. Head(job) = <<"reset", r.arg>>
      BY <1>1, <1>4, <2>2, WorldStores, StoreMovesOn
    <3>3. mail' \in MailType /\ mail'.reset = r.arg
      BY <1>1, <1>2, <3>1 DEF Sets, MailType
    <3>4. heap' = heap /\ wild' = wild
      BY <3>1 DEF Sets
    <3>5. HeapInv' /\ wild' \in BOOLEAN
      BY <1>1, <1>2, <3>4, Zenon DEF HeapInv, Numbers
    <3>6. QED
      BY <2>1, <2>2, <3>2, <3>3, <3>5, Zenon
  <2>3. CASE k # 0
    <3>1. Sets("geometry", last) \/ Sets("weights", last)
      BY <2>1, <2>3 DEF StoresWorld
    <3>2. QED
      BY <1>3, <2>1, <3>1 DEF Names
  <2>4. QED
    BY <2>2, <2>3
<1>5. CASE r.path = "/fx/patch"
  <2>1. StoresPatch(r, k) /\ PollJob(r, k + 1)'
    BY <1>1, <1>5, WhatIsStored DEF PollJob
  <2>2. Sets("patch", r.arg) \/ Sets("cmd", last)
    BY <2>1 DEF StoresPatch
  <2>3. QED
    BY <1>1, <1>3, <2>1, <2>2 DEF Names
<1>6. CASE r.path = "/fx/cell" \/ r.path = "/fx/quit"
  <2>1. PollJob(r, k + 1)' /\ (Sets("setcell", 1) \/ Sets("done", 1))
    BY <1>1, <1>6, WhatIsStored DEF PollJob
  <2>2. QED
    BY <1>3, <2>1 DEF Names
<1>7. CASE r.path = "/fx/poll"
  <2>1. StoresPoll(r, k)
    BY <1>1, <1>7, WhatIsStored
  <2>2. CASE k \in {0, 1}
    <3>1. \/ k = 0 /\ Sets("setpoll", 1)
          \/ k = 1 /\ Sets("pollsize", r.arg)
      BY <2>1, <2>2 DEF StoresPoll
    <3>2. PollJob(r, k + 1)'
      BY <1>1, <1>2, <3>1 DEF PollJob, Sets, MailType
    <3>3. mail' \in MailType /\ HeapInv' /\ wild' \in BOOLEAN /\ mail'.reset = mail.reset
      BY <1>1, <1>3, <3>1 DEF Names
    <3>4. QED
      BY <3>2, <3>3
  <2>3. CASE k = 2
    <3>1. SetsBlock(last) /\ mail.pollsize = r.arg
      BY <1>7, <2>1, <2>3 DEF StoresPoll, PollJob
    <3>2. mail' \in MailType /\ mail'.reset = mail.reset /\ mail'.pollindex = last
          /\ mail'.pollsize = r.arg
      BY <1>1, <1>2, <3>1 DEF SetsBlock, MailType
    <3>3. heap'[last] = [used |-> "live", size |-> r.arg, written |-> 0]
      BY <1>1, <1>2, <3>1 DEF SetsBlock, HeapInv
    <3>4. HeapInv'
      BY <1>1, <1>2, <3>1, <3>3 DEF SetsBlock, HeapInv, Blocks, Numbers
    <3>5. PollJob(r, k + 1)'
      BY <1>1, <2>3, <3>2, <3>3 DEF PollJob
    <3>6. wild' \in BOOLEAN
      BY <1>2, <3>1, Zenon DEF SetsBlock
    <3>7. QED
      BY <3>2, <3>4, <3>5, <3>6
  <2>4. CASE k > 2
    <3>1. StoreEntry(k - 2) /\ mail' = mail /\ k - 2 \in 1..r.arg
      BY <2>1, <2>4 DEF StoresPoll
    <3>2. mail.pollsize = r.arg /\ mail.pollindex = last /\ heap[last].size = r.arg
      BY <1>7, <2>4 DEF PollJob
    <3>3. CASE heap[last].used = "live"
      <4>1. heap' = [heap EXCEPT ![last].written = k - 2] /\ wild' = wild
        BY <3>1, <3>2, <3>3 DEF StoreEntry
      <4>2. HeapInv' /\ heap'[last].size = r.arg
        BY <1>1, <1>2, <3>1, <3>2, <4>1 DEF HeapInv, Blocks, Numbers
      <4>3. PollJob(r, k + 1)'
        BY <1>1, <3>1, <3>2, <4>2 DEF PollJob
      <4>4. mail' \in MailType /\ mail'.reset = mail.reset
        BY <1>2, <3>1
      <4>5. wild' \in BOOLEAN
        BY <1>2, <4>1, Zenon
      <4>6. QED
        BY <4>2, <4>3, <4>4, <4>5
    <3>4. CASE heap[last].used # "live"
      <4>1. heap' = heap /\ wild' = TRUE
        BY <3>1, <3>2, <3>4 DEF StoreEntry
      <4>2. HeapInv'
        BY <1>1, <1>2, <4>1 DEF HeapInv, Numbers
      <4>3. PollJob(r, k + 1)'
        BY <1>1, <3>1, <3>2, <4>1 DEF PollJob
      <4>4. mail' \in MailType /\ mail'.reset = mail.reset
        BY <1>2, <3>1
      <4>5. wild' \in BOOLEAN
        BY <4>1, Zenon
      <4>6. QED
        BY <4>2, <4>3, <4>4, <4>5
    <3>5. QED
      BY <3>3, <3>4
  <2>5. QED
    BY <2>2, <2>3, <2>4
<1>8. QED
  BY <1>4, <1>5, <1>6, <1>7 DEF IsRequest

(* Stores keep the types: a reset that is stored is pending and no longer owed. *)
LEMMA StoreTyped ==
  ASSUME TypeInv, Store, UNCHANGED setting
  PROVE  TypeInv'
<1>1. \A r \in setting.requests : IsRequest(r)
  BY RequestsAreTyped DEF TypeInv, Sent
<1>2. last \in Nat
  BY RequestsAreTyped DEF TypeInv, TypeOK, Sent
<1>3. UNCHANGED <<unsent, last, asked, latest, setting>> /\ job # << >>
      /\ UNCHANGED <<pc, chosen, patches, geometry, world, copied, polls, odd, rebuilt>>
  BY DEF Store, frameVars, patchVars, worldVars
<1>4. PICK r \in setting.requests, k \in Nat : Running(r, k) /\ PollJob(r, k)
  BY <1>3 DEF TypeInv, JobInv
<1>5. IsRequest(r)
  BY <1>1, <1>4
<1>6. /\ mail' \in MailType /\ HeapInv' /\ wild' \in BOOLEAN /\ PollJob(r, k + 1)'
      /\ mail'.reset = mail.reset \/ Head(job) = <<"reset", mail'.reset>>
  BY <1>4, <1>5, StoreKeeps
<1>7. IF k + 1 = Len(Stores(r, last)) THEN job' = << >>
      ELSE job' # << >> /\ Running(r, k + 1)'
  BY <1>2, <1>4, <1>5, StoreMovesOn
<1>8. JobInv'
  BY <1>3, <1>4, <1>6, <1>7 DEF JobInv
<1>9. rebuilt' + Owed' + Pending' <= asked'
  <2>1. Owed' = 0
    <3>1. CASE job' = << >>
      BY <3>1 DEF Owed
    <3>2. CASE job' # << >>
      <4>1. k + 1 \in Nat \ {0} /\ k + 1 < Len(Stores(r, last))
            /\ job' = SubSeq(Stores(r, last), k + 1 + 1, Len(Stores(r, last)))
        BY <1>3, <1>4, <1>7, <3>2 DEF Running
      <4>2. Head(job') # <<"reset", 1>>
        BY <1>2, <1>5, <4>1, OneReset
      <4>3. QED
        BY <4>2 DEF Owed
    <3>3. QED
      BY <3>1, <3>2
  <2>2. Pending' <= Owed + Pending
    BY <1>3, <1>6 DEF Pending, Owed
  <2>3. rebuilt \in Nat /\ asked \in Nat /\ rebuilt + Owed + Pending <= asked
        /\ rebuilt' = rebuilt /\ asked' = asked
    BY <1>3 DEF TypeInv, TypeOK
  <2>4. Owed \in Nat /\ Pending \in Nat /\ Pending' \in Nat
    BY DEF Owed, Pending
  <2>5. \A a, b, c, d, e \in Nat : a + b + c <= d /\ e <= b + c => a + 0 + e <= d
    OBVIOUS
  <2>6. QED
    BY <2>1, <2>2, <2>3, <2>4, <2>5
<1>10. TypeOK'
  BY <1>3, <1>6 DEF TypeInv, TypeOK, MailType, HeapInv, Blocks
<1>11. Sent'
  BY <1>3 DEF TypeInv, Sent, Numbers
<1>12. QED
  BY <1>6, <1>8, <1>9, <1>10, <1>11 DEF TypeInv, HeapInv

(* The render thread's own variables. *)
FrameTypes ==
  /\ chosen \in PatchNumbers /\ patches \in [PatchNumbers -> 0..last]
  /\ geometry \in 0..last /\ world.geometry \in 0..last /\ world.weights \in 0..last
  /\ copied \in Seq(-1..last) /\ polls \in Seq(-1..last)
  /\ odd \in BOOLEAN /\ wild \in BOOLEAN

(* A frame only clears flags, and frees blocks without changing their size. *)
ClearsFlags ==
  /\ mail' \in {mail, [mail EXCEPT !.reset = 0], [mail EXCEPT !.setcell = 0],
                [mail EXCEPT !.setpoll = 0]}
  /\ HeapInv' /\ \A b \in Numbers : heap'[b].size = heap[b].size

(* A step of a frame keeps the types if it only clears flags and counts a world *)
(* only when one was pending. *)
LEMMA FrameStepTyped ==
  ASSUME TypeInv, UNCHANGED <<setting, unsent, last, job, asked>>, ClearsFlags, FrameTypes',
         latest' \in [Lasting -> [number : 0..last, arg : Nat, alone : BOOLEAN]],
         rebuilt' \in Nat, rebuilt' + Pending' <= rebuilt + Pending
  PROVE  TypeInv'
<1>1. UNCHANGED <<setting, unsent, last, job, asked>>
  OBVIOUS
<1>2. /\ mail' \in MailType /\ mail'.pollsize = mail.pollsize /\ mail'.pollindex = mail.pollindex
  <2>1. mail \in MailType
    BY DEF TypeInv, TypeOK, MailType
  <2>2. QED
    BY <2>1 DEF ClearsFlags, MailType
<1>3. JobInv'
  <2>1. CASE job = << >>
    BY <1>1, <2>1 DEF JobInv
  <2>2. CASE job # << >>
    <3>1. PICK r \in setting.requests, k \in Nat : Running(r, k) /\ PollJob(r, k)
      BY <2>2 DEF TypeInv, JobInv
    <3>2. last \in Numbers
      BY <3>1, RequestsAreTyped DEF TypeInv, TypeOK, Sent, Running, Numbers
    <3>3. Running(r, k)' /\ PollJob(r, k)'
      BY <1>1, <1>2, <3>1, <3>2 DEF Running, PollJob, ClearsFlags
    <3>4. QED
      BY <1>1, <3>1, <3>3 DEF JobInv
  <2>3. QED
    BY <2>1, <2>2
<1>4. rebuilt' + Owed' + Pending' <= asked' /\ rebuilt' \in 0..asked'
  <2>1. Owed' = Owed /\ asked' = asked
    BY <1>1 DEF Owed
  <2>2. rebuilt \in Nat /\ asked \in Nat /\ rebuilt + Owed + Pending <= asked
    BY DEF TypeInv, TypeOK
  <2>3. Owed \in Nat /\ Pending \in Nat /\ Pending' \in Nat
    BY DEF Owed, Pending
  <2>4. \A a, b, c, d, e, f \in Nat :
          a + b + c <= d /\ e + f <= a + c => e + b + f <= d /\ e <= d
    OBVIOUS
  <2>5. rebuilt' + Owed + Pending' <= asked /\ rebuilt' <= asked
    BY <2>2, <2>3, <2>4
  <2>6. QED
    BY <2>1, <2>2, <2>5
<1>5. TypeOK'
  <2>1. (\A b \in Numbers : heap[b].used \in {"no", "live", "freed"}
                            /\ heap[b].written <= heap[b].size)'
    BY DEF ClearsFlags, HeapInv, Blocks
  <2>2. (unsent \subseteq setting.requests /\ last \in 0..Cardinality(setting.requests)
         /\ asked \in Nat)'
    BY <1>1 DEF TypeInv, TypeOK
  <2>3. QED
    BY <1>1, <1>2, <1>4, <2>1, <2>2 DEF TypeOK, MailType, FrameTypes
<1>6. Sent'
  BY <1>1 DEF TypeInv, Sent, Numbers
<1>7. QED
  BY <1>3, <1>4, <1>5, <1>6 DEF TypeInv, ClearsFlags, HeapInv

(* That is so of every step of the frame: resetWorld builds where getReset was 1, *)
(* and clears the flag before it can be read again. *)
LEMMA RenderTyped ==
  ASSUME TypeInv, Render, UNCHANGED setting
  PROVE  TypeInv'
<1>1. /\ FrameTypes /\ HeapInv /\ mail \in MailType /\ last \in Nat
      /\ rebuilt \in Nat /\ Pending \in Nat /\ rebuilt + 1 \in Nat
  <2>1. last \in Nat
    BY RequestsAreTyped DEF TypeInv, TypeOK, Sent
  <2>2. FrameTypes
    BY DEF TypeInv, TypeOK, FrameTypes
  <2>3. HeapInv /\ mail \in MailType
    BY DEF TypeInv, TypeOK, HeapInv, MailType
  <2>4. rebuilt \in Nat
    BY DEF TypeInv, TypeOK
  <2>5. QED
    BY <2>1, <2>2, <2>3, <2>4 DEF Pending
<1>2. latest' \in [Lasting -> [number : 0..last, arg : Nat, alone : BOOLEAN]]
      /\ UNCHANGED <<unsent, last, job, asked>>
  <2>1. latest \in [Lasting -> [number : 0..last, arg : Nat, alone : BOOLEAN]]
    BY DEF TypeInv, TypeOK
  <2>2. CASE FirstPatch
    <3>1. \A path \in Lasting :
            [latest[path] EXCEPT !.alone = FALSE] \in [number : 0..last, arg : Nat, alone : BOOLEAN]
      BY <2>1
    <3>2. QED
      BY <2>1, <2>2, <3>1 DEF FirstPatch
  <2>3. CASE UNCHANGED handlerVars
    BY <2>1, <2>3 DEF handlerVars
  <2>4. QED
    BY <2>2, <2>3 DEF Render, SecondPatch, StrayPatch, Command, TestReset, TestKind, ReadGeometry,
         Rebuild, Reweigh, ResetDone, TestCell, TakeCell, TestPoll, BeginCollect, CopyEntry,
         EndCollect, EndFrame, CutShort, ReadsOnly
<1> SUFFICES ClearsFlags /\ FrameTypes'
             /\ rebuilt' \in Nat /\ rebuilt' + Pending' <= rebuilt + Pending
  BY <1>2, FrameStepTyped
<1>3. ASSUME UNCHANGED <<setting, heap>>,
             mail' \in {mail, [mail EXCEPT !.reset = 0], [mail EXCEPT !.setcell = 0],
                        [mail EXCEPT !.setpoll = 0]}
      PROVE  ClearsFlags /\ last' = last
  <2>1. heap' = heap /\ last' = last /\ HeapInv'
    BY <1>1, <1>2, <1>3 DEF HeapInv, Numbers
  <2>2. QED
    BY <1>3, <2>1 DEF ClearsFlags
<1> USE DEF ReadsOnly, At, Goes, worldVars, patchVars
(* setPatch only writes p and the patches *)
<1>4. ASSUME UNCHANGED <<setting, mail, heap, worldVars>>, wild' \in BOOLEAN,
             chosen' \in PatchNumbers, patches' \in [PatchNumbers -> 0..last],
             Pending' = Pending
      PROVE  /\ ClearsFlags /\ FrameTypes'
             /\ rebuilt' \in Nat /\ rebuilt' + Pending' <= rebuilt + Pending
  <2>1. ClearsFlags /\ last' = last
    BY <1>3, <1>4
  <2>2. FrameTypes'
    BY <1>1, <1>4, <2>1 DEF FrameTypes
  <2>3. QED
    BY <1>1, <1>4, <2>1, <2>2
<1>5. CASE FirstPatch
  <2>1. chosen' \in PatchNumbers /\ Pending' = Pending
    BY <1>1, <1>5 DEF FirstPatch, FrameTypes, PatchNumbers, Pending
  <2>2. wild' \in BOOLEAN /\ patches' \in [PatchNumbers -> 0..last]
    BY <1>1, <1>5, Zenon DEF FirstPatch, FrameTypes
  <2>3. QED
    BY <1>4, <1>5, <2>1, <2>2 DEF FirstPatch
<1>6. CASE SecondPatch
  <2>1. chosen' \in PatchNumbers /\ Pending' = Pending
    BY <1>6 DEF SecondPatch, PatchNumbers, Pending
  <2>2. wild' \in BOOLEAN /\ patches' \in [PatchNumbers -> 0..last]
    BY <1>1, <1>6, Zenon DEF SecondPatch, FrameTypes
  <2>3. QED
    BY <1>4, <1>6, <2>1, <2>2 DEF SecondPatch
<1>7. CASE StrayPatch
  <2>1. Pending' = Pending
    BY <1>7 DEF StrayPatch, Pending
  <2>2. wild' \in BOOLEAN /\ chosen' \in PatchNumbers /\ patches' \in [PatchNumbers -> 0..last]
    BY <1>1, <1>7, Zenon DEF StrayPatch, FrameTypes
  <2>3. QED
    BY <1>4, <1>7, <2>1, <2>2 DEF StrayPatch
<1>8. CASE Command
  <2>1. patches' \in [PatchNumbers -> 0..last] /\ Pending' = Pending
    BY <1>1, <1>8 DEF Command, FrameTypes, MailType, Pending
  <2>2. wild' \in BOOLEAN /\ chosen' \in PatchNumbers
    BY <1>1, <1>8, Zenon DEF Command, FrameTypes
  <2>3. QED
    BY <1>4, <1>8, <2>1, <2>2 DEF Command
(* what goes on with the world untouched *)
<1>9. ASSUME UNCHANGED <<setting, patchVars, heap, wild, worldVars>>,
             mail' \in {mail, [mail EXCEPT !.reset = 0], [mail EXCEPT !.setcell = 0]},
             Pending' <= Pending
      PROVE  /\ ClearsFlags /\ FrameTypes'
             /\ rebuilt' \in Nat /\ rebuilt' + Pending' <= rebuilt + Pending
  <2>1. ClearsFlags /\ last' = last
    BY <1>3, <1>9
  <2>2. wild' \in BOOLEAN /\ odd' \in BOOLEAN
    BY <1>1, <1>9, Zenon DEF FrameTypes
  <2>3. FrameTypes'
    BY <1>1, <1>9, <2>1, <2>2 DEF FrameTypes
  <2>4. Pending' \in Nat
    BY DEF Pending
  <2>5. QED
    BY <1>1, <1>9, <2>1, <2>3, <2>4
<1>10. CASE TestReset
  <2>1. Pending' <= Pending
    BY <1>10 DEF TestReset, Pending
  <2>2. QED
    BY <1>9, <1>10, <2>1 DEF TestReset
<1>11. CASE TestKind
  <2>1. Pending' <= Pending
    BY <1>11 DEF TestKind, Pending
  <2>2. QED
    BY <1>9, <1>11, <2>1 DEF TestKind
<1>12. CASE ResetDone
  <2>1. Pending' <= Pending
    BY <1>1, <1>12 DEF ResetDone, Pending, Cleared, MailType
  <2>2. QED
    BY <1>9, <1>12, <2>1 DEF ResetDone, Cleared
<1>13. CASE TestCell
  <2>1. Pending' <= Pending
    BY <1>13 DEF TestCell, Pending
  <2>2. QED
    BY <1>9, <1>13, <2>1 DEF TestCell
<1>14. CASE TakeCell
  <2>1. Pending' <= Pending
    BY <1>1, <1>14 DEF TakeCell, Pending, MailType
  <2>2. QED
    BY <1>9, <1>14, <2>1 DEF TakeCell
<1>15. CASE TestPoll
  <2>1. Pending' <= Pending
    BY <1>15 DEF TestPoll, Pending
  <2>2. QED
    BY <1>9, <1>15, <2>1 DEF TestPoll
<1>16. CASE EndFrame \/ CutShort
  <2>1. Pending' <= Pending
    BY <1>16 DEF EndFrame, CutShort, AfterFrame, Pending
  <2>2. QED
    BY <1>9, <1>16, <2>1 DEF EndFrame, CutShort
(* resetWorld *)
<1>17. ASSUME UNCHANGED <<setting, patchVars, mail, heap, wild, copied, polls, odd>>,
              (geometry \in 0..last /\ world.geometry \in 0..last /\ world.weights \in 0..last)'
       PROVE  ClearsFlags /\ FrameTypes'
  <2>1. ClearsFlags /\ last' = last
    BY <1>3, <1>17
  <2>2. wild' \in BOOLEAN /\ odd' \in BOOLEAN
    BY <1>1, <1>17, Zenon DEF FrameTypes
  <2>3. QED
    BY <1>1, <1>17, <2>1, <2>2 DEF FrameTypes
<1>18. CASE ReadGeometry
  <2>1. (geometry \in 0..last /\ world.geometry \in 0..last /\ world.weights \in 0..last)'
    BY <1>1, <1>2, <1>18 DEF ReadGeometry, FrameTypes, MailType
  <2>2. rebuilt' = rebuilt /\ Pending' = Pending
    BY <1>18 DEF ReadGeometry, Pending
  <2>3. QED
    BY <1>1, <1>17, <1>18, <2>1, <2>2 DEF ReadGeometry
<1>19. CASE Rebuild
  <2>1. (geometry \in 0..last /\ world.geometry \in 0..last /\ world.weights \in 0..last)'
    BY <1>1, <1>2, <1>19 DEF Rebuild, NewWorld, FrameTypes, MailType
  <2>2. rebuilt' = rebuilt + 1 /\ Pending' = 0 /\ Pending = 1
    BY <1>19 DEF Rebuild, Pending
  <2>3. QED
    BY <1>1, <1>17, <1>19, <2>1, <2>2 DEF Rebuild
<1>20. CASE Reweigh
  <2>1. (geometry \in 0..last /\ world.geometry \in 0..last /\ world.weights \in 0..last)'
    BY <1>1, <1>2, <1>20 DEF Reweigh, FrameTypes, MailType
  <2>2. rebuilt' = rebuilt /\ Pending' <= Pending
    BY <1>20 DEF Reweigh, Pending
  <2>3. QED
    BY <1>1, <1>17, <1>20, <2>1, <2>2 DEF Reweigh, Pending
(* getPollIndices *)
<1>21. ASSUME UNCHANGED <<setting, patchVars, geometry, world, rebuilt>>,
              ClearsFlags, wild' \in BOOLEAN, odd' \in BOOLEAN,
              copied' \in Seq(-1..last), polls' \in Seq(-1..last), Pending' = Pending
       PROVE  /\ ClearsFlags /\ FrameTypes'
              /\ rebuilt' \in Nat /\ rebuilt' + Pending' <= rebuilt + Pending
  <2>1. last' = last
    BY <1>2
  <2>2. FrameTypes'
    BY <1>1, <1>21, <2>1 DEF FrameTypes
  <2>3. QED
    BY <1>1, <1>21, <2>2
<1>22. CASE BeginCollect
  <2>1. ClearsFlags
    BY <1>3, <1>22 DEF BeginCollect, TakesPoll
  <2>2. wild' \in BOOLEAN /\ odd' \in BOOLEAN
    BY <1>1, <1>22, Zenon DEF BeginCollect, FrameTypes
  <2>3. copied' \in Seq(-1..last) /\ polls' \in Seq(-1..last)
    BY <1>1, <1>22 DEF BeginCollect, FrameTypes
  <2>4. Pending' = Pending
    BY <1>1, <1>22 DEF BeginCollect, TakesPoll, Pending, MailType
  <2>5. QED
    BY <1>21, <1>22, <2>1, <2>2, <2>3, <2>4 DEF BeginCollect
<1>23. CASE CopyEntry
  <2>1. ClearsFlags
    BY <1>3, <1>23 DEF CopyEntry
  <2>2. wild' \in BOOLEAN /\ odd' \in BOOLEAN
    BY <1>1, <1>23, Zenon DEF CopyEntry, FrameTypes
  <2>3. polls' \in Seq(-1..last) /\ Pending' = Pending
    BY <1>1, <1>23 DEF CopyEntry, FrameTypes, Pending
  <2>4. copied' \in Seq(-1..last)
    <3>1. \A i : Entry(mail.pollindex, i) \subseteq -1..last
      BY <1>1 DEF Entry, Clobbered, MailType
    <3>2. copied' = copied \/ \E e \in -1..last : copied' = Append(copied, e)
      BY <1>23, <3>1 DEF CopyEntry
    <3>3. copied \in Seq(-1..last)
      BY <1>1 DEF FrameTypes
    <3>4. ASSUME NEW S, copied \in Seq(S), NEW e \in S, copied' = Append(copied, e)
          PROVE  copied' \in Seq(S)
      BY <3>4, AppendProperties
    <3>5. QED
      BY <3>2, <3>3, <3>4
  <2>5. QED
    BY <1>21, <1>23, <2>1, <2>2, <2>3, <2>4 DEF CopyEntry
<1>24. CASE EndCollect
  <2>1. ClearsFlags
    <3>1. mail' = mail /\ last' = last /\ setting' = setting
      BY <1>2, <1>24 DEF EndCollect
    <3>2. CASE heap' = heap
      BY <1>3, <1>24, <3>2 DEF EndCollect
    <3>3. CASE heap' = [c \in Numbers |-> IF c = mail.pollindex
                                         THEN [heap[c] EXCEPT !.used = "freed"] ELSE heap[c]]
      <4>1. HeapInv' /\ \A b \in Numbers : heap'[b].size = heap[b].size
        BY <1>1, <3>1, <3>3 DEF HeapInv, Numbers, Blocks
      <4>2. QED
        BY <3>1, <4>1 DEF ClearsFlags
    <3>4. QED
      BY <1>24, <3>2, <3>3 DEF EndCollect
  <2>2. wild' \in BOOLEAN /\ odd' \in BOOLEAN
    BY <1>1, <1>24, Zenon DEF EndCollect, FrameTypes
  <2>3. copied' \in Seq(-1..last) /\ polls' \in Seq(-1..last) /\ Pending' = Pending
    BY <1>1, <1>24 DEF EndCollect, FrameTypes, Pending
  <2>4. QED
    BY <1>21, <1>24, <2>1, <2>2, <2>3 DEF EndCollect
<1>25. QED
  BY <1>5, <1>6, <1>7, <1>8, <1>10, <1>11, <1>12, <1>13, <1>14, <1>15, <1>16, <1>18,
     <1>19, <1>20, <1>22, <1>23, <1>24 DEF Render

(* The types hold, and a reset request builds at most one world, however    *)
(* stores and reads interleave (reset_handler, resetWorld).                 *)
LEMMA Typing == Spec => []TypeInv
<1>1. TypeInv /\ [Next]_vars => TypeInv'
  <2> SUFFICES ASSUME TypeInv, [Next]_vars PROVE TypeInv'
    OBVIOUS
  <2>1. CASE UNCHANGED vars
    <3>1. UNCHANGED <<setting, unsent, last, job, asked, latest, mail, heap, pc, rebuilt>>
          /\ UNCHANGED <<chosen, patches, geometry, world, copied, polls, odd, wild>>
      BY <2>1 DEF vars, handlerVars, frameVars, worldVars, patchVars
    <3>2. HeapInv /\ FrameTypes
      BY Zenon DEF TypeInv, TypeOK, HeapInv, FrameTypes
    <3>3. FrameTypes'
      BY <3>1, <3>2, Zenon DEF FrameTypes
    <3>4. ClearsFlags
      BY <3>1, <3>2, Zenon DEF ClearsFlags, HeapInv, Numbers
    <3>5. rebuilt' \in Nat /\ rebuilt' + Pending' <= rebuilt + Pending
      BY <3>1 DEF TypeInv, TypeOK, Pending
    <3>6. latest' \in [Lasting -> [number : 0..last, arg : Nat, alone : BOOLEAN]]
      BY <3>1 DEF TypeInv, TypeOK
    <3>7. QED
      BY <3>1, <3>3, <3>4, <3>5, <3>6, FrameStepTyped
  <2>2. CASE Next
    BY <2>2, HandleTyped, StoreTyped, RenderTyped DEF Next, Server
  <2>3. QED
    BY <2>1, <2>2
<1>2. QED
  BY <1>1, InitTyped, PTL DEF Spec

(* TypeOK, for any settings, handlers racing with frames or not: resetWorld builds  *)
(* at most one world for each reset request, and the flags, words and blocks that   *)
(* the two threads share keep their types.                                          *)
THEOREM ResetsAreServedOnce == Spec => []TypeOK
<1>1. TypeInv => TypeOK
  BY DEF TypeInv
<1>2. QED
  BY <1>1, Typing, PTL

-----------------------------------------------------------------------------
(* Handlers that no frame overlapped. *)

\* patch commands name patches there are: for any other number setPatch uses a pointer
\* that it never set
GoodPatches ==
  \A s \in Settings : \A r \in s.requests : r.path = "/fx/patch" => r.arg \in PatchNumbers

\* the words of the last /fx/world request arrived, and it waits or is in force
WorldWhole ==
  /\ mail.geometry = LastWorld.number /\ mail.weights = LastWorld.number
  /\ mail.reset = LastWorld.arg \/ (mail.reset = 0 /\ Served)

\* what the frame has read of them is what they still say, since nothing is stored
FrameReset ==
  /\ pc \in {"kind", "kind2"} => mail.reset > 0
  /\ pc = "kind2" => mail.reset # 1
  /\ pc \in {"geometry", "weights"} => mail.reset = 1
  /\ pc = "weights" => geometry = mail.geometry
  /\ pc = "reweigh" => mail.reset = 2
  /\ pc = "served" => Served

\* the words of the last /fx/patch request arrived
PatchWhole == mail.patch = LastPatch.arg /\ mail.cmd = LastPatch.number

FramePatch ==
  /\ pc = "patch1" => mail.patch # 0
  /\ pc = "command" => chosen = mail.patch
  /\ pc \notin {"idle", "patch1", "command"} => patches[mail.patch] = mail.cmd
  /\ LastPatch.number # 0 =>
       \A p \in PatchNumbers : patches[p] = LastPatch.number => p = LastPatch.arg

\* pollindex is the block of the last /fx/poll request, which has all its entries
Filled ==
  /\ LastPoll.number # 0 /\ mail.pollindex = LastPoll.number /\ mail.pollsize = LastPoll.arg
  /\ heap[LastPoll.number] = [used |-> "live", size |-> LastPoll.arg, written |-> LastPoll.arg]

\* it waits, or is being copied, or is installed
PollWhole ==
  /\ mail.setpoll = 1 => Filled
  /\ mail.setpoll = 0 /\ pc # "copy" /\ LastPoll.number # 0 =>
       IsListOf(polls, LastPoll.number, LastPoll.arg)

\* the first entries of a list that is being copied
Begun(list, b, size) ==
  /\ list \in Seq(-1..last) /\ Len(list) <= size
  /\ \A i \in 1..Len(list) :
       list[i] = b \/ (i = size /\ ~ setting.roomy /\ list[i] = Clobbered)

FramePoll ==
  /\ pc = "collect" => mail.setpoll = 1
  /\ pc = "copy" => Filled /\ mail.setpoll = 0 /\ Begun(copied, LastPoll.number, LastPoll.arg)

\* the request whose handler runs is the last of its path
Named(r) ==
  \A path \in Lasting :
    IF path = r.path THEN latest[path].number = last /\ latest[path].arg = r.arg
    ELSE latest[path].number < last

\* what a handler with k stores behind it has stored, while no frame has begun
WorldJob(r, k) ==
  r.path = "/fx/world" /\ LastWorld.alone =>
    pc = "idle" /\ (k >= 1 => mail.reset = r.arg) /\ (k >= 2 => mail.geometry = last)

PatchJob(r, k) ==
  r.path = "/fx/patch" /\ LastPatch.alone =>
    /\ pc = "idle" /\ (k >= 1 => mail.patch = r.arg)
    /\ \A p \in PatchNumbers : patches[p] # last

FillJob(r, k) ==
  r.path = "/fx/poll" /\ LastPoll.alone =>
    /\ pc = "idle"
    /\ k >= 1 => mail.setpoll = 1
    /\ k >= 2 => mail.pollsize = r.arg
    /\ k >= 3 => /\ mail.pollindex = last
                 /\ heap[last] = [used |-> "live", size |-> r.arg, written |-> k - 3]

Partly(r, k) == Running(r, k) /\ Named(r) /\ WorldJob(r, k) /\ PatchJob(r, k) /\ FillJob(r, k)

Jobs == job # << >> => \E r \in setting.requests, k \in Nat : Partly(r, k)

\* a handler that runs and was not overlapped, or that is done and was not
WorldInv == LastWorld.alone /\ ~ Busy("/fx/world") => WorldWhole /\ FrameReset
PatchInv == LastPatch.alone /\ ~ Busy("/fx/patch") => PatchWhole /\ FramePatch
PollInv == LastPoll.alone /\ ~ Busy("/fx/poll") => PollWhole /\ FramePoll
WildInv == wild => ~ LastPoll.alone \/ ~ LastPatch.alone

AloneInv ==
  /\ Jobs /\ WorldInv /\ PatchInv /\ PollInv /\ WildInv
  /\ LastPatch.arg \in PatchNumbers

(* It holds at first: the words are 0, and no request was handled. *)
LEMMA InitAlone == Init => AloneInv
<1> SUFFICES ASSUME Init PROVE AloneInv
  OBVIOUS
<1>1. \A path \in Lasting : latest[path] = NoRequest
  BY DEF Init
<1>2. LastWorld = NoRequest /\ LastPatch = NoRequest /\ LastPoll = NoRequest
  BY <1>1 DEF LastWorld, LastPatch, LastPoll, Lasting
<1>3. WorldWhole /\ FrameReset
  BY <1>2 DEF Init, WorldWhole, Served, FrameReset, NoRequest
<1>4. PatchWhole /\ FramePatch /\ LastPatch.arg \in PatchNumbers
  BY <1>2 DEF Init, PatchWhole, FramePatch, NoRequest, PatchNumbers
<1>5. PollWhole /\ FramePoll
  BY <1>2 DEF Init, PollWhole, FramePoll, NoRequest
<1>6. Jobs /\ WildInv
  BY DEF Init, Jobs, WildInv
<1>7. QED
  BY <1>3, <1>4, <1>5, <1>6 DEF AloneInv, WorldInv, PatchInv, PollInv

(* The types that are used below. *)
LEMMA AloneTypes ==
  ASSUME TypeInv
  PROVE  /\ last \in Nat /\ last \in 0..Cardinality(setting.requests)
         /\ Cardinality(setting.requests) \in Nat /\ IsFiniteSet(setting.requests)
         /\ \A r \in setting.requests : IsRequest(r)
         /\ mail \in MailType /\ HeapInv
         /\ patches \in [PatchNumbers -> 0..last]
         /\ \A path \in Lasting : latest[path] \in [number : 0..last, arg : Nat, alone : BOOLEAN]
<1>1. /\ last \in 0..Cardinality(setting.requests) /\ Cardinality(setting.requests) \in Nat
      /\ IsFiniteSet(setting.requests) /\ \A r \in setting.requests : IsRequest(r)
  BY RequestsAreTyped DEF TypeInv, TypeOK, Sent
<1>2. mail \in MailType /\ HeapInv
  BY DEF TypeInv, TypeOK, MailType, HeapInv
<1>3. /\ patches \in [PatchNumbers -> 0..last]
      /\ \A path \in Lasting : latest[path] \in [number : 0..last, arg : Nat, alone : BOOLEAN]
  BY DEF TypeInv, TypeOK
<1>4. QED
  BY <1>1, <1>2, <1>3

-----------------------------------------------------------------------------
(* What is about words that a step does not write stays as it is. *)

LEMMA WorldKept ==
  ASSUME UNCHANGED <<world, pc, geometry>>, LastWorld' = LastWorld,
         mail'.geometry = mail.geometry, mail'.weights = mail.weights, mail'.reset = mail.reset,
         WorldWhole, FrameReset
  PROVE  WorldWhole' /\ FrameReset'
  BY DEF WorldWhole, FrameReset, Served

LEMMA PatchKept ==
  ASSUME UNCHANGED <<patches, pc, chosen>>, LastPatch' = LastPatch,
         mail'.cmd = mail.cmd, mail'.patch = mail.patch, PatchWhole, FramePatch
  PROVE  PatchWhole' /\ FramePatch'
  BY DEF PatchWhole, FramePatch

LEMMA PollKept ==
  ASSUME UNCHANGED <<polls, pc, copied, setting>>, last \in Nat, last' \in Nat, last <= last',
         LastPoll' = LastPoll, mail'.setpoll = mail.setpoll,
         mail'.pollindex = mail.pollindex, mail'.pollsize = mail.pollsize,
         heap'[LastPoll.number] = heap[LastPoll.number], PollWhole, FramePoll
  PROVE  PollWhole' /\ FramePoll'
<1>1. Filled => Filled'
  BY DEF Filled
<1>2. IsListOf(polls, LastPoll.number, LastPoll.arg)
        => IsListOf(polls, LastPoll.number, LastPoll.arg)'
  BY DEF IsListOf
<1>3. PollWhole'
  BY <1>1, <1>2 DEF PollWhole
<1>4. ASSUME Begun(copied, LastPoll.number, LastPoll.arg)
      PROVE  Begun(copied, LastPoll.number, LastPoll.arg)'
  <2>1. copied \in Seq(-1..last) /\ -1..last \subseteq -1..last'
    BY <1>4 DEF Begun
  <2>2. copied' \in Seq(-1..last')
    BY <2>1, SeqMonotonic
  <2>3. QED
    BY <1>4, <2>2 DEF Begun
<1>5. QED
  BY <1>1, <1>3, <1>4 DEF FramePoll

(* The store of one handler leaves the words of the others alone. *)
LEMMA StoresApart ==
  ASSUME last \in Nat, mail \in MailType, NEW r, IsRequest(r), NEW k \in Nat, Running(r, k), Store
  PROVE  /\ r.path # "/fx/world" => /\ mail'.geometry = mail.geometry
                                    /\ mail'.weights = mail.weights /\ mail'.reset = mail.reset
         /\ r.path # "/fx/patch" => mail'.cmd = mail.cmd /\ mail'.patch = mail.patch
         /\ r.path # "/fx/poll" => /\ mail'.setpoll = mail.setpoll /\ heap' = heap
                                   /\ mail'.pollindex = mail.pollindex
                                   /\ mail'.pollsize = mail.pollsize
<1>1. CASE r.path = "/fx/world"
  BY <1>1, WhatIsStored DEF StoresWorld, Sets, MailType
<1>2. CASE r.path = "/fx/patch"
  BY <1>2, WhatIsStored DEF StoresPatch, Sets, MailType
<1>3. CASE r.path = "/fx/poll"
  BY <1>3, WhatIsStored DEF StoresPoll, Sets, SetsBlock, MailType
<1>4. CASE r.path = "/fx/cell" \/ r.path = "/fx/quit"
  BY <1>4, WhatIsStored DEF Sets, MailType
<1>5. QED
  BY <1>1, <1>2, <1>3, <1>4 DEF IsRequest

(* Calling a handler: its request is the last of its path, and if no frame has begun *)
(* no frame overlaps it yet; what is about other paths stays as it is. *)
LEMMA HandleAlone ==
  ASSUME GoodPatches, TypeInv, AloneInv, Handle, UNCHANGED setting
  PROVE  AloneInv'
<1>1. /\ last \in Nat /\ job = << >> /\ ~ wild
      /\ UNCHANGED <<setting, mail, heap, wild, pc, geometry, world, copied, polls, chosen,
                     patches>>
      /\ patches \in [PatchNumbers -> 0..last]
      /\ \A path \in Lasting : latest[path] \in [number : 0..last, arg : Nat, alone : BOOLEAN]
  BY AloneTypes DEF Handle, frameVars, worldVars, patchVars
<1>2. PICK r \in unsent :
       /\ last' = last + 1
       /\ job' = Stores(r, last + 1)
       /\ latest' = [path \in Lasting |->
            IF path = r.path THEN [number |-> last + 1, arg |-> r.arg, alone |-> pc = "idle"]
            ELSE latest[path]]
  BY DEF Handle
<1>3. r \in setting.requests /\ IsRequest(r) /\ (r.path = "/fx/patch" => r.arg \in PatchNumbers)
  <2>1. r \in setting.requests /\ setting \in Settings
    BY <1>2 DEF TypeInv, TypeOK, Sent
  <2>2. IsRequest(r)
    BY <2>1, AloneTypes
  <2>3. QED
    BY <2>1, <2>2 DEF GoodPatches
<1>4. Running(r, 0)' /\ job' # << >>
  <2>1. Stores(r, last + 1) \in Seq(Words) /\ Len(Stores(r, last + 1)) > 0
    BY <1>1, <1>3, StoresAreWords
  <2>2. QED
    BY <1>1, <1>2, <1>3, <2>1, HandleStarts
<1>5. \A path \in Lasting :
        latest'[path] = IF path = r.path
                        THEN [number |-> last + 1, arg |-> r.arg, alone |-> pc = "idle"]
                        ELSE latest[path]
  BY <1>2
<1>6. Named(r)' /\ Jobs'
  <2>1. Named(r)'
    BY <1>1, <1>2, <1>5 DEF Named
  <2>2. ASSUME NEW path \in Lasting, path = r.path, latest'[path].alone PROVE pc' = "idle"
    <3> DEFINE fresh == pc = "idle"
    <3>1. latest'[path] = [number |-> last + 1, arg |-> r.arg, alone |-> fresh]
      BY <1>5, <2>2, Zenon
    <3> HIDE DEF fresh
    <3>2. fresh
      BY <2>2, <3>1
    <3>3. QED
      BY <1>1, <3>2 DEF fresh
  <2>3. WorldJob(r, 0)' /\ PatchJob(r, 0)' /\ FillJob(r, 0)'
    <3>1. WorldJob(r, 0)' /\ FillJob(r, 0)'
      BY <2>2 DEF WorldJob, FillJob, LastWorld, LastPoll, Lasting
    <3>2. \A p \in PatchNumbers : patches'[p] # last'
      BY <1>1, <1>2
    <3>3. QED
      BY <2>2, <3>1, <3>2 DEF PatchJob, LastPatch, Lasting
  <2>4. Partly(r, 0)'
    BY <1>4, <2>1, <2>3, Zenon DEF Partly
  <2>5. QED
    BY <1>1, <1>3, <2>1, <2>4 DEF Jobs
<1>7. ASSUME NEW path \in Lasting, path = r.path PROVE Busy(path)'
  BY <1>2, <1>4, <1>5, <1>7 DEF Busy
<1>8. WorldInv'
  <2>1. CASE r.path = "/fx/world"
    BY <1>7, <2>1 DEF WorldInv, Lasting
  <2>2. CASE r.path # "/fx/world"
    <3>1. LastWorld' = LastWorld /\ ~ Busy("/fx/world")
      BY <1>1, <1>5, <2>2 DEF LastWorld, Lasting, Busy
    <3>2. QED
      BY <1>1, <3>1, WorldKept DEF AloneInv, WorldInv
  <2>3. QED
    BY <2>1, <2>2
<1>9. PatchInv' /\ LastPatch'.arg \in PatchNumbers
  <2>1. CASE r.path = "/fx/patch"
    BY <1>3, <1>5, <1>7, <2>1 DEF PatchInv, Lasting, LastPatch
  <2>2. CASE r.path # "/fx/patch"
    <3>1. LastPatch' = LastPatch /\ ~ Busy("/fx/patch")
      BY <1>1, <1>5, <2>2 DEF LastPatch, Lasting, Busy
    <3>2. QED
      BY <1>1, <3>1, PatchKept DEF AloneInv, PatchInv
  <2>3. QED
    BY <2>1, <2>2
<1>10. PollInv'
  <2>1. CASE r.path = "/fx/poll"
    BY <1>7, <2>1 DEF PollInv, Lasting
  <2>2. CASE r.path # "/fx/poll"
    <3>1. LastPoll' = LastPoll /\ ~ Busy("/fx/poll")
      BY <1>1, <1>5, <2>2 DEF LastPoll, Lasting, Busy
    <3>2. last' \in Nat /\ last <= last'
      BY <1>1, <1>2
    <3>3. QED
      BY <1>1, <3>1, <3>2, PollKept DEF AloneInv, PollInv
  <2>3. QED
    BY <2>1, <2>2
<1>11. WildInv'
  BY <1>1 DEF WildInv
<1>12. QED
  BY <1>6, <1>8, <1>9, <1>10, <1>11 DEF AloneInv

(* The store of a word: the handler has one more behind it, and with the last one, *)
(* if no frame overlapped it, its words are whole. *)
LEMMA StoreAlone ==
  ASSUME TypeInv, AloneInv, Store, UNCHANGED setting
  PROVE  AloneInv'
<1>1. /\ last \in Nat /\ job # << >> /\ ~ wild
      /\ UNCHANGED <<setting, last, latest, pc, geometry, world, copied, polls, chosen, patches>>
      /\ mail \in MailType /\ HeapInv
  BY AloneTypes DEF Store, frameVars, worldVars, patchVars
<1>2. PICK r \in setting.requests, k \in Nat : Partly(r, k)
  BY <1>1 DEF AloneInv, Jobs
<1>3. /\ Running(r, k) /\ Named(r) /\ WorldJob(r, k) /\ PatchJob(r, k) /\ FillJob(r, k)
      /\ IsRequest(r) /\ r.arg \in Nat /\ last \in Numbers /\ last # 0
  <2>1. IsRequest(r) /\ last \in 0..Cardinality(setting.requests)
        /\ Cardinality(setting.requests) \in Nat
    BY AloneTypes
  <2>2. Running(r, k) /\ Named(r) /\ WorldJob(r, k) /\ PatchJob(r, k) /\ FillJob(r, k)
    BY <1>2, Zenon DEF Partly
  <2>3. 0 < last
    BY <2>2 DEF Running
  <2>4. QED
    BY <1>1, <2>1, <2>2, <2>3 DEF IsRequest, Numbers
<1> DEFINE length == Len(Stores(r, last))
           ends == k + 1 = length
<1>4. IF ends THEN job' = << >> ELSE job' # << >> /\ Running(r, k + 1)'
  BY <1>1, <1>3, StoreMovesOn
<1>5. /\ r.path = "/fx/world" => StoresWorld(r, k) /\ (ends <=> k = 2)
      /\ r.path = "/fx/patch" => StoresPatch(r, k) /\ (ends <=> k = 1)
      /\ r.path = "/fx/poll" => StoresPoll(r, k) /\ (ends <=> k = r.arg + 2)
  <2>1. /\ r.path = "/fx/world" => StoresWorld(r, k)
        /\ r.path = "/fx/patch" => StoresPatch(r, k)
        /\ r.path = "/fx/poll" => StoresPoll(r, k)
    BY <1>1, <1>3, WhatIsStored
  <2>2. /\ r.path = "/fx/world" => length = 3
        /\ r.path = "/fx/patch" => length = 2
    BY <1>1, <1>3, WorldStores, PatchStores
  <2>3. r.path = "/fx/poll" => length = r.arg + 3
    BY <1>1, <1>3, PollStores DEF ArePollStores
  <2> HIDE DEF length
  <2>4. /\ r.path = "/fx/world" => (ends <=> k = 2)
        /\ r.path = "/fx/patch" => (ends <=> k = 1)
        /\ r.path = "/fx/poll" => (ends <=> k = r.arg + 2)
    BY <1>3, <2>2, <2>3
  <2>5. QED
    BY <2>1, <2>4
<1> HIDE DEF ends
<1>6. \A path \in Lasting : /\ Busy(path) <=> path = r.path
                            /\ Busy(path)' <=> path = r.path /\ ~ ends
  BY <1>1, <1>3, <1>4 DEF Named, Busy
<1>7. /\ r.path = "/fx/world" => LastWorld.number = last /\ LastWorld.arg = r.arg
      /\ r.path = "/fx/patch" => LastPatch.number = last /\ LastPatch.arg = r.arg
      /\ r.path = "/fx/poll" => LastPoll.number = last /\ LastPoll.arg = r.arg
  BY <1>3 DEF Named, Lasting, LastWorld, LastPatch, LastPoll
<1>8. LastWorld' = LastWorld /\ LastPatch' = LastPatch /\ LastPoll' = LastPoll
  BY <1>1 DEF LastWorld, LastPatch, LastPoll
<1>9. WorldInv' /\ (~ ends => WorldJob(r, k + 1)')
  <2>1. CASE r.path # "/fx/world"
    <3>1. WorldInv'
      BY <1>1, <1>3, <1>6, <1>8, <2>1, StoresApart, WorldKept DEF AloneInv, WorldInv, Lasting
    <3>2. QED
      BY <2>1, <3>1 DEF WorldJob
  <2>2. CASE r.path = "/fx/world" /\ ~ LastWorld.alone
    BY <1>8, <2>2 DEF WorldInv, WorldJob
  <2>3. CASE r.path = "/fx/world" /\ LastWorld.alone
    <3>1. pc = "idle" /\ (k >= 1 => mail.reset = r.arg) /\ (k >= 2 => mail.geometry = last)
      BY <1>3, <2>3 DEF WorldJob
    <3>2. CASE k = 0
      <4>1. ~ ends /\ mail'.reset = r.arg
        BY <1>1, <1>5, <2>3, <3>2 DEF StoresWorld, Sets, MailType
      <4>2. QED
        BY <1>1, <1>6, <2>3, <3>1, <3>2, <4>1 DEF WorldInv, WorldJob, Lasting
    <3>3. CASE k = 1
      <4>1. ~ ends /\ mail'.reset = r.arg /\ mail'.geometry = last
        BY <1>1, <1>5, <2>3, <3>1, <3>3 DEF StoresWorld, Sets, MailType
      <4>2. QED
        BY <1>1, <1>6, <2>3, <3>1, <3>3, <4>1 DEF WorldInv, WorldJob, Lasting
    <3>4. CASE k = 2
      <4>1. ends /\ mail'.reset = r.arg /\ mail'.geometry = last /\ mail'.weights = last
        BY <1>1, <1>5, <2>3, <3>1, <3>4 DEF StoresWorld, Sets, MailType
      <4>2. WorldWhole' /\ FrameReset'
        BY <1>1, <1>7, <1>8, <2>3, <3>1, <4>1 DEF WorldWhole, FrameReset
      <4>3. QED
        BY <4>1, <4>2 DEF WorldInv
    <3>5. QED
      BY <1>5, <2>3, <3>2, <3>3, <3>4 DEF StoresWorld
  <2>4. QED
    BY <2>1, <2>2, <2>3
<1>10. PatchInv' /\ (~ ends => PatchJob(r, k + 1)')
  <2>1. CASE r.path # "/fx/patch"
    <3>1. PatchInv'
      BY <1>1, <1>3, <1>6, <1>8, <2>1, StoresApart, PatchKept DEF AloneInv, PatchInv, Lasting
    <3>2. QED
      BY <2>1, <3>1 DEF PatchJob
  <2>2. CASE r.path = "/fx/patch" /\ ~ LastPatch.alone
    BY <1>8, <2>2 DEF PatchInv, PatchJob
  <2>3. CASE r.path = "/fx/patch" /\ LastPatch.alone
    <3>1. pc = "idle" /\ (k >= 1 => mail.patch = r.arg) /\ \A p \in PatchNumbers : patches[p] # last
      BY <1>3, <2>3 DEF PatchJob
    <3>2. CASE k = 0
      <4>1. ~ ends /\ mail'.patch = r.arg
        BY <1>1, <1>5, <2>3, <3>2 DEF StoresPatch, Sets, MailType
      <4>2. QED
        BY <1>1, <1>6, <2>3, <3>1, <3>2, <4>1 DEF PatchInv, PatchJob, Lasting
    <3>3. CASE k = 1
      <4>1. ends /\ mail'.patch = r.arg /\ mail'.cmd = last
        BY <1>1, <1>5, <2>3, <3>1, <3>3 DEF StoresPatch, Sets, MailType
      <4>2. PatchWhole' /\ FramePatch'
        BY <1>1, <1>7, <1>8, <2>3, <3>1, <4>1 DEF PatchWhole, FramePatch
      <4>3. QED
        BY <4>1, <4>2 DEF PatchInv
    <3>4. QED
      BY <1>5, <2>3, <3>2, <3>3 DEF StoresPatch
  <2>4. QED
    BY <2>1, <2>2, <2>3
(* a block that is filled is the one that this handler allocated *)
<1>11. PollInv' /\ WildInv' /\ (~ ends => FillJob(r, k + 1)')
  <2>1. CASE r.path # "/fx/poll"
    <3>1. PollInv'
      BY <1>1, <1>3, <1>6, <1>8, <2>1, StoresApart, PollKept DEF AloneInv, PollInv, Lasting
    <3>2. wild' = wild
      BY <1>1, <1>3, <2>1, WhatIsStored DEF IsRequest, StoresWorld, StoresPatch, Sets
    <3>3. QED
      BY <1>1, <2>1, <3>1, <3>2 DEF FillJob, WildInv
  <2>2. CASE r.path = "/fx/poll" /\ ~ LastPoll.alone
    BY <1>8, <2>2 DEF PollInv, FillJob, WildInv
  <2>3. CASE r.path = "/fx/poll" /\ LastPoll.alone
    <3>1. /\ pc = "idle" /\ pc' = "idle"
          /\ k >= 1 => mail.setpoll = 1
          /\ k >= 2 => mail.pollsize = r.arg
          /\ k >= 3 => /\ mail.pollindex = last
                       /\ heap[last] = [used |-> "live", size |-> r.arg, written |-> k - 3]
      BY <1>1, <1>3, <2>3 DEF FillJob
    <3>2. ~ ends => ~ (~ Busy("/fx/poll"))'
      BY <1>6, <2>3 DEF Lasting
    <3>3. CASE k = 0
      <4>1. ~ ends /\ mail'.setpoll = 1 /\ wild' = wild
        BY <1>1, <1>3, <1>5, <2>3, <3>3 DEF StoresPoll, Sets, MailType
      <4>2. QED
        BY <1>1, <3>1, <3>2, <3>3, <4>1 DEF PollInv, FillJob, WildInv
    <3>4. CASE k = 1
      <4>1. ~ ends /\ mail'.setpoll = 1 /\ mail'.pollsize = r.arg /\ wild' = wild
        BY <1>1, <1>3, <1>5, <2>3, <3>1, <3>4 DEF StoresPoll, Sets, MailType
      <4>2. QED
        BY <1>1, <3>1, <3>2, <3>4, <4>1 DEF PollInv, FillJob, WildInv
    <3>5. CASE k >= 2
      <4>1. /\ mail'.setpoll = 1 /\ mail'.pollsize = r.arg /\ mail'.pollindex = last
            /\ heap'[last] = [used |-> "live", size |-> r.arg, written |-> k - 2] /\ wild' = wild
        <5>1. CASE k = 2
          <6>1. /\ mail' = [mail EXCEPT !.pollindex = last] /\ wild' = wild
                /\ heap' = [heap EXCEPT ![last] =
                              [used |-> "live", size |-> mail.pollsize, written |-> 0]]
            BY <1>5, <2>3, <5>1 DEF StoresPoll, SetsBlock
          <6>2. QED
            BY <1>1, <1>3, <3>1, <5>1, <6>1 DEF HeapInv, MailType
        <5>2. CASE k > 2
          <6>1. mail' = mail /\ StoreEntry(k - 2)
            BY <1>5, <2>3, <5>2 DEF StoresPoll
          <6>2. heap' = [heap EXCEPT ![last].written = k - 2] /\ wild' = wild
            BY <3>1, <5>2, <6>1 DEF StoreEntry
          <6>3. QED
            BY <1>1, <1>3, <3>1, <5>2, <6>1, <6>2 DEF HeapInv
        <5>3. QED
          BY <3>5, <5>1, <5>2
      <4>2. ends => PollWhole' /\ FramePoll'
        BY <1>1, <1>3, <1>5, <1>7, <1>8, <2>3, <3>1, <4>1 DEF PollWhole, FramePoll, Filled
      <4>3. QED
        BY <1>1, <3>1, <3>2, <3>5, <4>1, <4>2 DEF PollInv, FillJob, WildInv
    <3>6. QED
      BY <3>3, <3>4, <3>5
  <2>4. QED
    BY <2>1, <2>2, <2>3
<1>12. Jobs'
  <2>1. CASE ends
    BY <1>4, <2>1 DEF Jobs
  <2>2. CASE ~ ends
    <3>1. Named(r)'
      BY <1>1, <1>3 DEF Named
    <3>2. Partly(r, k + 1)'
      BY <1>4, <1>9, <1>10, <1>11, <2>2, <3>1, Zenon DEF Partly
    <3>3. QED
      BY <1>1, <1>2, <3>2 DEF Jobs
  <2>3. QED
    BY <2>1, <2>2
<1>13. QED
  BY <1>1, <1>8, <1>9, <1>10, <1>11, <1>12 DEF AloneInv

-----------------------------------------------------------------------------
(* A step of a frame is not in the middle of a handler that no frame overlapped: the *)
(* first step of the frame marks the handler that runs, and goes on with no other.   *)
LEMMA RenderApart ==
  ASSUME TypeInv, AloneInv, Render, UNCHANGED setting
  PROVE  /\ UNCHANGED <<last, job>> /\ ~ wild
         /\ \A path \in Lasting :
              latest'[path].alone => latest'[path] = latest[path] /\ ~ Busy(path)
         /\ LastPatch'.arg \in PatchNumbers
         /\ Jobs'
<1>1. UNCHANGED <<last, job>> /\ ~ wild
  BY DEF Render, FirstPatch, SecondPatch, StrayPatch, Command, TestReset, TestKind,
         ReadGeometry, Rebuild, Reweigh, ResetDone, TestCell, TakeCell, TestPoll,
         BeginCollect, CopyEntry, EndCollect, EndFrame, CutShort, ReadsOnly, At, handlerVars
<1>2. \/ latest' = [path \in Lasting |->
            IF Busy(path) THEN [latest[path] EXCEPT !.alone = FALSE] ELSE latest[path]]
      \/ latest' = latest /\ pc # "idle"
  BY DEF Render, FirstPatch, SecondPatch, StrayPatch, Command, TestReset, TestKind,
         ReadGeometry, Rebuild, Reweigh, ResetDone, TestCell, TakeCell, TestPoll,
         BeginCollect, CopyEntry, EndCollect, EndFrame, CutShort, ReadsOnly, At, handlerVars
<1>3. /\ last \in Nat
      /\ \A path \in Lasting : latest[path] \in [number : 0..last, arg : Nat, alone : BOOLEAN]
  BY AloneTypes
<1>4. ASSUME NEW path \in Lasting
      PROVE  latest'[path].number = latest[path].number /\ latest'[path].arg = latest[path].arg
  BY <1>2, <1>3
<1>5. ASSUME NEW path \in Lasting, Busy(path), latest[path].alone
      PROVE  pc = "idle"
  <2>1. job # << >> /\ latest[path].number = last
    BY <1>5 DEF Busy
  <2>2. PICK r \in setting.requests, k \in Nat : Partly(r, k)
    BY <2>1 DEF AloneInv, Jobs
  <2>3. Named(r) /\ WorldJob(r, k) /\ PatchJob(r, k) /\ FillJob(r, k)
    BY <2>2 DEF Partly
  <2>4. path = r.path
    BY <1>3, <2>1, <2>3 DEF Named
  <2>5. QED
    BY <1>5, <2>3, <2>4 DEF WorldJob, PatchJob, FillJob, LastWorld, LastPatch, LastPoll, Lasting
<1>6. ASSUME NEW path \in Lasting, latest'[path].alone
      PROVE  latest'[path] = latest[path] /\ ~ Busy(path)
  <2>1. CASE latest' = latest /\ pc # "idle"
    BY <1>5, <1>6, <2>1
  <2>2. CASE latest' = [p \in Lasting |->
                          IF Busy(p) THEN [latest[p] EXCEPT !.alone = FALSE] ELSE latest[p]]
    <3>1. Busy(path) => latest'[path].alone = FALSE
      BY <1>3, <2>2
    <3>2. QED
      BY <1>6, <2>2, <3>1
  <2>3. QED
    BY <1>2, <2>1, <2>2
<1>7. LastPatch'.arg \in PatchNumbers
  BY <1>4 DEF AloneInv, LastPatch, Lasting
<1>8. Jobs'
  <2> SUFFICES ASSUME job # << >> PROVE \E r \in setting.requests, k \in Nat : Partly(r, k)'
    BY <1>1 DEF Jobs
  <2>1. PICK r \in setting.requests, k \in Nat : Partly(r, k)
    BY DEF AloneInv, Jobs
  <2>2. Running(r, k)' /\ Named(r)'
    BY <1>1, <1>4, <2>1 DEF Partly, Running, Named
  <2>3. ASSUME NEW path \in Lasting, path = r.path PROVE ~ latest'[path].alone
    BY <1>6, <2>1, <2>3 DEF Partly, Named, Busy
  <2>4. WorldJob(r, k)' /\ PatchJob(r, k)' /\ FillJob(r, k)'
    BY <2>3 DEF WorldJob, PatchJob, FillJob, LastWorld, LastPatch, LastPoll, Lasting
  <2>5. QED
    BY <2>2, <2>4 DEF Partly
<1>9. QED
  BY <1>1, <1>6, <1>7, <1>8

(* resetWorld: nothing is stored meanwhile, so what it has read stays true until it *)
(* has built the world or used the weights; then it clears the request. *)
LEMMA RenderWorld ==
  ASSUME Render, LastWorld' = LastWorld, mail \in MailType, WorldWhole, FrameReset
  PROVE  WorldWhole' /\ FrameReset'
<1> USE DEF ReadsOnly, At, Goes, worldVars, patchVars
(* steps that neither read nor write what this is about *)
<1>1. ASSUME UNCHANGED <<world, mail>> PROVE WorldWhole'
  BY <1>1 DEF WorldWhole, Served
<1>2. CASE FirstPatch
  BY <1>1, <1>2 DEF FirstPatch, FrameReset
<1>3. CASE SecondPatch
  BY <1>1, <1>3 DEF SecondPatch, FrameReset
<1>4. CASE StrayPatch
  BY <1>1, <1>4 DEF StrayPatch, FrameReset
<1>5. CASE Command
  BY <1>1, <1>5 DEF Command, FrameReset
<1>6. CASE TestCell
  BY <1>1, <1>6 DEF TestCell, FrameReset
<1>7. CASE TestPoll
  BY <1>1, <1>7 DEF TestPoll, FrameReset
<1>8. CASE CopyEntry
  BY <1>1, <1>8 DEF CopyEntry, FrameReset
<1>9. CASE EndCollect
  BY <1>1, <1>9 DEF EndCollect, FrameReset
<1>10. CASE EndFrame \/ CutShort
  BY <1>1, <1>10 DEF EndFrame, CutShort, AfterFrame, FrameReset
(* steps that clear another flag *)
<1>11. ASSUME UNCHANGED world, mail'.geometry = mail.geometry, mail'.weights = mail.weights,
              mail'.reset = mail.reset
       PROVE  WorldWhole'
  BY <1>11 DEF WorldWhole, Served
<1>12. CASE TakeCell
  BY <1>11, <1>12 DEF TakeCell, FrameReset, MailType
<1>13. CASE BeginCollect
  BY <1>11, <1>13 DEF BeginCollect, TakesPoll, FrameReset, MailType
(* resetWorld itself *)
<1>14. CASE TestReset
  BY <1>1, <1>14 DEF TestReset, FrameReset
<1>15. CASE TestKind
  <2>1. FrameReset'
    BY <1>15 DEF TestKind, FrameReset, WorldWhole, Served, MailType
  <2>2. QED
    BY <1>1, <1>15, <2>1 DEF TestKind
<1>16. CASE ReadGeometry
  BY <1>1, <1>16 DEF ReadGeometry, FrameReset
<1>17. ASSUME UNCHANGED mail, Served', pc' = "served" PROVE WorldWhole' /\ FrameReset'
  BY <1>17 DEF WorldWhole, FrameReset
<1>18. CASE Rebuild
  <2>1. Served'
    BY <1>18 DEF Rebuild, NewWorld, Served, WorldWhole, FrameReset
  <2>2. QED
    BY <1>17, <1>18, <2>1 DEF Rebuild
<1>19. CASE Reweigh
  <2>1. Served'
    BY <1>19 DEF Reweigh, Served, WorldWhole, FrameReset
  <2>2. QED
    BY <1>17, <1>19, <2>1 DEF Reweigh
<1>20. CASE ResetDone
  BY <1>20 DEF ResetDone, Cleared, WorldWhole, FrameReset, Served, MailType
<1>21. QED
  BY <1>2, <1>3, <1>4, <1>5, <1>6, <1>7, <1>8, <1>9, <1>10, <1>12, <1>13, <1>14, <1>15,
     <1>16, <1>18, <1>19, <1>20 DEF Render

(* setPatch: patch names a patch there is, so the frame finds it, and no pointer is *)
(* used that was never set. *)
LEMMA RenderPatch ==
  ASSUME Render, LastPatch' = LastPatch, LastPatch.arg \in PatchNumbers, mail \in MailType,
         patches \in [PatchNumbers -> 0..last], PatchWhole, FramePatch
  PROVE  PatchWhole' /\ FramePatch' /\ ~ StrayPatch
<1> USE DEF ReadsOnly, At, Goes, worldVars, patchVars
<1>1. ASSUME mail'.cmd = mail.cmd, mail'.patch = mail.patch PROVE PatchWhole'
  BY <1>1 DEF PatchWhole
<1>2. ~ StrayPatch
  BY DEF StrayPatch, FramePatch, PatchWhole, PatchNumbers
<1>3. CASE FirstPatch
  <2>1. FramePatch'
    BY <1>3 DEF FirstPatch, FramePatch
  <2>2. QED
    BY <1>1, <1>2, <1>3, <2>1 DEF FirstPatch
<1>4. CASE SecondPatch
  <2>1. FramePatch'
    BY <1>4 DEF SecondPatch, FramePatch
  <2>2. QED
    BY <1>1, <1>2, <1>4, <2>1 DEF SecondPatch
<1>5. CASE Command
  <2>1. /\ chosen = mail.patch /\ patches' = [patches EXCEPT ![mail.patch] = mail.cmd]
        /\ pc' = "reset" /\ mail' = mail
    BY <1>5 DEF Command, FramePatch
  <2>2. FramePatch'
    BY <2>1 DEF FramePatch, PatchWhole
  <2>3. QED
    BY <1>1, <1>2, <2>1, <2>2
(* the rest of the frame *)
<1>6. ASSUME UNCHANGED <<patches, chosen>>, mail'.cmd = mail.cmd, mail'.patch = mail.patch,
             pc \notin {"idle", "patch1", "command"}, pc' \notin {"patch1", "command"}
      PROVE  PatchWhole' /\ FramePatch'
  BY <1>6 DEF PatchWhole, FramePatch
<1>7. CASE TestReset \/ TestKind \/ ReadGeometry \/ Rebuild \/ Reweigh \/ ResetDone
  BY <1>2, <1>6, <1>7 DEF TestReset, TestKind, ReadGeometry, Rebuild, Reweigh, ResetDone, Cleared,
                          MailType
<1>8. CASE TestCell \/ TakeCell \/ TestPoll \/ BeginCollect
  BY <1>2, <1>6, <1>8 DEF TestCell, TakeCell, TestPoll, BeginCollect, TakesPoll, MailType
<1>9. CASE CopyEntry \/ EndCollect \/ EndFrame \/ CutShort
  BY <1>2, <1>6, <1>9 DEF CopyEntry, EndCollect, EndFrame, CutShort, AfterFrame
<1>10. QED
  BY <1>2, <1>3, <1>4, <1>5, <1>7, <1>8, <1>9 DEF Render

(* setPoll: the block that pollindex names is used while it is allocated, every      *)
(* entry of it is copied, and it is freed once the list is complete.                 *)
LEMMA RenderPoll ==
  ASSUME Render, UNCHANGED <<setting, last>>, LastPoll' = LastPoll, mail \in MailType,
         LastPoll.number \in 0..last, LastPoll.arg \in Nat, last \in Nat, PollWhole, FramePoll
  PROVE  PollWhole' /\ FramePoll' /\ (StrayPatch \/ wild' = wild)
<1> USE DEF ReadsOnly, At, Goes, worldVars, patchVars
<1>1. Filled => LastPoll.number # 0 /\ mail.pollindex = LastPoll.number
                /\ Readable(LastPoll.number)
  BY DEF Filled, Readable
(* steps that do not copy a list *)
<1>2. ASSUME UNCHANGED <<polls, heap, copied>>, mail'.setpoll = mail.setpoll,
             mail'.pollindex = mail.pollindex, mail'.pollsize = mail.pollsize,
             pc # "copy", pc' \notin {"copy", "collect"}
      PROVE  PollWhole' /\ FramePoll'
  <2>1. Filled => Filled'
    BY <1>2 DEF Filled
  <2>2. IsListOf(polls, LastPoll.number, LastPoll.arg)
          => IsListOf(polls, LastPoll.number, LastPoll.arg)'
    BY <1>2 DEF IsListOf
  <2>3. QED
    BY <1>2, <2>1, <2>2 DEF PollWhole, FramePoll
<1>3. CASE FirstPatch \/ SecondPatch \/ StrayPatch \/ Command
  BY <1>2, <1>3 DEF FirstPatch, SecondPatch, StrayPatch, Command
<1>4. CASE TestReset \/ TestKind \/ ReadGeometry \/ Rebuild \/ Reweigh \/ ResetDone
  BY <1>2, <1>4 DEF TestReset, TestKind, ReadGeometry, Rebuild, Reweigh, ResetDone, Cleared,
                    MailType
<1>5. CASE TestCell \/ TakeCell \/ EndFrame \/ CutShort
  BY <1>2, <1>5 DEF TestCell, TakeCell, EndFrame, CutShort, AfterFrame, MailType
<1>6. CASE TestPoll
  <2>1. UNCHANGED <<polls, heap, mail, copied, wild>> /\ pc = "poll"
        /\ pc' = IF mail.setpoll = 1 THEN "collect" ELSE "sweep"
    BY <1>6 DEF TestPoll
  <2>2. Filled => Filled'
    BY <2>1 DEF Filled
  <2>3. IsListOf(polls, LastPoll.number, LastPoll.arg)
          => IsListOf(polls, LastPoll.number, LastPoll.arg)'
    BY <2>1 DEF IsListOf
  <2>4. QED
    BY <2>1, <2>2, <2>3 DEF PollWhole, FramePoll
(* the copy *)
<1>7. CASE BeginCollect
  <2>1. /\ mail' = [mail EXCEPT !.setpoll = 0] /\ pc' = "copy" /\ copied' = << >>
        /\ UNCHANGED <<heap, wild, polls>> /\ Filled
    BY <1>7 DEF BeginCollect, TakesPoll, PollWhole, FramePoll
  <2>2. Filled' /\ mail'.setpoll = 0
    BY <2>1 DEF Filled, MailType
  <2>3. Begun(copied, LastPoll.number, LastPoll.arg)'
    <3>1. << >> \in Seq(-1..last) /\ Len(<< >>) = 0
      OBVIOUS
    <3>2. \A i : i \notin 1..0
      OBVIOUS
    <3>3. QED
      BY <2>1, <3>1, <3>2 DEF Begun
  <2>4. QED
    BY <2>1, <2>2, <2>3 DEF PollWhole, FramePoll
<1>8. CASE CopyEntry
  <2> DEFINE b == LastPoll.number
             size == LastPoll.arg
             n == Len(copied)
  <2>1. /\ Filled /\ mail.setpoll = 0 /\ Begun(copied, b, size)
        /\ n < mail.pollsize /\ pc = "copy" /\ pc' = "copy" /\ UNCHANGED <<mail, heap, polls>>
    BY <1>8 DEF CopyEntry, FramePoll
  <2>2. Readable(b) /\ mail.pollindex = b /\ mail.pollsize = size /\ b # 0
        /\ heap[b] = [used |-> "live", size |-> size, written |-> size]
    BY <1>1, <2>1 DEF Filled
  <2>3. wild' = wild /\ \E e \in Entry(b, n + 1) : copied' = Append(copied, e)
    BY <1>8, <2>2 DEF CopyEntry
  <2>4. PICK e \in Entry(b, n + 1) : copied' = Append(copied, e)
    BY <2>3
  <2>5. copied \in Seq(-1..last) /\ n \in Nat /\ n + 1 <= size
    BY <2>1, <2>2 DEF Begun
  <2>6. e = b \/ (n + 1 = size /\ ~ setting.roomy /\ e = Clobbered)
    BY <2>2, <2>4, <2>5 DEF Entry
  <2>7. e \in -1..last
    BY <2>6 DEF Clobbered
  <2>8. ASSUME NEW S, copied \in Seq(S), e \in S
        PROVE  /\ copied' \in Seq(S) /\ Len(copied') = Len(copied) + 1
               /\ \A i \in 1..Len(copied) : copied'[i] = copied[i]
               /\ copied'[Len(copied) + 1] = e
    BY <2>4, <2>8, AppendProperties
  <2>9. /\ copied' \in Seq(-1..last) /\ Len(copied') = n + 1
        /\ \A i \in 1..n : copied'[i] = copied[i]
        /\ copied'[n + 1] = e
    BY <2>5, <2>7, <2>8
  <2>10. \A i \in 1..n : copied[i] = b \/ (i = size /\ ~ setting.roomy /\ copied[i] = Clobbered)
    BY <2>1 DEF Begun
  <2> HIDE DEF n
  <2>11. \A i \in 1..n + 1 :
           copied'[i] = b \/ (i = size /\ ~ setting.roomy /\ copied'[i] = Clobbered)
    <3>1. \A i \in 1..n + 1 : i \in 1..n \/ i = n + 1
      BY <2>5
    <3>2. QED
      BY <2>6, <2>9, <2>10, <3>1
  <2>12. Begun(copied, LastPoll.number, LastPoll.arg)'
    BY <2>5, <2>9, <2>11 DEF Begun
  <2>13. Filled'
    BY <2>1 DEF Filled
  <2>14. QED
    BY <2>1, <2>3, <2>12, <2>13 DEF PollWhole, FramePoll
(* the list is complete *)
<1>9. CASE EndCollect
  <2> DEFINE b == LastPoll.number
             size == LastPoll.arg
  <2>1. /\ Filled /\ mail.setpoll = 0 /\ Begun(copied, b, size)
        /\ Len(copied) >= mail.pollsize /\ pc = "copy" /\ UNCHANGED mail
    BY <1>9 DEF EndCollect, FramePoll
  <2>2. polls' = copied /\ pc' = "sweep" /\ wild' = wild
    BY <1>1, <1>9, <2>1 DEF EndCollect
  <2>3. IsListOf(copied, b, size)
    <3>1. mail.pollsize = size
      BY <2>1 DEF Filled
    <3>2. Len(copied) = size
      BY <2>1, <3>1 DEF Begun
    <3>3. QED
      BY <2>1, <3>2 DEF Begun, IsListOf
  <2>4. IsListOf(polls, LastPoll.number, LastPoll.arg)'
    BY <2>2, <2>3 DEF IsListOf
  <2>5. QED
    BY <2>1, <2>2, <2>4 DEF PollWhole, FramePoll
<1>10. QED
  BY <1>3, <1>4, <1>5, <1>6, <1>7, <1>8, <1>9 DEF Render, TestReset, TestKind, ReadGeometry,
     Rebuild, Reweigh, ResetDone, TestCell, TakeCell, EndFrame, CutShort, FirstPatch, SecondPatch,
     Command

(* A step of a frame, whatever handlers it overlaps. *)
LEMMA RenderAlone ==
  ASSUME TypeInv, AloneInv, Render, UNCHANGED setting
  PROVE  AloneInv'
<1>1. /\ UNCHANGED <<last, job>> /\ ~ wild
      /\ LastWorld'.alone => LastWorld' = LastWorld /\ ~ Busy("/fx/world")
      /\ LastPatch'.alone => LastPatch' = LastPatch /\ ~ Busy("/fx/patch")
      /\ LastPoll'.alone => LastPoll' = LastPoll /\ ~ Busy("/fx/poll")
      /\ LastPatch'.arg \in PatchNumbers /\ Jobs'
  BY RenderApart DEF LastWorld, LastPatch, LastPoll, Lasting
<1>2. /\ mail \in MailType /\ patches \in [PatchNumbers -> 0..last] /\ last \in Nat
      /\ LastPoll.number \in 0..last /\ LastPoll.arg \in Nat
  BY AloneTypes DEF LastPoll, Lasting
<1>3. LastWorld'.alone => WorldWhole' /\ FrameReset'
  BY <1>1, <1>2, RenderWorld DEF AloneInv, WorldInv
<1>4. LastPatch'.alone => PatchWhole' /\ FramePatch' /\ ~ StrayPatch
  BY <1>1, <1>2, RenderPatch DEF AloneInv, PatchInv
<1>5. LastPoll'.alone => PollWhole' /\ FramePoll' /\ (StrayPatch \/ wild' = wild)
  BY <1>1, <1>2, RenderPoll DEF AloneInv, PollInv
<1>6. QED
  BY <1>1, <1>3, <1>4, <1>5 DEF AloneInv, WorldInv, PatchInv, PollInv, WildInv

(* The invariant, whatever handlers and frames do to each other. *)
LEMMA Recovering ==
  ASSUME GoodPatches
  PROVE  Spec => []AloneInv
<1>1. TypeInv /\ AloneInv /\ [Next]_vars => AloneInv'
  <2> SUFFICES ASSUME TypeInv, AloneInv, [Next]_vars PROVE AloneInv'
    OBVIOUS
  <2>1. CASE Next
    BY <2>1, HandleAlone, StoreAlone, RenderAlone DEF Next, Server
  <2>2. CASE UNCHANGED vars
    <3>1. /\ UNCHANGED <<setting, last, job, mail, heap, pc, geometry, world, copied, polls, wild>>
          /\ UNCHANGED <<latest, chosen, patches>>
          /\ LastWorld' = LastWorld /\ LastPatch' = LastPatch /\ LastPoll' = LastPoll
      BY <2>2 DEF vars, handlerVars, frameVars, worldVars, patchVars, LastWorld, LastPatch, LastPoll
    <3>2. \A path : Busy(path)' <=> Busy(path)
      BY <3>1 DEF Busy
    <3>3. WorldInv'
      BY <3>1, <3>2, WorldKept DEF AloneInv, WorldInv
    <3>4. PatchInv'
      BY <3>1, <3>2, PatchKept DEF AloneInv, PatchInv
    <3>5. PollInv'
      BY <3>1, <3>2, PollKept, AloneTypes DEF AloneInv, PollInv
    <3>6. Jobs'
      <4> SUFFICES ASSUME job # << >> PROVE \E r \in setting.requests, k \in Nat : Partly(r, k)'
        BY <3>1 DEF Jobs
      <4>1. PICK r \in setting.requests, k \in Nat : Partly(r, k)
        BY DEF AloneInv, Jobs
      <4>2. Running(r, k)' /\ Named(r)'
        BY <3>1, <4>1 DEF Partly, Running, Named
      <4>3. WorldJob(r, k)' /\ PatchJob(r, k)' /\ FillJob(r, k)'
        BY <3>1, <4>1 DEF Partly, WorldJob, PatchJob, FillJob
      <4>4. QED
        BY <4>2, <4>3 DEF Partly
    <3>7. QED
      BY <3>1, <3>3, <3>4, <3>5, <3>6 DEF AloneInv, WildInv
  <2>3. QED
    BY <2>1, <2>2
<1>2. QED
  BY <1>1, InitAlone, Typing, PTL DEF Spec

(* poll_handler and getPollIndices share a block without a lock, and either may      *)
(* spoil the other's work.  It does not last: a list whose handler no frame overlaps *)
(* is installed whole, but for the int stored past its block, whatever earlier       *)
(* handlers and frames left in the words, in the heap and in the frame; and freed or *)
(* null memory is used only if a frame overlapped the last handler of /fx/poll or of *)
(* /fx/patch.                                                                        *)
THEOREM PollListsStayWhole ==
  ASSUME GoodPatches
  PROVE  Spec => []PollsCompleteIfAlone
<1>1. AloneInv => PollsCompleteIfAlone
  BY DEF AloneInv, PollInv, PollWhole, WildInv, PollsCompleteIfAlone, Quiet, Busy
<1>2. QED
  BY <1>1, Recovering, PTL

(* resetWorld and setPatch: the last /fx/world request is in force when it no longer *)
(* waits, with its own geometry and weights, and the last /fx/patch command has been *)
(* applied to its own patch by a frame past setPatch, if no frame overlapped its     *)
(* handler, whatever handlers raced with frames before.                              *)
THEOREM RequestsComeIntoForce ==
  ASSUME GoodPatches
  PROVE  Spec => []InForceIfAlone
<1>1. TypeInv /\ AloneInv => InForceIfAlone
  <2> SUFFICES ASSUME TypeInv, AloneInv PROVE InForceIfAlone
    OBVIOUS
  <2>1. LastWorld.alone => RequestsInForce
    BY DEF AloneInv, WorldInv, WorldWhole, Served, RequestsInForce, Quiet, Busy
  <2>2. ASSUME LastPatch.alone, LastPatch.number # 0
        PROVE  /\ \A p \in PatchNumbers : patches[p] = LastPatch.number => p = LastPatch.arg
               /\ pc \notin {"idle", "patch1", "command"} => LastCommandApplied
    <3>1. CASE Busy("/fx/patch")
      <4>1. PICK r \in setting.requests, k \in Nat : Partly(r, k)
        BY <3>1 DEF AloneInv, Jobs, Busy
      <4>2. r.path = "/fx/patch"
        BY <3>1, <4>1, AloneTypes DEF Partly, Named, Busy, Lasting
      <4>3. pc = "idle" /\ \A p \in PatchNumbers : patches[p] # LastPatch.number
        BY <2>2, <3>1, <4>1, <4>2 DEF Partly, PatchJob, Busy, LastPatch
      <4>4. QED
        BY <4>3
    <3>2. CASE ~ Busy("/fx/patch")
      BY <2>2, <3>2 DEF AloneInv, PatchInv, PatchWhole, FramePatch, LastCommandApplied
    <3>3. QED
      BY <3>1, <3>2
  <2>3. QED
    BY <2>1, <2>2 DEF InForceIfAlone
<1>2. QED
  BY <1>1, Typing, Recovering, PTL
=============================================================================
