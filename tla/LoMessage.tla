----------------------------- MODULE LoMessage -----------------------------
(***************************************************************************)
(* Messages and bundles as liblo holds them in memory (message.c,          *)
(* bundle.c, blob.c): built argument by argument, read through argv,       *)
(* serialised, and deserialised on a host of the same or of the other byte *)
(* order.  LoWire has the layout of the bytes.                             *)
(*                                                                         *)
(* A message is named by its address.  A pointer into its data is an       *)
(* offset.  Blocks have a capacity that only grows; realloc may move them, *)
(* which no offset shows, so what matters is that argv is dropped then.    *)
(***************************************************************************)
EXTENDS LoWire, FiniteSets
LOCAL INSTANCE FiniteSetsExt

CONSTANTS
  Handles,           \* addresses of messages
  Little,            \* those on a little-endian host
  Arguments,         \* arguments that may be added: [t, v], numbers big-endian
  Varargs,           \* argument lists of lo_message_add, with unknown types among them
  Paths,             \* paths messages are sent to
  Flaws,             \* what a byte that arrives may be instead of the one sent
  LO_DEF_TYPE_SIZE, LO_DEF_DATA_SIZE, BundleSize, \* first capacities: 8, 8 and 4 in the code
  MaxLive, MaxArgs,  \* bounds: messages at a time, and their arguments when one is added
  MaxItems,          \* bound: messages of a bundle
  None               \* no message, no bundle, no argv

ASSUME MessageAssumption ==
  /\ Handles \subseteq Nat /\ Little \subseteq Handles
  /\ LO_DEF_TYPE_SIZE \in Nat /\ LO_DEF_TYPE_SIZE >= 2
  /\ LO_DEF_DATA_SIZE \in Nat \ {0} /\ BundleSize \in Nat \ {0}

VARIABLES
  heap,   \* the messages: [types, typesize, data, datasize, argv], types without the comma
  bundle  \* a bundle: [size, items], an item being [path, msg]

vars == <<heap, bundle>>

Live == {h \in Handles : heap[h] # None}
Nothing == -1   \* NULL, as an entry of argv

Init == heap = [h \in Handles |-> None] /\ bundle = None

-----------------------------------------------------------------------------
(* Building. *)

NewMessage == [types |-> << >>, typesize |-> LO_DEF_TYPE_SIZE,
               data |-> << >>, datasize |-> 0, argv |-> None]

TypeRoom_late(m) == IF Len(m.types) + 1 >= m.typesize THEN 2 * m.typesize ELSE m.typesize
TypeRoom(m) ==
  IF Len(m.types) + 2 < m.typesize THEN m.typesize
  ELSE IF m.typesize = 0 THEN LO_DEF_TYPE_SIZE ELSE 2 * m.typesize

AddTypechar_keepsArgv(m, t) == [m EXCEPT !.typesize = TypeRoom(m), !.types = Append(@, t)]
AddTypechar(m, t) ==
  [m EXCEPT !.typesize = TypeRoom(m), !.types = Append(@, t), !.argv = None]

(* The size, doubled until it is enough. *)
DataRoom(size, need) ==
  LET Enlarged(room) == IF room < need THEN 2 * room ELSE room
      room[n \in 0..need] ==
        IF n = 0 THEN IF size = 0 THEN LO_DEF_DATA_SIZE ELSE size ELSE Enlarged(room[n - 1])
  IN room[need]

AddData(m, bytes) ==
  [m EXCEPT !.data = @ \o bytes, !.datasize = DataRoom(@, Len(m.data) + Len(bytes)), !.argv = None]

(* A blob's bytes after its size, with a last word of zeros under them. *)
BlobData(h, v) ==
  Swap32(h \in Little, Word(Len(v))) \o v \o Zeros(Padded(4 + Len(v)) - 4 - Len(v))

(* How an argument lies in memory.  Of a char only the first byte is set,  *)
(* the other three are what the union held: v has all four, in place.  A   *)
(* MIDI message is as long as a pointer, four bytes on the hosts the       *)
(* program is built for, ppc and i386.                                     *)
ArgData(h, a) ==
  CASE a.t \in Strings -> CStr(a.v)
    [] a.t = LO_BLOB -> BlobData(h, a.v)
    [] a.t \in {LO_MIDI, LO_CHAR} -> a.v
    [] OTHER -> InMemory(h \in Little, a.t, a.v)

Added(h, m, a) ==
  AddTypechar(IF a.t \in NoData THEN m ELSE AddData(m, ArgData(h, a)), a.t)

Room(n) == FoldSet(LAMBDA h, sum : sum + Len(heap[h].types), n, Live) <= MaxArgs
Unlisted == bundle = None   \* a program changes messages before it bundles them

New(h) ==
  /\ heap[h] = None /\ Unlisted /\ Cardinality(Live) < MaxLive
  /\ heap' = [heap EXCEPT ![h] = NewMessage]
  /\ UNCHANGED bundle

(* lo_message_add_int32, ..., lo_message_add_infinitum *)
Add(h, a) ==
  /\ h \in Live /\ Room(1) /\ Unlisted
  /\ heap' = [heap EXCEPT ![h] = Added(h, @, a)]
  /\ UNCHANGED bundle

(* lo_message_add_varargs: an unknown type takes no argument and no room,  *)
(* and a symbol whose pointer is the mark behind the arguments ends it.    *)
(* What it returns when the marks are elsewhere is LoSend's, BadArguments. *)
LO_MARKER_A == <<-1>>   \* no bytes of a string

Taken(list, n) ==
  list[n].t \in Types /\ \A i \in 1..n : list[i] # [t |-> LO_SYMBOL, v |-> LO_MARKER_A]

AddedAll(h, m, list) ==
  LET all[n \in 0..Len(list)] ==
        IF n = 0 THEN m
        ELSE IF Taken(list, n) THEN Added(h, all[n - 1], list[n]) ELSE all[n - 1]
  IN all[Len(list)]

AddVarargs(h, list) ==
  /\ h \in Live /\ Room(Len(list)) /\ Unlisted
  /\ heap' = [heap EXCEPT ![h] = AddedAll(h, @, list)]
  /\ UNCHANGED bundle

-----------------------------------------------------------------------------
(* Reading. *)

HostOffsets(h, m) == Offsets(m.types, m.data, HostOrder(h \in Little))

Pointers(types, off) ==
  [i \in 1..Len(types) |-> IF off[i + 1] = off[i] THEN Nothing ELSE off[i]]

ArgvOf(h, m) == IF m.argv # None THEN m.argv ELSE Pointers(m.types, HostOffsets(h, m))

GetArgv(h) ==
  /\ h \in Live
  /\ heap' = [heap EXCEPT ![h].argv = ArgvOf(h, heap[h])]
  /\ UNCHANGED bundle

-----------------------------------------------------------------------------
(* To the network and back. *)

Length(m, path) == Padded(Len(path)) + Padded(Len(m.types) + 1) + Len(m.data)

SizesOnWire_swapped(h, m) == Offsets(m.types, m.data, HostOrder(h \notin Little))
(* lo_message_serialise without a buffer of the caller's, so that what     *)
(* strcpy leaves alone is zero.  The size of an argument is taken before   *)
(* it is swapped.                                                          *)
SizesOnWire(h, m) == HostOffsets(h, m)

Serialise(h, m, path) ==
  CStr(path) \o CStr(<<Comma>> \o m.types)
    \o Swap(h \in Little, m.types, m.data, SizesOnWire(h, m))

EndsWith_inside(off, types, data) == off[Len(types) + 1] \in 0..Len(data)
(* lo_message_deserialise at address h: a message, or None when any check  *)
(* fails.  The last one is that the arguments end where the data do.       *)
EndsWith(off, types, data) == off[Len(types) + 1] = Len(data)

Deserialise(h, b) ==
  LET pathLen == ValidString(b)
      rest == From(b, pathLen)
      typesLen == ValidString(rest)
      tags == SubSeq(rest, 1, StrLen(rest))
      types == Tail(tags)
      data == From(rest, typesLen)
      off == Offsets(types, data, Wire)
  IN  IF pathLen = -1 THEN None
      ELSE IF Len(rest) = 0 \/ typesLen = -1 THEN None
      ELSE IF tags = << >> \/ Head(tags) # Comma THEN None
      ELSE IF ~ EndsWith(off, types, data) THEN None
      ELSE [types |-> types, typesize |-> typesLen,
            data |-> Swap(h \in Little, types, data, off), datasize |-> Len(data),
            argv |-> IF types = << >> THEN None ELSE Pointers(types, off)]

(* What one program serialises another one, or the same, deserialises.     *)
Receive(from, to, path) ==
  /\ from \in Live /\ heap[to] = None /\ Unlisted /\ Cardinality(Live) < MaxLive
  /\ heap' = [heap EXCEPT ![to] = Deserialise(to, Serialise(from, heap[from], path))]
  /\ UNCHANGED bundle

Free(h) ==
  /\ h \in Live /\ Unlisted
  /\ heap' = [heap EXCEPT ![h] = None]
  /\ UNCHANGED bundle

-----------------------------------------------------------------------------
(* Bundles. *)

BundleNew ==
  /\ bundle = None /\ Room(1)
  /\ bundle' = [size |-> BundleSize, items |-> << >>]
  /\ UNCHANGED heap

BundleAdd(h, path) ==
  /\ bundle # None /\ h \in Live /\ Len(bundle.items) < MaxItems
  /\ \A i \in DOMAIN bundle.items : bundle.items[i].msg \in Little <=> h \in Little
  /\ bundle' = [size |-> IF Len(bundle.items) >= bundle.size THEN 2 * bundle.size ELSE bundle.size,
                items |-> Append(bundle.items, [path |-> path, msg |-> h])]
  /\ UNCHANGED heap

BundleLength_noSizes(items) ==
  LET length[n \in 0..Len(items)] ==
        IF n = 0 THEN 16 ELSE length[n - 1] + Length(heap[items[n].msg], items[n].path)
  IN length[Len(items)]
BundleLength(items) ==
  LET length[n \in 0..Len(items)] ==
        IF n = 0 THEN 16 ELSE length[n - 1] + 4 + Length(heap[items[n].msg], items[n].path)
  IN length[Len(items)]

Now == <<0, 0, 0, 1, 0, 0, 0, 2>>   \* the time of a bundle, second and fraction

(* A message, behind its size. *)
Element(item) ==
  LET b == Serialise(item.msg, heap[item.msg], item.path) IN Word(Len(b)) \o b

(* lo_bundle_serialise: None when the sizes do not add up. *)
BundleSerialise(items) ==
  LET bytes[n \in 0..Len(items)] ==
        IF n = 0 THEN CStr(Bundle) \o Now ELSE bytes[n - 1] \o Element(items[n])
  IN  IF Len(bytes[Len(items)]) = BundleLength(items) THEN bytes[Len(items)] ELSE None

BundleFree ==
  /\ bundle # None
  /\ bundle' = None
  /\ UNCHANGED heap

(* What qsort leaves of a list of addresses. *)
Arranges(p, s) ==
  /\ \A i \in DOMAIN s : \E j \in DOMAIN s : p[j] = i
  /\ \A i, j \in DOMAIN s : i < j => s[p[i]] <= s[p[j]]

Sorted(s) ==
  LET p == CHOOSE p \in [DOMAIN s -> DOMAIN s] : Arranges(p, s) IN [i \in DOMAIN s |-> s[p[i]]]

Listed_sortsLate(items) ==
  LET msgs == [i \in DOMAIN items |-> items[i].msg] IN
  IF Len(msgs) > 3 THEN Sorted(msgs) ELSE msgs
(* lo_bundle_free_messages: sorted by address, so that one freed already   *)
(* is the one just freed.                                                  *)
Listed(items) ==
  LET msgs == [i \in DOMAIN items |-> items[i].msg] IN
  IF Len(msgs) > 2 THEN Sorted(msgs) ELSE msgs

Frees(items) ==
  LET msgs == Listed(items) IN
  {i \in DOMAIN msgs : i = 1 \/ msgs[i] # msgs[i - 1]}

BundleFreeMessages ==
  /\ bundle # None
  /\ LET msgs == Listed(bundle.items) IN
     heap' = [h \in Handles |-> IF \E i \in Frees(bundle.items) : msgs[i] = h THEN None ELSE heap[h]]
  /\ bundle' = None

-----------------------------------------------------------------------------
Next ==
  \/ \E h \in Handles :
       \/ New(h) \/ GetArgv(h) \/ Free(h)
       \/ \E a \in Arguments : Add(h, a)
       \/ \E list \in Varargs : AddVarargs(h, list)
  \/ \E from, to \in Handles, path \in Paths : Receive(from, to, path)
  \/ BundleNew \/ BundleFree \/ BundleFreeMessages
  \/ \E h \in Handles, path \in Paths : BundleAdd(h, path)

Spec == Init /\ [][Next]_vars

-----------------------------------------------------------------------------
(* The characters, arguments and pointers of every message lie inside its  *)
(* blocks, which were allocated here or by lo_message_deserialise, and the *)
(* messages of a bundle inside its arrays.                                 *)
TypeOK ==
  /\ \A h \in Live :
       /\ Len(heap[h].types) + 2 <= heap[h].typesize
       /\ Len(heap[h].data) <= heap[h].datasize
       /\ heap[h].argv # None => \A i \in DOMAIN heap[h].argv : heap[h].argv[i] < Len(heap[h].data)
  /\ bundle # None => Len(bundle.items) <= bundle.size

(* A program that keeps a message and goes on adding to it reads, whenever *)
(* it asks for argv, one entry for every argument, where that argument is: *)
(* the argv kept from an earlier call never outlives what it described.    *)
ArgvCurrent ==
  \A h \in Live :
    ArgvOf(h, heap[h]) = Pointers(heap[h].types, HostOffsets(h, heap[h]))

(* A message cut short anywhere, as by a partial read of a TCP stream, or  *)
(* followed by other bytes, is refused; whole it is accepted.              *)
OnlyWholeAccepted ==
  Unlisted => \A h \in Live, path \in Paths :
    LET b == Serialise(h, heap[h], path) IN
    /\ Deserialise(h, b) # None
    /\ \A n \in 0..Len(b) - 1 : Deserialise(h, SubSeq(b, 1, n)) = None
    /\ Deserialise(h, b \o Zeros(4)) = None

(* Whatever byte of a message is changed on the way, if it is accepted the *)
(* arguments end with the data also for those who trust them: what         *)
(* lo_arg_size says in host order is what was validated in network order.  *)
DamageStaysInside ==
  Unlisted => \A h \in Live, path \in Paths :
    LET b == Serialise(h, heap[h], path) IN
    \A j \in 1..Len(b), x \in Flaws :
      LET m == Deserialise(h, [b EXCEPT ![j] = x]) IN
      m # None => /\ HostOffsets(h, m)[Len(m.types) + 1] = Len(m.data)
                  /\ m.argv # None => m.argv = Pointers(m.types, HostOffsets(h, m))

(* A bundle serialises, a receiver finds it valid, and its elements are    *)
(* the messages that were added, in order, as they are when it is sent.    *)
BundleArrives ==
  bundle # None =>
    LET items == bundle.items  b == BundleSerialise(items) IN
    /\ b # None /\ ValidBundle(b)
    /\ \A i \in DOMAIN items :
         LET at == ElementAt(b)[i - 1]
             m == Deserialise(items[i].msg, SubSeq(b, at + 5, ElementAt(b)[i]))
         IN  m # None /\ m.types = heap[items[i].msg].types /\ m.data = heap[items[i].msg].data

(* lo_bundle_free_messages frees each message once, also one that was      *)
(* added to the bundle several times with others between.                  *)
FreedOnce ==
  bundle # None =>
    LET msgs == Listed(bundle.items) IN
    \A i \in DOMAIN bundle.items :
      \E f \in Frees(bundle.items) :
        /\ msgs[f] = bundle.items[i].msg
        /\ \A g \in Frees(bundle.items) : msgs[g] = msgs[f] => g = f

(* The value of an argument as its reader sees it.  Between hosts of        *)
(* different byte order the code changes some: the words of a number of 64  *)
(* bits are exchanged, the byte of a char is at the other end of its word.  *)
Portable(a) ==
  [t |-> a.t,
   v |-> CASE a.t \in {LO_INT64, LO_DOUBLE} -> {SubSeq(a.v, 1, 4), SubSeq(a.v, 5, 8)}
           [] a.t = LO_CHAR -> {a.v, Reversed(a.v)}
           [] OTHER -> a.v]

Value(h, t, b) ==
  CASE t \in NoData -> << >>
    [] t \in Strings -> SubSeq(b, 1, StrLen(b))
    [] t = LO_BLOB -> SubSeq(b, 5, 4 + BigEndian(Swap32(h \in Little, SubSeq(b, 1, 4))))
    [] t \in {LO_MIDI, LO_CHAR} -> SubSeq(b, 1, 4)
    [] OTHER -> InMemory(h \in Little, t, SubSeq(b, 1, ArgSize(h \in Little, t, b)))

Reads(h, m) ==
  LET off == HostOffsets(h, m) IN
  [i \in DOMAIN m.types |->
     Portable([t |-> m.types[i], v |-> Value(h, m.types[i], From(m.data, off[i]))])]

Sent ==
  {Portable(a) : a \in Arguments} \cup
    UNION {{Portable(list[i]) : i \in {i \in 1..Len(list) : Taken(list, i)}} : list \in Varargs}

Contents == [h \in Handles |-> IF heap[h] = None THEN None ELSE Reads(h, heap[h])]

A == INSTANCE OscArgs WITH Arguments <- Sent, NoArgs <- None, args <- Contents

(* Adding, reading, sending from either kind of host to the other and      *)
(* freeing, messages are what lo_lowlevel.h promises: the list of the      *)
(* typed values that were added, unchanged when they arrive (as far as     *)
(* Portable says).                                                         *)
ImplementsArgs == A!ArgLists
============================================================================
