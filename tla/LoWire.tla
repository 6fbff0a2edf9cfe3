------------------------------- MODULE LoWire -------------------------------
(***************************************************************************)
(* OSC data as liblo lays it out, byte by byte: the sizes of message.c and *)
(* blob.c, its validation of what arrives, and the change of byte order    *)
(* between a host and the network.  A buffer is a sequence of bytes; hosts *)
(* are little-endian (i386) or big-endian (ppc).                           *)
(***************************************************************************)
EXTENDS Integers, Sequences

CONSTANT LO_MAX_MSG_SIZE   \* the longest blob lo_validate_blob takes

ASSUME WireAssumption == LO_MAX_MSG_SIZE \in Nat

(* lo_type: the characters of a type string. *)
LO_INT32 == 105
LO_FLOAT == 102
LO_STRING == 115
LO_BLOB == 98
LO_INT64 == 104
LO_TIMETAG == 116
LO_DOUBLE == 100
LO_SYMBOL == 83
LO_CHAR == 99
LO_MIDI == 109
LO_TRUE == 84
LO_FALSE == 70
LO_NIL == 78
LO_INFINITUM == 73
Comma == 44

Strings == {LO_STRING, LO_SYMBOL}
NoData == {LO_TRUE, LO_FALSE, LO_NIL, LO_INFINITUM}
FourBytes == {LO_INT32, LO_FLOAT, LO_MIDI, LO_CHAR}
EightBytes == {LO_INT64, LO_TIMETAG, LO_DOUBLE}

Types == Strings \cup NoData \cup FourBytes \cup EightBytes \cup {LO_BLOB}

From(b, i) == SubSeq(b, i + 1, Len(b))   \* the buffer from offset i on
Zeros(n) == [i \in 1..n |-> 0]
Reversed(b) == [i \in 1..Len(b) |-> b[Len(b) + 1 - i]]

(* lo_swap32 is htonl, which does nothing on a big-endian host; lo_swap64   *)
(* exchanges the words there as well, so that it sends numbers of 64 bits   *)
(* in an order of its own.                                                  *)
Swap32(little, b) == IF little THEN Reversed(b) ELSE b
Swap64(little, b) == Swap32(little, SubSeq(b, 5, 8)) \o Swap32(little, SubSeq(b, 1, 4))

(* How a value lies in memory: a number in the host's order, a time tag as  *)
(* two of them.  v is in big-endian order; the same again gives v back.     *)
InMemory(little, t, v) ==
  IF ~ little THEN v
  ELSE IF t = LO_TIMETAG THEN Reversed(SubSeq(v, 1, 4)) \o Reversed(SubSeq(v, 5, 8))
  ELSE Reversed(v)

(* The next multiple of four beyond n. *)
Padded(n) == 4 * (n \div 4 + 1)

(* The offset of the first NUL, the length of the buffer if there is none. *)
StrLen(b) ==
  CHOOSE n \in 0..Len(b) : /\ \A i \in 1..n : b[i] # 0
                           /\ n < Len(b) => b[n + 1] = 0

CStr(s) == s \o Zeros(Padded(Len(s)) - Len(s))

BigEndian(b) == ((b[1] * 256 + b[2]) * 256 + b[3]) * 256 + b[4]
Word(n) == <<0, 0, n \div 256, n % 256>>   \* big-endian, for the sizes of blobs and elements

(* The size of a blob is its first word, in the host's order. *)
BlobSize(little, b) == Padded(4 + BigEndian(Swap32(little, SubSeq(b, 1, 4))))

(* Of a well-formed argument at the head of b, in host order. *)
ArgSize(little, t, b) ==
  CASE t \in FourBytes -> 4
    [] t \in EightBytes -> 8
    [] t \in Strings -> Padded(StrLen(b))
    [] t = LO_BLOB -> BlobSize(little, b)
    [] OTHER -> 0

-----------------------------------------------------------------------------
(* Validation.  Every failure is -1: callers look at the sign only. *)

ValidString_noRoom(b) ==
  LET n == StrLen(b) IN
  IF n < Len(b) /\ (\A i \in n + 1..Len(b) : i <= Padded(n) => b[i] = 0) THEN Padded(n) ELSE -1

ValidString(b) ==
  LET n == StrLen(b)  size == Padded(n) IN
  IF n < Len(b) /\ size <= Len(b) /\ (\A i \in n + 1..size : b[i] = 0) THEN size ELSE -1

(* With fewer than four bytes the code reads on past the buffer; whatever  *)
(* is there, the blob does not fit.                                        *)
ValidBlob(b) ==
  IF Len(b) < 4 THEN -1
  ELSE LET data == BigEndian(SubSeq(b, 1, 4))  size == Padded(4 + data) IN
       IF /\ data <= LO_MAX_MSG_SIZE /\ size <= Len(b)
          /\ \A i \in 4 + data + 1..size : b[i] = 0
       THEN size ELSE -1

ValidArg(t, b) ==
  CASE t \in NoData -> 0
    [] t \in FourBytes -> IF Len(b) >= 4 THEN 4 ELSE -1
    [] t \in EightBytes -> IF Len(b) >= 8 THEN 8 ELSE -1
    [] t \in Strings -> ValidString(b)
    [] t = LO_BLOB -> ValidBlob(b)
    [] OTHER -> -1

Bundle == <<35, 98, 117, 110, 100, 108, 101>>   \* "#bundle"

(* The offsets of the elements of a bundle, up to one that is cut short. *)
ElementEnd(b, at) == IF at + 4 > Len(b) THEN -1 ELSE at + 4 + BigEndian(SubSeq(b, at + 1, at + 4))

ElementAt(b) ==
  LET at[i \in 0..Len(b) \div 4] ==
        IF i = 0 THEN 16
        ELSE IF at[i - 1] \in {-1, Len(b)} THEN -1
        ELSE LET end == ElementEnd(b, at[i - 1]) IN IF end > Len(b) THEN -1 ELSE end
  IN at

ValidBundle(b) ==
  /\ ValidString(b) >= 0 /\ SubSeq(b, 1, StrLen(b)) = Bundle
  /\ Len(b) >= 16
  /\ \E i \in DOMAIN ElementAt(b) : ElementAt(b)[i] = Len(b)

-----------------------------------------------------------------------------
(* The size of the argument at the head of b: of one in memory, or of one  *)
(* that came from the wire and may be refused, -1.                         *)
Wire == "wire"
HostOrder(little) == IF little THEN "little" ELSE "big"
SizeIn(order, t, b) ==
  IF order = Wire THEN ValidArg(t, b) ELSE ArgSize(order = "little", t, b)

(* A run of arguments.  Offsets[i] is where argument i begins, and the last*)
(* entry where the run ends, -1 from one that is refused on.               *)
Offsets(types, data, order) ==
  LET off[i \in 1..Len(types) + 1] ==
        IF i = 1 THEN 0
        ELSE IF off[i - 1] = -1 THEN -1
        ELSE LET s == SizeIn(order, types[i - 1], From(data, off[i - 1]))
             IN  IF s = -1 THEN -1 ELSE off[i - 1] + s
  IN off

Swapped_noBlob(t) ==
  CASE t \in {LO_INT32, LO_FLOAT, LO_CHAR} -> 4
    [] t \in EightBytes -> 8
    [] OTHER -> 0
(* lo_arg_host_endian and lo_arg_network_endian: how much of an argument is*)
(* swapped.                                                                *)
Swapped(t) ==
  CASE t \in {LO_INT32, LO_FLOAT, LO_BLOB, LO_CHAR} -> 4
    [] t \in EightBytes -> 8
    [] OTHER -> 0

Swap(little, types, data, off) ==
  [j \in 1..Len(data) |->
     LET At == {i \in 1..Len(types) : off[i] < j /\ j <= off[i] + Swapped(types[i])} IN
     IF At = {} THEN data[j]
     ELSE LET i == CHOOSE i \in At : TRUE
              b == SubSeq(data, off[i] + 1, off[i] + Swapped(types[i]))
          IN  (IF Len(b) = 4 THEN Swap32(little, b) ELSE Swap64(little, b))[j - off[i]]]
=============================================================================
