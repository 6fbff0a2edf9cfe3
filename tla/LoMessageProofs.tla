--------------------------- MODULE LoMessageProofs ---------------------------
(***************************************************************************)
(* What holds of liblo's messages for any arguments, paths and bytes: all  *)
(* that is read or written lies inside the blocks, argv is never stale,    *)
(* what arrives damaged and is taken is still a message, a message is      *)
(* taken whole or not at all, a bundle arrives as its messages and frees   *)
(* each once, and messages implement the lists of values of OscArgs.       *)
(*                                                                         *)
(* Everything rests on runs of arguments (Run): where each one lies in a   *)
(* buffer, in the order of a host or of the network.  A run that was       *)
(* validated stays one when it is swapped, copied, or added to.            *)
(***************************************************************************)
EXTENDS LoMessage, LeastNumber, SequenceTheorems, TLAPS

-----------------------------------------------------------------------------
(* Buffers and sizes. *)

\* c is b from offset i on
Rest(c, b, i) ==
  /\ c \in Seq(Nat) /\ Len(c) \in Nat /\ Len(b) \in Nat /\ Len(b) = i + Len(c)
  /\ \A k \in 1..Len(c) : c[k] = b[i + k] /\ c[k] \in Nat

(* What lies behind an offset is the rest of the buffer. *)
LEMMA FromIs ==
  ASSUME NEW b \in Seq(Nat), NEW i \in 0..Len(b)
  PROVE  Rest(From(b, i), b, i)
<1> DEFINE c == SubSeq(b, i + 1, Len(b))
<1>1. Len(b) \in Nat /\ i \in Nat /\ i <= Len(b)
  OBVIOUS
<1>2. c \in Seq(Nat) /\ Len(c) = Len(b) - i /\ \A k \in 1..Len(b) - i : c[k] = b[i + k]
  OBVIOUS
<1> HIDE DEF c
<1>3. Len(c) \in Nat /\ Len(b) = i + Len(c) /\ \A k \in 1..Len(c) : c[k] \in Nat
  BY <1>1, <1>2
<1>4. Rest(c, b, i)
  BY <1>1, <1>2, <1>3 DEF Rest
<1>5. QED
  BY <1>4 DEF c, From

(* The size of a string in a message is beyond its length, so that there   *)
(* is room for its NUL.                                                    *)
LEMMA PaddedIs ==
  ASSUME NEW n \in Nat
  PROVE  Padded(n) \in Nat /\ n < Padded(n) /\ Padded(n) <= n + 4
  BY DEF Padded

\* n is where the string at the head of b ends
Ends(b, n) == (\A i \in 1..n : b[i] # 0) /\ (n < Len(b) => b[n + 1] = 0)

(* strlen ends at a NUL or with the buffer, at the first place where it    *)
(* may.                                                                    *)
LEMMA StrLenIs ==
  ASSUME NEW b \in Seq(Nat)
  PROVE  StrLen(b) \in 0..Len(b) /\ Ends(b, StrLen(b))
<1> DEFINE T == {n \in 0..Len(b) : n < Len(b) => b[n + 1] = 0}
<1>1. Len(b) \in T /\ T \subseteq Nat
  OBVIOUS
<1> HIDE DEF T
<1>2. PICK n \in T : \A m \in T : n <= m
  BY <1>1, LeastElement
<1>3. n \in 0..Len(b) /\ (n < Len(b) => b[n + 1] = 0) /\ Len(b) \in Nat
  BY <1>2 DEF T
<1>4. ASSUME NEW i \in 1..n PROVE b[i] # 0
  <2>1. i - 1 \in 0..Len(b) /\ i - 1 < n /\ i - 1 + 1 = i
    BY <1>3
  <2>2. i - 1 \notin T
    BY <1>2, <1>3, <2>1
  <2>3. QED
    BY <2>1, <2>2 DEF T
<1>5. \E m \in 0..Len(b) : (\A i \in 1..m : b[i] # 0) /\ (m < Len(b) => b[m + 1] = 0)
  BY <1>3, <1>4
<1>6. QED
  BY <1>5 DEF StrLen, Ends

(* And that place is the only one. *)
LEMMA StrLenIsOnly ==
  ASSUME NEW b \in Seq(Nat), NEW n \in 0..Len(b), Ends(b, n)
  PROVE  StrLen(b) = n
<1>1. StrLen(b) \in 0..Len(b) /\ Ends(b, StrLen(b)) /\ Len(b) \in Nat
  BY StrLenIs
<1> DEFINE m == StrLen(b)
<1> HIDE DEF m
<1>2. m \in 0..Len(b) /\ Ends(b, m)
  BY <1>1 DEF m
<1>3. ~ (m < n)
  <2>1. SUFFICES ASSUME m < n PROVE FALSE
    OBVIOUS
  <2>2. m + 1 \in 1..n /\ m < Len(b)
    BY <1>1, <1>2, <2>1
  <2>3. QED
    BY <1>2, <2>2 DEF Ends
<1>4. ~ (n < m)
  <2>1. SUFFICES ASSUME n < m PROVE FALSE
    OBVIOUS
  <2>2. n + 1 \in 1..m /\ n < Len(b)
    BY <1>1, <1>2, <2>1
  <2>3. QED
    BY <1>2, <2>2 DEF Ends
<1>5. QED
  BY <1>1, <1>2, <1>3, <1>4 DEF m

(* The kinds of types are apart, so that a size is decided by one of       *)
(* them.                                                                   *)
LEMMA Kinds ==
  ASSUME NEW t
  PROVE  /\ t \in NoData => t \notin FourBytes \cup EightBytes \cup Strings \cup {LO_BLOB}
         /\ t \in FourBytes => t \notin NoData \cup EightBytes \cup Strings \cup {LO_BLOB}
         /\ t \in EightBytes => t \notin NoData \cup FourBytes \cup Strings \cup {LO_BLOB}
         /\ t \in Strings => t \notin NoData \cup FourBytes \cup EightBytes \cup {LO_BLOB}
         /\ LO_BLOB \notin NoData \cup FourBytes \cup EightBytes \cup Strings
  BY DEF NoData, FourBytes, EightBytes, Strings, LO_INT32, LO_FLOAT, LO_STRING, LO_BLOB, LO_INT64,
         LO_TIMETAG, LO_DOUBLE, LO_SYMBOL, LO_CHAR, LO_MIDI, LO_TRUE, LO_FALSE, LO_NIL,
         LO_INFINITUM

(* lo_arg_size, kind by kind. *)
LEMMA ArgSizeIs ==
  ASSUME NEW t \in Types, NEW little, NEW b
  PROVE  /\ t \in NoData => ArgSize(little, t, b) = 0
         /\ t \in FourBytes => ArgSize(little, t, b) = 4
         /\ t \in EightBytes => ArgSize(little, t, b) = 8
         /\ t \in Strings => ArgSize(little, t, b) = Padded(StrLen(b))
         /\ t = LO_BLOB => ArgSize(little, t, b) = BlobSize(little, b)
<1>1. t \in NoData \cup FourBytes \cup EightBytes \cup Strings \cup {LO_BLOB}
  BY DEF Types
<1>2. QED
  BY <1>1, Kinds DEF ArgSize

(* lo_validate_arg, kind by kind. *)
LEMMA ValidArgIs ==
  ASSUME NEW t, NEW b
  PROVE  /\ t \in NoData => ValidArg(t, b) = 0
         /\ t \in FourBytes => ValidArg(t, b) = IF Len(b) >= 4 THEN 4 ELSE -1
         /\ t \in EightBytes => ValidArg(t, b) = IF Len(b) >= 8 THEN 8 ELSE -1
         /\ t \in Strings => ValidArg(t, b) = ValidString(b)
         /\ t = LO_BLOB => ValidArg(t, b) = ValidBlob(b)
         /\ t \notin Types => ValidArg(t, b) = -1
  BY Kinds DEF ValidArg, Types

-----------------------------------------------------------------------------
(* Arguments in a buffer, in memory and on the wire. *)

\* the orders a buffer may be in
Orders == {Wire, "little", "big"}

\* the word at offset i of b
BigEndianAt(b, i) == ((b[i + 1] * 256 + b[i + 2]) * 256 + b[i + 3]) * 256 + b[i + 4]
LittleEndianAt(b, i) == ((b[i + 4] * 256 + b[i + 3]) * 256 + b[i + 2]) * 256 + b[i + 1]
WordAt(order, b, i) == IF order = "little" THEN LittleEndianAt(b, i) ELSE BigEndianAt(b, i)

\* n characters at offset i, and zeros from there on up to s bytes
NoNul(b, i, n) == \A k \in 1..n : b[i + k] # 0
Nuls(b, i, n, s) == \A k \in n + 1..s : b[i + k] = 0

\* a string, a blob, with their padding
StringAt(b, i, s) ==
  \E n \in Nat : s = Padded(n) /\ NoNul(b, i, n) /\ Nuls(b, i, n, s)

BlobAt(order, b, i, s) ==
  /\ s >= 4
  /\ WordAt(order, b, i) \in Nat
  /\ order = Wire => WordAt(order, b, i) <= LO_MAX_MSG_SIZE
  /\ s = Padded(4 + WordAt(order, b, i))
  /\ Nuls(b, i, 4 + WordAt(order, b, i), s)

\* an argument of type t lies at offset i of b and takes s bytes
Holds(order, t, b, i, s) ==
  /\ t \in Types
  /\ s \in Nat /\ i + s <= Len(b)
  /\ t \in NoData => s = 0
  /\ t \in FourBytes => s = 4
  /\ t \in EightBytes => s = 8
  /\ t \in Strings => StringAt(b, i, s)
  /\ t = LO_BLOB => BlobAt(order, b, i, s)

(* A size is read from the first four bytes, in the order of its reader. *)
LEMMA WordIs ==
  ASSUME NEW b \in Seq(Nat), Len(b) >= 4, NEW little \in BOOLEAN
  PROVE  /\ BigEndian(SubSeq(b, 1, 4)) = BigEndianAt(b, 0)
         /\ BigEndian(Swap32(little, SubSeq(b, 1, 4))) = WordAt(HostOrder(little), b, 0)
<1> DEFINE w == SubSeq(b, 1, 4)
<1>1. w \in Seq(Nat) /\ Len(w) = 4 /\ \A k \in 1..4 : w[k] = b[k]
  OBVIOUS
<1> HIDE DEF w
<1>2. w[1] = b[1] /\ w[2] = b[2] /\ w[3] = b[3] /\ w[4] = b[4]
  BY <1>1
<1>3. BigEndian(w) = BigEndianAt(b, 0)
  BY <1>2 DEF BigEndian, BigEndianAt
<1>4. Reversed(w)[1] = w[4] /\ Reversed(w)[2] = w[3] /\ Reversed(w)[3] = w[2]
      /\ Reversed(w)[4] = w[1]
  BY <1>1 DEF Reversed
<1>5. BigEndian(Reversed(w)) = LittleEndianAt(b, 0)
  BY <1>2, <1>4 DEF BigEndian, LittleEndianAt
<1>6. BigEndian(Swap32(little, w)) = WordAt(HostOrder(little), b, 0)
  BY <1>3, <1>5 DEF Swap32, WordAt, HostOrder
<1>7. QED
  BY <1>3, <1>6 DEF w

\* c has, from its start, what b has from offset i on
Same(c, b, i, s) == \A k \in 1..s : c[k] = b[i + k]

(* What agrees over some bytes agrees over fewer. *)
LEMMA SameBelow ==
  ASSUME NEW b, NEW c, NEW i \in Nat, Rest(c, b, i), NEW s \in Nat, s <= Len(c)
  PROVE  Same(c, b, i, s)
  BY DEF Same, Rest

(* A string that was moved is a string. *)
LEMMA SameString ==
  ASSUME NEW b, NEW c, NEW i \in Nat, NEW n \in Nat, NEW s \in Nat, n < s, Same(c, b, i, s)
  PROVE  (NoNul(c, 0, n) <=> NoNul(b, i, n)) /\ (Nuls(c, 0, n, s) <=> Nuls(b, i, n, s))
<1>1. \A k \in 1..n : k \in 1..s /\ 0 + k = k
  OBVIOUS
<1>2. \A k \in n + 1..s : k \in 1..s /\ 0 + k = k
  OBVIOUS
<1>3. QED
  BY <1>1, <1>2 DEF Same, NoNul, Nuls

(* The head of what lies behind an offset is what lies at it. *)
LEMMA AtHead ==
  ASSUME NEW c, NEW n \in Nat, NEW s \in Nat
  PROVE  /\ NoNul(c, 0, n) <=> \A k \in 1..n : c[k] # 0
         /\ Nuls(c, 0, n, s) <=> \A k \in n + 1..s : c[k] = 0
<1>1. \A k \in 1..n : 0 + k = k
  OBVIOUS
<1>2. \A k \in n + 1..s : 0 + k = k
  OBVIOUS
<1>3. QED
  BY <1>1, <1>2 DEF NoNul, Nuls

(* A word that was moved is the same word. *)
LEMMA WordMoves ==
  ASSUME NEW b, NEW c, NEW i \in Nat, NEW j \in Nat, NEW order,
         c[j + 1] = b[i + 1], c[j + 2] = b[i + 2], c[j + 3] = b[i + 3], c[j + 4] = b[i + 4]
  PROVE  WordAt(order, c, j) = WordAt(order, b, i)
  BY DEF WordAt, BigEndianAt, LittleEndianAt

(* A word is a number. *)
LEMMA WordIsNat ==
  ASSUME NEW b, NEW i \in Nat, NEW order,
         b[i + 1] \in Nat, b[i + 2] \in Nat, b[i + 3] \in Nat, b[i + 4] \in Nat
  PROVE  WordAt(order, b, i) \in Nat
  BY DEF WordAt, BigEndianAt, LittleEndianAt

(* The word at the head of what lies behind an offset is the one at it. *)
LEMMA WordAtHead ==
  ASSUME NEW b, NEW c, NEW i \in Nat, Rest(c, b, i), Len(c) >= 4, NEW order
  PROVE  WordAt(order, c, 0) = WordAt(order, b, i) /\ WordAt(order, b, i) \in Nat
<1>1. \A k \in 1..Len(c) : c[k] = b[i + k] /\ b[i + k] \in Nat
  BY DEF Rest
<1>2. /\ c[1] = b[i + 1] /\ c[2] = b[i + 2] /\ c[3] = b[i + 3] /\ c[4] = b[i + 4]
      /\ b[i + 1] \in Nat /\ b[i + 2] \in Nat /\ b[i + 3] \in Nat /\ b[i + 4] \in Nat
  <2>1. 1 \in 1..Len(c) /\ 2 \in 1..Len(c) /\ 3 \in 1..Len(c) /\ 4 \in 1..Len(c)
    BY DEF Rest
  <2>2. QED
    BY <1>1, <2>1
<1>3. c[0 + 1] = b[i + 1] /\ c[0 + 2] = b[i + 2] /\ c[0 + 3] = b[i + 3] /\ c[0 + 4] = b[i + 4]
  BY <1>2
<1>4. QED
  BY <1>2, <1>3, WordMoves, WordIsNat

(* Of a string at an offset strlen finds the NUL, and lo_validate_string   *)
(* the size.                                                               *)
LEMMA StringLength ==
  ASSUME NEW b \in Seq(Nat), NEW i \in 0..Len(b), NEW s \in Nat, i + s <= Len(b),
         StringAt(b, i, s)
  PROVE  /\ Padded(StrLen(From(b, i))) = s
         /\ ValidString(From(b, i)) = s
<1> DEFINE c == From(b, i)
<1>1. Rest(c, b, i) /\ i \in Nat
  BY FromIs
<1>2. PICK n \in Nat : s = Padded(n) /\ NoNul(b, i, n) /\ Nuls(b, i, n, s)
  BY DEF StringAt
<1>3. n < s
  BY <1>2, PaddedIs
<1> HIDE DEF c
<1>4. c \in Seq(Nat) /\ Len(c) \in Nat /\ s <= Len(c) /\ n < Len(c)
  BY <1>1, <1>3 DEF Rest
<1>5. NoNul(c, 0, n) /\ Nuls(c, 0, n, s)
  BY <1>1, <1>2, <1>3, <1>4, SameBelow, SameString
<1>6. (\A k \in 1..n : c[k] # 0) /\ (\A k \in n + 1..s : c[k] = 0)
  BY <1>5, AtHead
<1>7. Ends(c, n)
  BY <1>3, <1>4, <1>6 DEF Ends
<1>8. StrLen(c) = n
  BY <1>4, <1>7, StrLenIsOnly
<1>9. ValidString(c) = s
  BY <1>2, <1>4, <1>6, <1>8 DEF ValidString
<1>10. QED
  BY <1>2, <1>8, <1>9 DEF c

(* What lo_validate_string takes is a string of that size. *)
LEMMA ValidStringAt ==
  ASSUME NEW b \in Seq(Nat), NEW i \in 0..Len(b), ValidString(From(b, i)) # -1
  PROVE  /\ ValidString(From(b, i)) \in Nat /\ i + ValidString(From(b, i)) <= Len(b)
         /\ StringAt(b, i, ValidString(From(b, i)))
<1> DEFINE c == From(b, i)
           n == StrLen(c)
           s == ValidString(c)
<1>1. Rest(c, b, i) /\ i \in Nat
  BY FromIs
<1>2. s # -1 /\ c \in Seq(Nat)
  BY <1>1 DEF Rest
<1>3. n \in 0..Len(c) /\ Ends(c, n)
  BY <1>2, StrLenIs
<1>4. /\ s = Padded(n) /\ n < Len(c) /\ s <= Len(c)
      /\ \A k \in n + 1..s : c[k] = 0
  BY <1>2 DEF ValidString
<1> HIDE DEF c, n, s
<1>5. n \in Nat /\ s \in Nat /\ n < s
  BY <1>1, <1>3, <1>4, PaddedIs DEF Rest
<1>6. \A k \in 1..n : c[k] # 0
  BY <1>3 DEF Ends
<1>7. NoNul(c, 0, n) /\ Nuls(c, 0, n, s)
  BY <1>4, <1>5, <1>6, AtHead
<1>8. NoNul(b, i, n) /\ Nuls(b, i, n, s)
  BY <1>1, <1>4, <1>5, <1>7, SameBelow, SameString
<1>9. StringAt(b, i, s)
  BY <1>4, <1>5, <1>8 DEF StringAt
<1>10. i + s <= Len(b)
  BY <1>1, <1>4, <1>5 DEF Rest
<1>11. QED
  BY <1>5, <1>9, <1>10 DEF s, c

(* Of a blob at an offset lo_blobsize is its size, and lo_validate_blob's  *)
(* too.                                                                    *)
LEMMA BlobLength ==
  ASSUME NEW b \in Seq(Nat), NEW i \in 0..Len(b), NEW s \in Nat, i + s <= Len(b),
         NEW order \in Orders, BlobAt(order, b, i, s)
  PROVE  /\ order # Wire => BlobSize(order = "little", From(b, i)) = s
         /\ order = Wire => ValidBlob(From(b, i)) = s
<1> DEFINE c == From(b, i)
           d == WordAt(order, b, i)
<1>1. Rest(c, b, i) /\ i \in Nat
  BY FromIs
<1>2. /\ s >= 4 /\ d \in Nat /\ (order = Wire => d <= LO_MAX_MSG_SIZE) /\ s = Padded(4 + d)
      /\ Nuls(b, i, 4 + d, s)
  BY DEF BlobAt
<1> HIDE DEF c, d
<1>3. c \in Seq(Nat) /\ Len(c) \in Nat /\ Len(c) >= 4 /\ s <= Len(c)
  <2>1. s >= 4
    BY <1>2
  <2>2. QED
    BY <1>1, <2>1 DEF Rest
<1>4. WordAt(order, c, 0) = d
  BY <1>1, <1>3, WordAtHead DEF d
<1>5. d \in Nat /\ 4 + d \in Nat /\ 4 + d < s
  <2>1. d \in Nat
    BY <1>2
  <2>2. 4 + d \in Nat
    BY <2>1
  <2>3. QED
    BY <1>2, <2>1, <2>2, PaddedIs
<1>6. ASSUME order # Wire PROVE BlobSize(order = "little", c) = s
  <2>1. order = HostOrder(order = "little")
    BY <1>6 DEF Orders, HostOrder
  <2>2. BigEndian(Swap32(order = "little", SubSeq(c, 1, 4))) = d
    BY <1>3, <1>4, <2>1, WordIs
  <2>3. QED
    BY <1>2, <2>2 DEF BlobSize
<1>7. ASSUME order = Wire PROVE ValidBlob(c) = s
  <2>1. BigEndian(SubSeq(c, 1, 4)) = d
    <3>1. BigEndian(SubSeq(c, 1, 4)) = BigEndianAt(c, 0)
      BY <1>3, WordIs
    <3>2. QED
      BY <1>4, <1>7, <3>1 DEF WordAt, Wire
  <2>2. Nuls(c, 0, 4 + d, s)
    BY <1>1, <1>2, <1>3, <1>5, SameBelow, SameString
  <2>3. \A k \in 4 + d + 1..s : c[k] = 0
    BY <1>5, <2>2, AtHead
  <2> DEFINE e == BigEndian(SubSeq(c, 1, 4))
  <2>4. ValidBlob(c) =
          IF Len(c) < 4 THEN -1
          ELSE IF /\ e <= LO_MAX_MSG_SIZE /\ Padded(4 + e) <= Len(c)
                  /\ \A k \in 4 + e + 1..Padded(4 + e) : c[k] = 0
               THEN Padded(4 + e) ELSE -1
    BY DEF ValidBlob
  <2> HIDE DEF e
  <2>5. e = d /\ ~ (Len(c) < 4) /\ Padded(4 + e) = s
    BY <1>2, <1>3, <2>1 DEF e
  <2>6. \A k \in 4 + e + 1..Padded(4 + e) : c[k] = 0
    BY <2>3, <2>5
  <2>7. QED
    BY <1>2, <1>3, <1>5, <1>7, <2>4, <2>5, <2>6
<1>8. QED
  BY <1>6, <1>7 DEF c

(* What lo_validate_blob takes is a blob of that size, no longer than may  *)
(* be received.                                                            *)
LEMMA ValidBlobAt ==
  ASSUME NEW b \in Seq(Nat), NEW i \in 0..Len(b), ValidBlob(From(b, i)) # -1
  PROVE  /\ ValidBlob(From(b, i)) \in Nat /\ i + ValidBlob(From(b, i)) <= Len(b)
         /\ BlobAt(Wire, b, i, ValidBlob(From(b, i)))
<1> DEFINE c == From(b, i)
           d == BigEndian(SubSeq(c, 1, 4))
           s == ValidBlob(c)
<1>1. Rest(c, b, i) /\ i \in Nat
  BY FromIs
<1>2. s # -1 /\ c \in Seq(Nat) /\ Len(c) \in Nat
  BY <1>1 DEF Rest
<1>3. /\ Len(c) >= 4 /\ d <= LO_MAX_MSG_SIZE /\ s = Padded(4 + d) /\ s <= Len(c)
      /\ \A k \in 4 + d + 1..s : c[k] = 0
  BY <1>2 DEF ValidBlob
<1>4. d = WordAt(Wire, b, i) /\ d \in Nat
  <2>1. d = BigEndianAt(c, 0)
    BY <1>2, <1>3, WordIs
  <2>2. WordAt(Wire, c, 0) = WordAt(Wire, b, i) /\ WordAt(Wire, b, i) \in Nat
    BY <1>1, <1>3, WordAtHead
  <2>3. QED
    BY <2>1, <2>2 DEF WordAt, Wire
<1>5. LO_MAX_MSG_SIZE \in Nat
  BY WireAssumption
<1> HIDE DEF c, d, s
<1>6. s \in Nat /\ 4 + d < s /\ s >= 4 /\ 4 + d \in Nat
  <2>1. 4 + d \in Nat
    BY <1>4
  <2>2. Padded(4 + d) \in Nat /\ 4 + d < Padded(4 + d)
    BY <2>1, PaddedIs
  <2>3. s = Padded(4 + d)
    BY <1>3
  <2>4. s \in Nat /\ 4 + d < s
    BY <2>2, <2>3
  <2>5. QED
    BY <1>4, <2>1, <2>4
<1>7. Nuls(c, 0, 4 + d, s)
  BY <1>3, <1>6, AtHead
<1>8. s <= Len(c)
  BY <1>3
<1>9. Nuls(b, i, 4 + d, s)
  BY <1>1, <1>6, <1>7, <1>8, SameBelow, SameString
<1>10. BlobAt(Wire, b, i, s)
  BY <1>3, <1>4, <1>5, <1>6, <1>9 DEF BlobAt
<1>11. i + s <= Len(b)
  BY <1>1, <1>2, <1>6, <1>8 DEF Rest
<1>12. QED
  BY <1>6, <1>10, <1>11 DEF s, c

(* The size of an argument is the one its functions find, in memory and    *)
(* on the wire.                                                            *)
LEMMA HoldsSize ==
  ASSUME NEW b \in Seq(Nat), NEW i \in 0..Len(b), NEW s, NEW t,
         NEW order \in Orders, Holds(order, t, b, i, s)
  PROVE  SizeIn(order, t, From(b, i)) = s
<1>1. /\ t \in Types /\ s \in Nat /\ i + s <= Len(b)
      /\ t \in NoData \cup FourBytes \cup EightBytes \cup Strings \cup {LO_BLOB}
  BY DEF Holds, Types
<1>2. i \in Nat /\ Len(b) = i + Len(From(b, i)) /\ Len(From(b, i)) \in Nat
  BY FromIs DEF Rest
<1>3. CASE order = Wire
  <2>1. SizeIn(order, t, From(b, i)) = ValidArg(t, From(b, i))
    BY <1>3 DEF SizeIn
  <2>2. CASE t \in NoData \cup FourBytes \cup EightBytes
    BY <1>1, <1>2, <2>1, <2>2, ValidArgIs DEF Holds
  <2>3. CASE t \in Strings
    BY <1>1, <2>1, <2>3, ValidArgIs, StringLength DEF Holds
  <2>4. CASE t = LO_BLOB
    BY <1>1, <1>3, <2>1, <2>4, ValidArgIs, BlobLength DEF Holds
  <2>5. QED
    BY <1>1, <2>2, <2>3, <2>4
<1>4. CASE order # Wire
  <2>1. SizeIn(order, t, From(b, i)) = ArgSize(order = "little", t, From(b, i))
    BY <1>4 DEF SizeIn
  <2>2. CASE t \in NoData \cup FourBytes \cup EightBytes
    BY <1>1, <2>1, <2>2, ArgSizeIs DEF Holds
  <2>3. CASE t \in Strings
    BY <1>1, <2>1, <2>3, ArgSizeIs, StringLength DEF Holds
  <2>4. CASE t = LO_BLOB
    BY <1>1, <1>4, <2>1, <2>4, ArgSizeIs, BlobLength DEF Holds
  <2>5. QED
    BY <1>1, <2>2, <2>3, <2>4
<1>5. QED
  BY <1>3, <1>4

(* What lo_validate_arg takes is an argument of that size. *)
LEMMA ValidHolds ==
  ASSUME NEW b \in Seq(Nat), NEW i \in 0..Len(b), NEW t, ValidArg(t, From(b, i)) # -1
  PROVE  Holds(Wire, t, b, i, ValidArg(t, From(b, i)))
<1> DEFINE s == ValidArg(t, From(b, i))
<1>1. t \in Types
  BY ValidArgIs
<1>2. i \in Nat /\ Len(b) = i + Len(From(b, i)) /\ Len(From(b, i)) \in Nat
  BY FromIs DEF Rest
<1>3. CASE t \in NoData \cup FourBytes \cup EightBytes
  BY <1>1, <1>2, <1>3, ValidArgIs, Kinds DEF Holds
<1>4. CASE t \in Strings
  <2>1. s = ValidString(From(b, i))
    BY <1>4, ValidArgIs
  <2>2. s \in Nat /\ i + s <= Len(b) /\ StringAt(b, i, s)
    BY <2>1, ValidStringAt
  <2> HIDE DEF s
  <2>3. Holds(Wire, t, b, i, s)
    BY <1>1, <1>4, <2>2, Kinds DEF Holds
  <2>4. QED
    BY <2>3 DEF s
<1>5. CASE t = LO_BLOB
  <2>1. s = ValidBlob(From(b, i))
    BY <1>5, ValidArgIs
  <2>2. s \in Nat /\ i + s <= Len(b) /\ BlobAt(Wire, b, i, s)
    BY <2>1, ValidBlobAt
  <2> HIDE DEF s
  <2>3. Holds(Wire, t, b, i, s)
    BY <1>1, <1>5, <2>2, Kinds DEF Holds
  <2>4. QED
    BY <2>3 DEF s
<1>6. QED
  BY <1>1, <1>3, <1>4, <1>5 DEF Types

-----------------------------------------------------------------------------
(* Runs of arguments, and their offsets. *)

\* where the next argument is after one of type t at offset v
After(order, t, data, v) ==
  IF v = -1 THEN -1
  ELSE LET s == SizeIn(order, t, From(data, v)) IN IF s = -1 THEN -1 ELSE v + s

\* f says where the first k arguments, and the next, begin
OffsetsTo(f, types, data, order, k) ==
  f = [i \in 1..k + 1 |-> IF i = 1 THEN 0 ELSE After(order, types[i - 1], data, f[i - 1])]

(* The offsets of a run of arguments can be computed one after the other. *)
LEMMA OffsetsExist ==
  ASSUME NEW types, NEW data, NEW order, NEW n \in Nat
  PROVE  \E f : OffsetsTo(f, types, data, order, n)
<1> DEFINE T == {k \in 0..n : \E f : OffsetsTo(f, types, data, order, k)}
<1>1. 0 \in T
  <2>1. OffsetsTo([i \in 1..1 |-> 0], types, data, order, 0)
    BY DEF OffsetsTo
  <2>2. QED
    BY <2>1
<1>2. ASSUME NEW k \in 0..n - 1, k \in T PROVE k + 1 \in T
  <2>1. PICK f : OffsetsTo(f, types, data, order, k)
    BY <1>2
  <2> DEFINE g == [i \in 1..k + 2 |->
                     IF i <= k + 1 THEN f[i] ELSE After(order, types[k + 1], data, f[k + 1])]
  <2>2. \A i \in 1..k + 1 : f[i] = IF i = 1 THEN 0 ELSE After(order, types[i - 1], data, f[i - 1])
    BY <2>1 DEF OffsetsTo
  <2>3. \A i \in 1..k + 2 : g[i] = IF i = 1 THEN 0 ELSE After(order, types[i - 1], data, g[i - 1])
    <3> SUFFICES ASSUME NEW i \in 1..k + 2
                 PROVE  g[i] = IF i = 1 THEN 0 ELSE After(order, types[i - 1], data, g[i - 1])
      OBVIOUS
    <3>1. CASE i = 1
      BY <2>2, <3>1
    <3>2. CASE i # 1 /\ i <= k + 1
      <4>1. g[i] = f[i] /\ g[i - 1] = f[i - 1]
        BY <3>2
      <4>2. QED
        BY <2>2, <3>2, <4>1
    <3>3. CASE i = k + 2
      <4>1. g[i] = After(order, types[k + 1], data, f[k + 1]) /\ g[i - 1] = f[k + 1]
            /\ i - 1 = k + 1
        BY <3>3
      <4>2. i # 1
        BY <3>3
      <4> HIDE DEF g
      <4>3. QED
        BY <4>1, <4>2
    <3>4. QED
      BY <3>1, <3>2, <3>3
  <2>4. (k + 1) + 1 = k + 2 /\ k + 1 \in 0..n
    OBVIOUS
  <2>5. OffsetsTo(g, types, data, order, k + 1)
    BY <2>3, <2>4 DEF OffsetsTo
  <2>6. QED
    BY <2>4, <2>5
<1> HIDE DEF T
<1>3. Inductive(T, n)
  BY <1>1, <1>2 DEF Inductive
<1>4. n \in T
  BY <1>3, AllNumbers
<1>5. QED
  BY <1>4 DEF T

(* Offsets says where each argument begins: behind the one before it. *)
LEMMA OffsetsAre ==
  ASSUME NEW types, Len(types) \in Nat, NEW data, NEW order
  PROVE  /\ Offsets(types, data, order)[1] = 0
         /\ \A i \in 1..Len(types) :
              Offsets(types, data, order)[i + 1]
                = After(order, types[i], data, Offsets(types, data, order)[i])
         /\ DOMAIN Offsets(types, data, order) = 1..Len(types) + 1
<1> DEFINE f == CHOOSE g : OffsetsTo(g, types, data, order, Len(types))
           n == Len(types)
<1>1. Offsets(types, data, order) = f
  BY DEF Offsets, OffsetsTo, After
<1>2. OffsetsTo(f, types, data, order, n)
  BY OffsetsExist
<1> HIDE DEF f, n
<1>3. f = [i \in 1..n + 1 |-> IF i = 1 THEN 0 ELSE After(order, types[i - 1], data, f[i - 1])]
  BY <1>2 DEF OffsetsTo
<1>4. n \in Nat
  BY DEF n
<1>5. f[1] = 0 /\ DOMAIN f = 1..n + 1
  BY <1>3, <1>4
<1>6. ASSUME NEW i \in 1..n PROVE f[i + 1] = After(order, types[i], data, f[i])
  <2>1. \A j \in 1..n + 1 : f[j] = IF j = 1 THEN 0 ELSE After(order, types[j - 1], data, f[j - 1])
    BY <1>3
  <2> DEFINE j == i + 1
  <2>2. j \in 1..n + 1 /\ j # 1 /\ j - 1 = i
    BY <1>4
  <2> HIDE DEF j
  <2>3. f[j] = After(order, types[i], data, f[i])
    BY <2>1, <2>2
  <2>4. QED
    BY <2>3 DEF j
<1>7. QED
  BY <1>1, <1>5, <1>6 DEF n

\* the arguments of the types lie one after the other, from the start to the end of data
Run(order, types, data, off) ==
  /\ off[1] = 0 /\ off[Len(types) + 1] = Len(data)
  /\ DOMAIN off = 1..Len(types) + 1
  /\ \A i \in 1..Len(types) + 1 : off[i] \in 0..Len(data)
  /\ \A i \in 1..Len(types) :
       off[i] <= off[i + 1] /\ Holds(order, types[i], data, off[i], off[i + 1] - off[i])

(* Nothing else says that. *)
LEMMA OffsetsOnly ==
  ASSUME NEW types, Len(types) \in Nat, NEW data, NEW order, NEW f,
         DOMAIN f = 1..Len(types) + 1, f = [i \in DOMAIN f |-> f[i]], f[1] = 0,
         \A i \in 1..Len(types) : f[i + 1] = After(order, types[i], data, f[i])
  PROVE  Offsets(types, data, order) = f
<1> DEFINE g == Offsets(types, data, order)
           n == Len(types)
           T == {k \in 0..n : g[k + 1] = f[k + 1]}
<1>1. /\ g[1] = 0 /\ DOMAIN g = 1..n + 1
      /\ \A i \in 1..n : g[i + 1] = After(order, types[i], data, g[i])
  BY OffsetsAre
<1>2. g = [i \in DOMAIN g |-> g[i]]
  BY DEF Offsets
<1> HIDE DEF g
<1>3. 0 \in T
  BY <1>1
<1>4. ASSUME NEW k \in 0..n - 1, k \in T PROVE k + 1 \in T
  <2>1. k + 1 \in 1..n /\ k + 1 \in 0..n
    OBVIOUS
  <2>2. g[k + 1 + 1] = f[k + 1 + 1]
    BY <1>1, <1>4, <2>1
  <2>3. QED
    BY <2>1, <2>2
<1> HIDE DEF T
<1>5. Inductive(T, n)
  BY <1>3, <1>4 DEF Inductive
<1>6. \A k \in 0..n : g[k + 1] = f[k + 1]
  BY <1>5, AllNumbers DEF T
<1>7. \A i \in 1..n + 1 : g[i] = f[i]
  <2> SUFFICES ASSUME NEW i \in 1..n + 1 PROVE g[i] = f[i]
    OBVIOUS
  <2>1. i - 1 \in 0..n /\ i - 1 + 1 = i
    OBVIOUS
  <2>2. QED
    BY <1>6, <2>1
<1>8. QED
  BY <1>1, <1>2, <1>7 DEF g

(* Where a run of arguments lies, the code finds it. *)
LEMMA RunIsOffsets ==
  ASSUME NEW types, Len(types) \in Nat, NEW data \in Seq(Nat), NEW order \in Orders, NEW off,
         off = [i \in DOMAIN off |-> off[i]], Run(order, types, data, off)
  PROVE  Offsets(types, data, order) = off
<1>1. off[1] = 0 /\ DOMAIN off = 1..Len(types) + 1
  BY DEF Run
<1>2. ASSUME NEW i \in 1..Len(types) PROVE off[i + 1] = After(order, types[i], data, off[i])
  <2>1. i \in 1..Len(types) + 1 /\ i + 1 \in 1..Len(types) + 1
    OBVIOUS
  <2>2. /\ off[i] \in 0..Len(data) /\ off[i + 1] \in 0..Len(data) /\ off[i] <= off[i + 1]
        /\ Holds(order, types[i], data, off[i], off[i + 1] - off[i])
    BY <2>1 DEF Run
  <2> DEFINE v == off[i]
             w == off[i + 1]
  <2>3. SizeIn(order, types[i], From(data, v)) = w - v
    BY <2>2, HoldsSize
  <2>4. v \in Nat /\ w \in Nat /\ v <= w
    BY <2>2
  <2> HIDE DEF v, w
  <2>5. w = After(order, types[i], data, v)
    BY <2>3, <2>4 DEF After
  <2>6. QED
    BY <2>5 DEF v, w
<1>3. QED
  BY <1>1, <1>2, OffsetsOnly

(* A run that was validated, and that ends with the data, is a run of      *)
(* arguments.                                                              *)
LEMMA ValidRun ==
  ASSUME NEW types, Len(types) \in Nat, NEW data \in Seq(Nat),
         Offsets(types, data, Wire)[Len(types) + 1] = Len(data)
  PROVE  Run(Wire, types, data, Offsets(types, data, Wire))
<1> DEFINE f == Offsets(types, data, Wire)
           n == Len(types)
           T == {k \in 0..n : f[n - k + 1] # -1}
<1>1. /\ f[1] = 0 /\ DOMAIN f = 1..n + 1 /\ f[n + 1] = Len(data) /\ Len(data) \in Nat
      /\ \A i \in 1..n : f[i + 1] = After(Wire, types[i], data, f[i])
  BY OffsetsAre
<1> HIDE DEF f
<1>2. \A i \in 1..n + 1 : f[i] # -1
  <2>1. 0 \in T
    BY <1>1
  <2>2. ASSUME NEW k \in 0..n - 1, k \in T PROVE k + 1 \in T
    <3>1. n - (k + 1) + 1 \in 1..n /\ n - (k + 1) + 1 + 1 = n - k + 1 /\ k + 1 \in 0..n
      OBVIOUS
    <3> DEFINE i == n - (k + 1) + 1
    <3>2. f[i + 1] = After(Wire, types[i], data, f[i]) /\ f[i + 1] # -1
      BY <1>1, <2>2, <3>1
    <3>3. f[i] # -1
      BY <3>2 DEF After
    <3>4. QED
      BY <3>1, <3>3
  <2> HIDE DEF T
  <2>3. Inductive(T, n)
    BY <2>1, <2>2 DEF Inductive
  <2>4. \A k \in 0..n : f[n - k + 1] # -1
    BY <2>3, AllNumbers DEF T
  <2> SUFFICES ASSUME NEW i \in 1..n + 1 PROVE f[i] # -1
    OBVIOUS
  <2>5. n + 1 - i \in 0..n /\ n - (n + 1 - i) + 1 = i
    OBVIOUS
  <2>6. QED
    BY <2>4, <2>5
<1>3. ASSUME NEW i \in 1..n, f[i] \in 0..Len(data)
      PROVE  /\ f[i + 1] \in 0..Len(data) /\ f[i] <= f[i + 1]
             /\ Holds(Wire, types[i], data, f[i], f[i + 1] - f[i])
  <2> DEFINE v == f[i]
             w == f[i + 1]
             s == ValidArg(types[i], From(data, v))
  <2>1. i + 1 \in 1..n + 1
    OBVIOUS
  <2>2. w = After(Wire, types[i], data, v) /\ w # -1
    BY <1>1, <1>2, <2>1
  <2>3. v \in 0..Len(data) /\ v \in Nat
    BY <1>3
  <2>4. s # -1 /\ w = v + s
    BY <2>2, <2>3 DEF After, SizeIn
  <2>5. Holds(Wire, types[i], data, v, s)
    BY <2>3, <2>4, ValidHolds
  <2>6. s \in Nat /\ v + s <= Len(data)
    BY <2>5 DEF Holds
  <2> HIDE DEF v, w, s
  <2>7. w \in 0..Len(data) /\ v <= w /\ w - v = s
    BY <1>1, <2>3, <2>4, <2>6
  <2>8. QED
    BY <2>5, <2>7 DEF v, w
<1> DEFINE U == {k \in 0..n : f[k + 1] \in 0..Len(data)}
<1>4. 0 \in U
  BY <1>1
<1>5. ASSUME NEW k \in 0..n - 1, k \in U PROVE k + 1 \in U
  <2>1. k + 1 \in 1..n /\ k + 1 \in 0..n /\ f[k + 1] \in 0..Len(data)
    BY <1>5
  <2>2. f[k + 1 + 1] \in 0..Len(data)
    BY <1>3, <2>1
  <2>3. QED
    BY <2>1, <2>2
<1> HIDE DEF U
<1>6. Inductive(U, n)
  BY <1>4, <1>5 DEF Inductive
<1>7. \A k \in 0..n : f[k + 1] \in 0..Len(data)
  BY <1>6, AllNumbers DEF U
<1>8. \A i \in 1..n + 1 : f[i] \in 0..Len(data)
  <2> SUFFICES ASSUME NEW i \in 1..n + 1 PROVE f[i] \in 0..Len(data)
    OBVIOUS
  <2>1. i - 1 \in 0..n /\ i - 1 + 1 = i
    OBVIOUS
  <2>2. QED
    BY <1>7, <2>1
<1>9. \A i \in 1..n : /\ f[i] <= f[i + 1]
                      /\ Holds(Wire, types[i], data, f[i], f[i + 1] - f[i])
  <2> SUFFICES ASSUME NEW i \in 1..n
               PROVE  f[i] <= f[i + 1] /\ Holds(Wire, types[i], data, f[i], f[i + 1] - f[i])
    OBVIOUS
  <2>1. i \in 1..n + 1
    OBVIOUS
  <2>2. f[i] \in 0..Len(data)
    BY <1>8, <2>1
  <2>3. QED
    BY <1>3, <2>2
<1>10. Run(Wire, types, data, f)
  BY <1>1, <1>8, <1>9 DEF Run
<1>11. QED
  BY <1>10 DEF f

-----------------------------------------------------------------------------
(* Swapping a run. *)

(* The arguments of a run follow each other. *)
LEMMA RunIsOrdered ==
  ASSUME NEW order, NEW types, Len(types) \in Nat, NEW data, Len(data) \in Nat, NEW off,
         Run(order, types, data, off)
  PROVE  \A i, k \in 1..Len(types) + 1 : i <= k => off[i] <= off[k]
<1> DEFINE n == Len(types)
           T == {k \in 0..n : \A i \in 1..k + 1 : off[i] <= off[k + 1]}
<1>1. /\ \A i \in 1..n + 1 : off[i] \in Nat
      /\ \A i \in 1..n : off[i] <= off[i + 1]
  BY DEF Run
<1>2. 0 \in T
  BY <1>1
<1>3. ASSUME NEW k \in 0..n - 1, k \in T PROVE k + 1 \in T
  <2>1. k + 1 \in 1..n /\ k + 1 \in 0..n /\ k + 1 \in 1..n + 1 /\ k + 2 \in 1..n + 1
        /\ k + 1 + 1 = k + 2
    OBVIOUS
  <2>2. off[k + 1] <= off[k + 2] /\ off[k + 1] \in Nat /\ off[k + 2] \in Nat
    BY <1>1, <2>1
  <2>3. \A i \in 1..k + 1 : off[i] <= off[k + 1] /\ off[i] \in Nat
    <3>1. \A i \in 1..k + 1 : i \in 1..n + 1
      OBVIOUS
    <3>2. QED
      BY <1>1, <1>3, <3>1
  <2>4. \A i \in 1..k + 2 : off[i] <= off[k + 2]
    BY <2>1, <2>2, <2>3
  <2>5. QED
    BY <2>1, <2>4
<1> HIDE DEF T
<1>4. Inductive(T, n)
  BY <1>2, <1>3 DEF Inductive
<1>5. \A k \in 0..n : \A i \in 1..k + 1 : off[i] <= off[k + 1]
  BY <1>4, AllNumbers DEF T
<1>6. SUFFICES ASSUME NEW i \in 1..n + 1, NEW k \in 1..n + 1, i <= k PROVE off[i] <= off[k]
  OBVIOUS
<1>7. k - 1 \in 0..n /\ k - 1 + 1 = k /\ i \in 1..k
  BY <1>6
<1>8. QED
  BY <1>5, <1>7

(* What is swapped of an argument lies within it, a word, two of them, or  *)
(* nothing.                                                                *)
LEMMA SwappedFits ==
  ASSUME NEW order, NEW t, NEW b, NEW i, NEW s, Holds(order, t, b, i, s)
  PROVE  /\ Swapped(t) \in {0, 4, 8} /\ Swapped(t) <= s
         /\ t \in Strings => Swapped(t) = 0
         /\ t = LO_BLOB => Swapped(t) = 4
<1>1. s \in Nat /\ t \in Types
  BY DEF Holds
<1>2. CASE t \in {LO_INT32, LO_FLOAT, LO_CHAR}
  <2>1. t \in FourBytes /\ t \notin Strings /\ t # LO_BLOB /\ t \notin EightBytes
    BY <1>2, Kinds DEF FourBytes
  <2>2. Swapped(t) = 4
    BY <1>2, <2>1 DEF Swapped
  <2>3. QED
    BY <2>1, <2>2 DEF Holds
<1>3. CASE t = LO_BLOB
  <2>1. Swapped(t) = 4 /\ t \notin Strings
    BY <1>3, Kinds DEF Swapped
  <2>2. QED
    BY <1>3, <2>1 DEF Holds, BlobAt
<1>4. CASE t \in EightBytes
  <2>1. t \notin {LO_INT32, LO_FLOAT, LO_BLOB, LO_CHAR} /\ t \notin Strings
    BY <1>4, Kinds DEF FourBytes
  <2>2. Swapped(t) = 8
    BY <1>4, <2>1 DEF Swapped
  <2>3. QED
    BY <1>4, <2>1, <2>2 DEF Holds
<1>5. CASE t \notin {LO_INT32, LO_FLOAT, LO_BLOB, LO_CHAR} \cup EightBytes
  <2>1. Swapped(t) = 0
    BY <1>5 DEF Swapped
  <2>2. QED
    BY <1>1, <1>5, <2>1
<1>6. QED
  BY <1>2, <1>3, <1>4, <1>5

\* what Swap makes of the first w bytes of b
Turned(little, b) == IF Len(b) = 4 THEN Swap32(little, b) ELSE Swap64(little, b)

\* byte j of data when the w bytes after offset v are swapped
ByteOf(little, data, v, w, j) ==
  IF j <= v + w THEN Turned(little, SubSeq(data, v + 1, v + w))[j - v] ELSE data[j]

\* c is data from v to u, but for the w bytes after v, swapped
SwapsTo(little, c, data, v, w, u) == \A j \in v + 1..u : c[j] = ByteOf(little, data, v, w, j)

(* Between its own offset and the next one, Swap changes an argument as    *)
(* it should, whatever is done to the others.                              *)
LEMMA SwapAt ==
  ASSUME NEW order, NEW types, Len(types) \in Nat, NEW data \in Seq(Nat), NEW off,
         Run(order, types, data, off), NEW little,
         NEW i \in 1..Len(types)
  PROVE  SwapsTo(little, Swap(little, types, data, off), data,
                 off[i], Swapped(types[i]), off[i + 1])
<1> SUFFICES ASSUME NEW j \in off[i] + 1..off[i + 1]
             PROVE  Swap(little, types, data, off)[j] =
                      ByteOf(little, data, off[i], Swapped(types[i]), j)
  BY DEF SwapsTo
<1> DEFINE n == Len(types)
           At == {k \in 1..n : off[k] < j /\ j <= off[k] + Swapped(types[k])}
           Of(k) == Turned(little, SubSeq(data, off[k] + 1, off[k] + Swapped(types[k])))[j - off[k]]
<1>1. /\ \A k \in 1..n + 1 : off[k] \in Nat /\ off[k] <= Len(data)
      /\ \A k \in 1..n : off[k] <= off[k + 1]
         /\ Holds(order, types[k], data, off[k], off[k + 1] - off[k])
      /\ Len(data) \in Nat
  BY DEF Run
<1>2. i \in 1..n + 1 /\ i + 1 \in 1..n + 1
  OBVIOUS
<1>0. \A a, b \in 1..n + 1 : a <= b => off[a] <= off[b]
  BY <1>1, RunIsOrdered
<1>3. off[i] \in Nat /\ off[i + 1] \in Nat /\ off[i + 1] <= Len(data) /\ j \in Nat
      /\ off[i] < j /\ j <= off[i + 1]
  BY <1>1, <1>2
<1>4. j \in 1..Len(data)
  BY <1>1, <1>3
<1>5. Swap(little, types, data, off)[j] =
        IF At = {} THEN data[j] ELSE LET k == CHOOSE k \in At : TRUE IN Of(k)
  BY <1>4 DEF Swap, Turned
<1>6. \A k \in 1..n : Swapped(types[k]) \in Nat /\ off[k] + Swapped(types[k]) <= off[k + 1]
  <2> SUFFICES ASSUME NEW k \in 1..n
               PROVE  Swapped(types[k]) \in Nat /\ off[k] + Swapped(types[k]) <= off[k + 1]
    OBVIOUS
  <2>1. k \in 1..n + 1 /\ k + 1 \in 1..n + 1
    OBVIOUS
  <2>2. off[k] \in Nat /\ off[k + 1] \in Nat /\ off[k] <= off[k + 1]
    BY <1>1, <2>1
  <2>3. Swapped(types[k]) \in {0, 4, 8} /\ Swapped(types[k]) <= off[k + 1] - off[k]
    BY <1>1, SwappedFits
  <2>4. QED
    BY <2>2, <2>3
<1>7. \A k \in At : k = i
  <2> SUFFICES ASSUME NEW k \in 1..n, off[k] < j, j <= off[k] + Swapped(types[k]), k # i
               PROVE  FALSE
    OBVIOUS
  <2>1. k \in 1..n + 1 /\ k + 1 \in 1..n + 1
    OBVIOUS
  <2>2. off[k] \in Nat /\ off[k + 1] \in Nat
    BY <1>1, <2>1
  <2> DEFINE v == off[k]
             w == off[k + 1]
             s == Swapped(types[k])
  <2>3. v \in Nat /\ w \in Nat /\ s \in Nat /\ v + s <= w /\ j <= v + s /\ v < j
    BY <1>6, <2>2
  <2> HIDE DEF v, w, s
  <2>7. j <= w /\ v < j
    BY <1>3, <2>3
  <2>4. CASE k < i
    <3>1. k + 1 <= i
      BY <2>4
    <3>2. w <= off[i]
      BY <1>0, <1>2, <2>1, <3>1 DEF w
    <3>3. QED
      BY <1>3, <2>3, <2>7, <3>2
  <2>5. CASE i < k
    <3>1. i + 1 <= k
      BY <2>5
    <3>2. off[i + 1] <= v
      BY <1>0, <1>2, <2>1, <3>1 DEF v
    <3>3. QED
      BY <1>3, <2>3, <2>7, <3>2
  <2>6. QED
    BY <2>4, <2>5
<1>8. CASE j <= off[i] + Swapped(types[i])
  <2>1. i \in At
    BY <1>3, <1>8
  <2>2. At # {} /\ (CHOOSE k \in At : TRUE) = i
    <3> HIDE DEF At
    <3>1. QED
      BY <1>7, <2>1
  <2>3. Swap(little, types, data, off)[j] = Of(i)
    <3> HIDE DEF At, Of
    <3>1. QED
      BY <1>5, <2>2
  <2>4. QED
    BY <1>8, <2>3 DEF ByteOf
<1>9. CASE ~ (j <= off[i] + Swapped(types[i]))
  <2>1. i \notin At
    BY <1>9
  <2>2. At = {}
    <3> HIDE DEF At
    <3>1. QED
      BY <1>7, <2>1
  <2>3. Swap(little, types, data, off)[j] = data[j]
    <3> HIDE DEF At, Of
    <3>1. QED
      BY <1>5, <2>2
  <2>4. QED
    BY <1>9, <2>3 DEF ByteOf
<1>10. QED
  BY <1>8, <1>9

(* The bytes of a reversed buffer are those of the buffer from behind. *)
LEMMA ReversedIs ==
  ASSUME NEW b \in Seq(Nat)
  PROVE  /\ Reversed(b) \in Seq(Nat) /\ Len(Reversed(b)) = Len(b)
         /\ \A k \in 1..Len(b) : Reversed(b)[k] = b[Len(b) + 1 - k]
<1> DEFINE n == Len(b)
           r == [i \in 1..n |-> b[n + 1 - i]]
<1>1. n \in Nat /\ \A i \in 1..n : b[i] \in Nat
  OBVIOUS
<1>2. Reversed(b) = r
  BY DEF Reversed
<1>3. \A i \in 1..n : b[n + 1 - i] \in Nat
  <2> SUFFICES ASSUME NEW i \in 1..n PROVE b[n + 1 - i] \in Nat
    OBVIOUS
  <2>1. n + 1 - i \in 1..n
    BY <1>1
  <2> HIDE DEF n
  <2>2. QED
    BY <1>1, <2>1
<1> HIDE DEF n
<1>4. r \in Seq(Nat) /\ Len(r) = n /\ \A k \in 1..n : r[k] = b[n + 1 - k]
  BY <1>1, <1>3
<1>5. QED
  BY <1>2, <1>4 DEF n

(* Four bytes are reversed into four. *)
LEMMA ReversedWord ==
  ASSUME NEW b \in Seq(Nat), Len(b) = 4
  PROVE  /\ Reversed(b) \in Seq(Nat) /\ Len(Reversed(b)) = 4
         /\ \A k \in 1..4 : Reversed(b)[k] = b[5 - k]
<1>1. \A k \in 1..4 : Len(b) + 1 - k = 5 - k
  OBVIOUS
<1>2. \A k \in 1..4 : Reversed(b)[k] = b[Len(b) + 1 - k]
  BY ReversedIs
<1>3. QED
  BY <1>1, <1>2, ReversedIs

(* lo_swap32 makes a word of a word. *)
LEMMA Swap32Is ==
  ASSUME NEW little, NEW b \in Seq(Nat)
  PROVE  Swap32(little, b) \in Seq(Nat) /\ Len(Swap32(little, b)) = Len(b)
  BY ReversedIs DEF Swap32

(* lo_swap64 makes eight bytes of eight. *)
LEMMA Swap64Is ==
  ASSUME NEW little, NEW b \in Seq(Nat), Len(b) = 8
  PROVE  Swap64(little, b) \in Seq(Nat) /\ Len(Swap64(little, b)) = 8
<1> DEFINE x == SubSeq(b, 5, 8)
           y == SubSeq(b, 1, 4)
<1>0. \A k \in 1..8 : b[k] \in Nat
  <2> SUFFICES ASSUME NEW k \in 1..8 PROVE b[k] \in Nat
    OBVIOUS
  <2>1. k \in 1..Len(b)
    OBVIOUS
  <2>2. QED
    BY <2>1, ElementOfSeq
<1>1. x \in Seq(Nat) /\ Len(x) = 4 /\ y \in Seq(Nat) /\ Len(y) = 4
  <2>1. (\A k \in 5..8 : b[k] \in Nat) /\ (\A k \in 1..4 : b[k] \in Nat)
    BY <1>0
  <2>2. x \in Seq(Nat) /\ Len(x) = IF 5 <= 8 THEN 8 - 5 + 1 ELSE 0
    BY <2>1, SubSeqProperties
  <2>3. y \in Seq(Nat) /\ Len(y) = IF 1 <= 4 THEN 4 - 1 + 1 ELSE 0
    BY <2>1, SubSeqProperties
  <2>4. QED
    BY <2>2, <2>3
<1>2. Swap64(little, b) = Swap32(little, x) \o Swap32(little, y)
  BY DEF Swap64
<1> HIDE DEF x, y
<1> DEFINE u == Swap32(little, x)
           v == Swap32(little, y)
<1>3. u \in Seq(Nat) /\ Len(u) = 4 /\ v \in Seq(Nat) /\ Len(v) = 4
  BY <1>1, Swap32Is
<1> HIDE DEF u, v
<1>4. u \o v \in Seq(Nat) /\ Len(u \o v) = Len(u) + Len(v)
  BY <1>3, ConcatProperties
<1>5. QED
  BY <1>2, <1>3, <1>4 DEF u, v

\* r is the word b, as a host has it that is little-endian or not
IsWord(little, r, b) == \A k \in 1..4 : r[k] = IF little THEN b[5 - k] ELSE b[k]

(* A word that is swapped is that word as a little-endian host has it, or  *)
(* a big-endian one.                                                       *)
LEMMA TurnedIs ==
  ASSUME NEW little, NEW b \in Seq(Nat), Len(b) \in {4, 8}
  PROVE  /\ Turned(little, b) \in Seq(Nat) /\ Len(Turned(little, b)) = Len(b)
         /\ Len(b) = 4 => IsWord(little, Turned(little, b), b)
<1>1. CASE Len(b) = 4
  <2>1. Turned(little, b) = IF little THEN Reversed(b) ELSE b
    BY <1>1 DEF Turned, Swap32
  <2>2. /\ Reversed(b) \in Seq(Nat) /\ Len(Reversed(b)) = 4
        /\ \A k \in 1..4 : Reversed(b)[k] = b[5 - k]
    BY <1>1, ReversedWord
  <2>3. QED
    BY <1>1, <2>1, <2>2 DEF IsWord
<1>2. CASE Len(b) = 8
  <2>1. Turned(little, b) = Swap64(little, b)
    BY <1>2 DEF Turned
  <2>2. Swap64(little, b) \in Seq(Nat) /\ Len(Swap64(little, b)) = 8
    BY <1>2, Swap64Is
  <2>3. QED
    BY <1>2, <2>1, <2>2
<1>3. QED
  BY <1>1, <1>2

(* A piece of the data is as long as it says. *)
LEMMA PieceIs ==
  ASSUME NEW data \in Seq(Nat), NEW v \in Nat, NEW w \in Nat, v + w <= Len(data)
  PROVE  /\ SubSeq(data, v + 1, v + w) \in Seq(Nat) /\ Len(SubSeq(data, v + 1, v + w)) = w
         /\ \A i \in 1..w : SubSeq(data, v + 1, v + w)[i] = data[v + i]
  OBVIOUS

\* r is what the bytes of a number at v become
IsTurned(little, data, v, w, r, k) ==
  /\ r[k] \in Nat
  /\ w = 4 => r[k] = IF little THEN data[v + (5 - k)] ELSE data[v + k]

(* A swapped number has bytes, and a swapped word those of the word. *)
LEMMA TurnedByte ==
  ASSUME NEW little, NEW data \in Seq(Nat), NEW v \in Nat, NEW w \in {4, 8}, v + w <= Len(data),
         NEW k \in 1..w
  PROVE  IsTurned(little, data, v, w, Turned(little, SubSeq(data, v + 1, v + w)), k)
<1> DEFINE b == SubSeq(data, v + 1, v + w)
<1>1. b \in Seq(Nat) /\ Len(b) = w /\ \A i \in 1..w : b[i] = data[v + i]
  BY PieceIs
<1> HIDE DEF b
<1>2. Turned(little, b) \in Seq(Nat) /\ Len(Turned(little, b)) = w
  BY <1>1, TurnedIs
<1>3. Turned(little, b)[k] \in Nat
  <2> DEFINE s == Turned(little, b)
  <2>1. s \in Seq(Nat) /\ Len(s) = w
    BY <1>2
  <2> HIDE DEF s
  <2>2. k \in 1..Len(s)
    BY <2>1
  <2>3. s[k] \in Nat
    BY <2>1, <2>2, ElementOfSeq
  <2>4. QED
    BY <2>3 DEF s
<1>4. w = 4 => Turned(little, b)[k] = IF little THEN data[v + (5 - k)] ELSE data[v + k]
  <2> SUFFICES ASSUME w = 4
               PROVE  Turned(little, b)[k] = IF little THEN data[v + (5 - k)] ELSE data[v + k]
    OBVIOUS
  <2>1. k \in 1..4 /\ 5 - k \in 1..w /\ Len(b) = 4
    BY <1>1
  <2>2. IsWord(little, Turned(little, b), b)
    BY <1>1, <2>1, TurnedIs
  <2>3. b[5 - k] = data[v + (5 - k)] /\ b[k] = data[v + k]
    BY <1>1, <2>1
  <2>4. QED
    BY <2>1, <2>2, <2>3 DEF IsWord
<1>5. QED
  BY <1>3, <1>4 DEF b, IsTurned

(* Swapping the arguments of a message leaves as many bytes as there       *)
(* were.                                                                   *)
LEMMA SwapIsBytes ==
  ASSUME NEW order, NEW types, Len(types) \in Nat, NEW data \in Seq(Nat), NEW off,
         Run(order, types, data, off), NEW little
  PROVE  /\ Swap(little, types, data, off) \in Seq(Nat)
         /\ Len(Swap(little, types, data, off)) = Len(data)
<1> DEFINE n == Len(types)
           At(j) == {k \in 1..n : off[k] < j /\ j <= off[k] + Swapped(types[k])}
           Of(k, j) == Turned(little, SubSeq(data, off[k] + 1,
                                             off[k] + Swapped(types[k])))[j - off[k]]
           Byte(j) == IF At(j) = {} THEN data[j] ELSE LET k == CHOOSE k \in At(j) : TRUE IN Of(k, j)
<1>1. Swap(little, types, data, off) = [j \in 1..Len(data) |-> Byte(j)]
  BY DEF Swap, Turned
<1>2. Len(data) \in Nat /\ \A j \in 1..Len(data) : data[j] \in Nat
  OBVIOUS
<1>3. \A k \in 1..n + 1 : off[k] \in Nat /\ off[k] <= Len(data)
  BY DEF Run
<1>4. ASSUME NEW j \in 1..Len(data), NEW k \in At(j) PROVE Of(k, j) \in Nat
  <2>1. k \in 1..n /\ off[k] < j /\ j <= off[k] + Swapped(types[k])
    OBVIOUS
  <2>2. k \in 1..n + 1 /\ k + 1 \in 1..n + 1
    BY <2>1
  <2> DEFINE v == off[k]
             u == off[k + 1]
             w == Swapped(types[k])
  <2>3. v \in Nat /\ u \in Nat /\ u <= Len(data)
    BY <1>3, <2>2
  <2>4. w \in {0, 4, 8} /\ w <= u - v
    BY <2>1, SwappedFits DEF Run
  <2>5. v < j /\ j <= v + w
    BY <2>1
  <2> HIDE DEF v, w, u
  <2>6. w \in {4, 8} /\ v \in Nat /\ v + w <= Len(data) /\ j - v \in 1..w
    BY <1>2, <2>3, <2>4, <2>5
  <2>7. data \in Seq(Nat)
    OBVIOUS
  <2>8. Turned(little, SubSeq(data, v + 1, v + w))[j - v] \in Nat
    BY <2>6, <2>7, TurnedByte DEF IsTurned
  <2>9. QED
    BY <2>8 DEF v, w
<1>5. \A j \in 1..Len(data) : Byte(j) \in Nat
  <2> SUFFICES ASSUME NEW j \in 1..Len(data) PROVE Byte(j) \in Nat
    OBVIOUS
  <2>1. CASE At(j) = {}
    BY <1>2, <2>1
  <2>2. CASE At(j) # {}
    <3> DEFINE k == CHOOSE k \in At(j) : TRUE
    <3>1. k \in At(j)
      <4> HIDE DEF At
      <4>1. QED
        BY <2>2
    <3>2. Of(k, j) \in Nat
      <4> HIDE DEF k, Of, At
      <4>1. QED
        BY <1>4, <3>1
    <3>3. Byte(j) = Of(k, j)
      <4> HIDE DEF At, Of
      <4>1. QED
        BY <2>2
    <3> HIDE DEF Of, k, Byte
    <3>4. QED
      BY <3>2, <3>3
  <2>3. QED
    BY <2>1, <2>2
<1> HIDE DEF Byte
<1>6. [j \in 1..Len(data) |-> Byte(j)] \in Seq(Nat)
      /\ Len([j \in 1..Len(data) |-> Byte(j)]) = Len(data)
  BY <1>2, <1>5
<1>7. QED
  BY <1>1, <1>6

\* c has what b has, of an argument at v of s bytes, but for the first w, turned if a word
TurnedAt(little, c, b, v, w, s) ==
  /\ \A j \in w + 1..s : c[v + j] = b[v + j]
  /\ w = 4 => \A k \in 1..4 : c[v + k] = IF little THEN b[v + (5 - k)] ELSE b[v + k]

(* Each argument of a run is swapped by itself. *)
LEMMA SwapArg ==
  ASSUME NEW order, NEW types, Len(types) \in Nat, NEW data \in Seq(Nat), NEW off,
         Run(order, types, data, off), NEW little, NEW i \in 1..Len(types)
  PROVE  TurnedAt(little, Swap(little, types, data, off), data, off[i], Swapped(types[i]),
                    off[i + 1] - off[i])
<1> DEFINE v == off[i]
           u == off[i + 1]
           w == Swapped(types[i])
           c == Swap(little, types, data, off)
<1>1. i \in 1..Len(types) + 1 /\ i + 1 \in 1..Len(types) + 1
  OBVIOUS
<1>2. v \in Nat /\ u \in Nat /\ v <= u /\ u <= Len(data) /\ Len(data) \in Nat
  BY <1>1 DEF Run
<1>3. w \in {0, 4, 8} /\ w <= u - v
  BY SwappedFits DEF Run
<1>4. \A j \in v + 1..u : c[j] = ByteOf(little, data, v, w, j)
  <2>1. SwapsTo(little, c, data, v, w, u)
    BY SwapAt
  <2>2. QED
    BY <2>1 DEF SwapsTo
<1>5. data \in Seq(Nat)
  OBVIOUS
<1> HIDE DEF v, u, w, c
<1>6. \A j \in w + 1..u - v : c[v + j] = data[v + j]
  <2> SUFFICES ASSUME NEW j \in w + 1..u - v PROVE c[v + j] = data[v + j]
    OBVIOUS
  <2>1. v + j \in v + 1..u /\ ~ (v + j <= v + w)
    BY <1>2, <1>3
  <2>2. QED
    BY <1>4, <2>1 DEF ByteOf
<1>7. w = 4 => \A k \in 1..4 : c[v + k] = IF little THEN data[v + (5 - k)] ELSE data[v + k]
  <2> SUFFICES ASSUME w = 4, NEW k \in 1..4
               PROVE  c[v + k] = IF little THEN data[v + (5 - k)] ELSE data[v + k]
    OBVIOUS
  <2>1. v + k \in v + 1..u /\ v + k <= v + w /\ v + k - v = k /\ k \in 1..w /\ v + w <= Len(data)
        /\ w \in {4, 8}
    BY <1>2, <1>3
  <2> DEFINE r == Turned(little, SubSeq(data, v + 1, v + w))
  <2>2. c[v + k] = r[k]
    <3> DEFINE j == v + k
    <3>1. c[j] = ByteOf(little, data, v, w, j)
      BY <1>4, <2>1
    <3>2. j <= v + w /\ j - v = k
      BY <1>2, <2>1
    <3> HIDE DEF j, r
    <3>3. ByteOf(little, data, v, w, j) = r[j - v]
      BY <3>2 DEF ByteOf, r
    <3>4. c[j] = r[k]
      BY <3>1, <3>2, <3>3
    <3>5. QED
      BY <3>4 DEF j
  <2>3. r[k] = IF little THEN data[v + (5 - k)] ELSE data[v + k]
    <3>1. v \in Nat /\ w \in {4, 8} /\ v + w <= Len(data) /\ k \in 1..w
      BY <1>2, <2>1
    <3>2. IsTurned(little, data, v, w, r, k)
      BY <1>5, <3>1, TurnedByte
    <3>3. QED
      BY <2>1, <3>2 DEF IsTurned
  <2>4. QED
    BY <2>2, <2>3
<1>8. QED
  BY <1>6, <1>7 DEF TurnedAt, v, u, w, c

(* The zeros that end a string or a blob are not swapped. *)
LEMMA NulsMove ==
  ASSUME NEW b, NEW c, NEW v, NEW n \in Nat, NEW m \in Nat, m <= n, NEW s \in Nat,
         \A j \in m + 1..s : c[v + j] = b[v + j], Nuls(b, v, n, s)
  PROVE  Nuls(c, v, n, s)
<1>1. \A k \in n + 1..s : k \in m + 1..s
  OBVIOUS
<1>2. QED
  BY <1>1 DEF Nuls

(* Neither are the characters of a string. *)
LEMMA NoNulMoves ==
  ASSUME NEW b, NEW c, NEW v, NEW n \in Nat, NEW s \in Nat, n <= s,
         \A j \in 0 + 1..s : c[v + j] = b[v + j], NoNul(b, v, n)
  PROVE  NoNul(c, v, n)
<1>1. \A k \in 1..n : k \in 0 + 1..s
  OBVIOUS
<1>2. QED
  BY <1>1 DEF NoNul

\* of the orders between which a host swaps
Swaps(little, from, to) ==
  \/ from = Wire /\ to = HostOrder(little)
  \/ from = HostOrder(little) /\ to = Wire

(* The size of a blob, swapped, is read as the same number on the other    *)
(* side.                                                                   *)
LEMMA WordTurned ==
  ASSUME NEW little \in BOOLEAN, NEW from, NEW to, Swaps(little, from, to),
         NEW b, NEW c, NEW v \in Nat,
         \A k \in 1..4 : c[v + k] = IF little THEN b[v + (5 - k)] ELSE b[v + k]
  PROVE  WordAt(to, c, v) = WordAt(from, b, v)
<1>1. /\ c[v + 1] = IF little THEN b[v + 4] ELSE b[v + 1]
      /\ c[v + 2] = IF little THEN b[v + 3] ELSE b[v + 2]
      /\ c[v + 3] = IF little THEN b[v + 2] ELSE b[v + 3]
      /\ c[v + 4] = IF little THEN b[v + 1] ELSE b[v + 4]
  <2>1. 1 \in 1..4 /\ 2 \in 1..4 /\ 3 \in 1..4 /\ 4 \in 1..4
        /\ 5 - 1 = 4 /\ 5 - 2 = 3 /\ 5 - 3 = 2 /\ 5 - 4 = 1
    OBVIOUS
  <2>2. QED
    BY <2>1
<1>2. "wire" # "little" /\ "big" # "little"
  OBVIOUS
<1>3. CASE little
  <2>1. {from, to} = {"wire", "little"} /\ from # to
    BY <1>2, <1>3 DEF Swaps, HostOrder, Wire
  <2>2. QED
    BY <1>1, <1>2, <1>3, <2>1 DEF WordAt, BigEndianAt, LittleEndianAt
<1>4. CASE ~ little
  <2>1. from # "little" /\ to # "little"
    BY <1>2, <1>4 DEF Swaps, HostOrder, Wire
  <2>2. QED
    BY <1>1, <1>4, <2>1 DEF WordAt, BigEndianAt
<1>5. QED
  BY <1>3, <1>4

(* The next multiple of four is not before a number. *)
LEMMA PaddedBeyond ==
  ASSUME NEW n \in Nat
  PROVE  Padded(n) \in Nat /\ n < Padded(n)
  BY DEF Padded

\* an argument whose blob, if it is one, may be received
Receivable(order, t, b, v) == t = LO_BLOB => WordAt(order, b, v) <= LO_MAX_MSG_SIZE

(* An argument is an argument of the same type and size in the other       *)
(* order.                                                                  *)
LEMMA HoldsSwapped ==
  ASSUME NEW little \in BOOLEAN, NEW from, NEW to, Swaps(little, from, to),
         NEW b, NEW c, Len(c) = Len(b), NEW v \in Nat, NEW t, NEW s,
         Holds(from, t, b, v, s), to = Wire => Receivable(from, t, b, v),
         TurnedAt(little, c, b, v, Swapped(t), s)
  PROVE  Holds(to, t, c, v, s)
<1>1. s \in Nat
  BY DEF Holds
<1>2. t \in Strings => StringAt(c, v, s)
  <2> SUFFICES ASSUME t \in Strings PROVE StringAt(c, v, s)
    OBVIOUS
  <2>1. Swapped(t) = 0
    BY SwappedFits
  <2>2. \A j \in 0 + 1..s : c[v + j] = b[v + j]
    BY <2>1 DEF TurnedAt
  <2>3. PICK n \in Nat : s = Padded(n) /\ NoNul(b, v, n) /\ Nuls(b, v, n, s)
    BY DEF Holds, StringAt
  <2>4. n < s /\ n <= s /\ 0 <= n
    BY <1>1, <2>3, PaddedBeyond
  <2>5. NoNul(c, v, n)
    BY <1>1, <2>2, <2>3, <2>4, NoNulMoves
  <2>6. Nuls(c, v, n, s)
    BY <1>1, <2>2, <2>3, <2>4, NulsMove
  <2>7. QED
    BY <2>3, <2>5, <2>6 DEF StringAt
<1>3. t = LO_BLOB => BlobAt(to, c, v, s)
  <2> SUFFICES ASSUME t = LO_BLOB PROVE BlobAt(to, c, v, s)
    OBVIOUS
  <2>1. Swapped(t) = 4
    BY SwappedFits
  <2>2. /\ \A j \in 4 + 1..s : c[v + j] = b[v + j]
        /\ \A k \in 1..4 : c[v + k] = IF little THEN b[v + (5 - k)] ELSE b[v + k]
    BY <2>1 DEF TurnedAt
  <2>3. BlobAt(from, b, v, s)
    BY DEF Holds
  <2> DEFINE n == WordAt(from, b, v)
  <2>4. WordAt(to, c, v) = n
    BY <2>2, WordTurned
  <2>5. s >= 4 /\ n \in Nat /\ s = Padded(4 + n) /\ Nuls(b, v, 4 + n, s)
    BY <2>3 DEF BlobAt
  <2>9. to = Wire => n <= LO_MAX_MSG_SIZE
    BY DEF Receivable
  <2> HIDE DEF n
  <2>6. 4 + n \in Nat /\ 4 <= 4 + n
    BY <2>5
  <2>7. Nuls(c, v, 4 + n, s)
    BY <1>1, <2>2, <2>5, <2>6, NulsMove
  <2>8. QED
    BY <2>4, <2>5, <2>7, <2>9 DEF BlobAt
<1>4. QED
  BY <1>2, <1>3 DEF Holds

(* So is a run of them: host to network, and network to host. *)
LEMMA SwapRun ==
  ASSUME NEW little \in BOOLEAN, NEW from, NEW to, Swaps(little, from, to),
         NEW types, Len(types) \in Nat, NEW data \in Seq(Nat), NEW off,
         Run(from, types, data, off),
         to = Wire => \A i \in 1..Len(types) : Receivable(from, types[i], data, off[i])
  PROVE  Run(to, types, Swap(little, types, data, off), off)
<1> DEFINE c == Swap(little, types, data, off)
<1>1. Len(c) = Len(data)
  BY SwapIsBytes
<1>2. ASSUME NEW i \in 1..Len(types)
      PROVE  Holds(to, types[i], c, off[i], off[i + 1] - off[i])
  <2>1. TurnedAt(little, c, data, off[i], Swapped(types[i]), off[i + 1] - off[i])
    BY SwapArg
  <2>2. i \in 1..Len(types) + 1
    OBVIOUS
  <2>3. off[i] \in Nat /\ Holds(from, types[i], data, off[i], off[i + 1] - off[i])
    BY <2>2 DEF Run
  <2> DEFINE v == off[i]
             s == off[i + 1] - off[i]
             t == types[i]
  <2>4. /\ TurnedAt(little, c, data, v, Swapped(t), s) /\ v \in Nat /\ Holds(from, t, data, v, s)
        /\ to = Wire => Receivable(from, t, data, v)
    BY <2>1, <2>3
  <2> HIDE DEF v, s, t, c
  <2>5. Holds(to, t, c, v, s)
    BY <1>1, <2>4, HoldsSwapped
  <2>6. QED
    BY <2>5 DEF v, s, t
<1> HIDE DEF c
<1>3. Run(to, types, c, off)
  BY <1>1, <1>2 DEF Run
<1>4. QED
  BY <1>3 DEF c

-----------------------------------------------------------------------------
(* Messages, and what lo_message_deserialise makes of bytes. *)

\* messages as records
MessageSet ==
  [types : Seq(Types), typesize : Nat, data : Seq(Nat), datasize : Nat, argv : Seq(Int) \cup {None}]

\* a message as it may be in memory at address h
Sound(h, m) ==
  /\ m \in MessageSet
  /\ Len(m.types) + 2 <= m.typesize
  /\ Len(m.data) <= m.datasize
  /\ Run(HostOrder(h \in Little), m.types, m.data, HostOffsets(h, m))
  /\ m.argv # None => m.argv = Pointers(m.types, HostOffsets(h, m))

(* The size of a valid string lies within the buffer, and beyond its NUL. *)
LEMMA ValidStringIs ==
  ASSUME NEW b \in Seq(Nat), ValidString(b) # -1
  PROVE  /\ ValidString(b) \in 0..Len(b)
         /\ StrLen(b) \in 0..Len(b) /\ StrLen(b) < ValidString(b)
<1> DEFINE n == StrLen(b)
           s == ValidString(b)
<1>1. n \in 0..Len(b) /\ Len(b) \in Nat
  BY StrLenIs
<1>2. s = Padded(n) /\ s <= Len(b)
  BY DEF ValidString
<1> HIDE DEF n, s
<1>3. n \in Nat /\ Padded(n) \in Nat /\ n < Padded(n)
  BY <1>1, PaddedIs
<1>4. s \in 0..Len(b) /\ n < s
  BY <1>1, <1>2, <1>3
<1>5. QED
  BY <1>1, <1>4 DEF n, s

(* The entries of argv are offsets, or nothing. *)
LEMMA PointersIs ==
  ASSUME NEW types, Len(types) \in Nat, NEW off, \A i \in 1..Len(types) + 1 : off[i] \in Nat
  PROVE  Pointers(types, off) \in Seq(Int)
<1> DEFINE n == Len(types)
           p == [i \in 1..n |-> IF off[i + 1] = off[i] THEN Nothing ELSE off[i]]
<1>1. \A i \in 1..n : off[i] \in Nat
  OBVIOUS
<1>2. Pointers(types, off) = p
  BY DEF Pointers
<1>3. \A i \in 1..n : (IF off[i + 1] = off[i] THEN Nothing ELSE off[i]) \in Int
  BY <1>1 DEF Nothing
<1>4. n \in Nat
  OBVIOUS
<1> HIDE DEF n
<1>5. p \in Seq(Int)
  BY <1>3, <1>4
<1>6. QED
  BY <1>2, <1>5

(* The types of a run are those that liblo knows. *)
LEMMA RunTypes ==
  ASSUME NEW order, NEW types \in Seq(Nat), NEW data, NEW off, Run(order, types, data, off)
  PROVE  types \in Seq(Types)
<1>1. \A i \in 1..Len(types) : types[i] \in Types
  BY DEF Run, Holds
<1>2. types = [i \in 1..Len(types) |-> types[i]] /\ Len(types) \in Nat
  OBVIOUS
<1> DEFINE n == Len(types)
<1> HIDE DEF n
<1>3. [i \in 1..n |-> types[i]] \in Seq(Types)
  BY <1>1, <1>2 DEF n
<1>4. QED
  BY <1>2, <1>3 DEF n

(* A host swaps between its own order and the network's. *)
LEMMA OrdersAre ==
  ASSUME NEW little \in BOOLEAN
  PROVE  HostOrder(little) \in Orders /\ Wire \in Orders
         /\ Swaps(little, Wire, HostOrder(little)) /\ Swaps(little, HostOrder(little), Wire)
  BY DEF HostOrder, Orders, Swaps

(* Offsets is the function of its values. *)
LEMMA OffsetsIsFunction ==
  ASSUME NEW types, NEW data, NEW order
  PROVE  Offsets(types, data, order)
           = [i \in DOMAIN Offsets(types, data, order) |-> Offsets(types, data, order)[i]]
  BY DEF Offsets

(* What lo_message_deserialise makes of data that it took is a run of      *)
(* arguments in memory, at the offsets that were validated before          *)
(* anything was swapped.                                                   *)
LEMMA FromWire ==
  ASSUME NEW little \in BOOLEAN, NEW types \in Seq(Nat), NEW data \in Seq(Nat), NEW off,
         off = Offsets(types, data, Wire), EndsWith(off, types, data)
  PROVE  /\ types \in Seq(Types)
         /\ Swap(little, types, data, off) \in Seq(Nat)
         /\ Len(Swap(little, types, data, off)) = Len(data)
         /\ Offsets(types, Swap(little, types, data, off), HostOrder(little)) = off
         /\ Run(HostOrder(little), types, Swap(little, types, data, off), off)
         /\ Pointers(types, off) \in Seq(Int)
<1> DEFINE c == Swap(little, types, data, off)
<1>0. Len(types) \in Nat
  OBVIOUS
<1>1. Run(Wire, types, data, off)
  BY <1>0, ValidRun DEF EndsWith
<1>2. off = [i \in DOMAIN off |-> off[i]]
  BY OffsetsIsFunction
<1>3. types \in Seq(Types)
  BY <1>1, RunTypes
<1>4. c \in Seq(Nat) /\ Len(c) = Len(data)
  BY <1>0, <1>1, SwapIsBytes
<1>5. Run(HostOrder(little), types, c, off)
  <2>1. HostOrder(little) # Wire
    BY DEF HostOrder, Wire
  <2>2. QED
    BY <1>0, <1>1, <2>1, OrdersAre, SwapRun
<1>6. Offsets(types, c, HostOrder(little)) = off
  <2> HIDE DEF c
  <2>1. HostOrder(little) \in Orders
    BY <1>0, OrdersAre
  <2>2. QED
    BY <1>0, <1>2, <1>4, <1>5, <2>1, RunIsOffsets
<1>7. Pointers(types, off) \in Seq(Int)
  <2>1. \A i \in 1..Len(types) + 1 : off[i] \in Nat
    BY <1>1 DEF Run
  <2>2. QED
    BY <1>0, <2>1, PointersIs
<1>8. QED
  BY <1>3, <1>4, <1>5, <1>6, <1>7

\* what the parts of a received message are
PathLen(b) == ValidString(b)
AfterPath(b) == From(b, ValidString(b))
TagsLen(b) == ValidString(AfterPath(b))
TagsOf(b) == SubSeq(AfterPath(b), 1, StrLen(AfterPath(b)))
DataOf(b) == From(AfterPath(b), TagsLen(b))

\* lo_message_deserialise takes b
Accepted(b) ==
  /\ PathLen(b) # -1 /\ Len(AfterPath(b)) # 0 /\ TagsLen(b) # -1
  /\ TagsOf(b) # << >> /\ Head(TagsOf(b)) = Comma
  /\ EndsWith(Offsets(Tail(TagsOf(b)), DataOf(b), Wire), Tail(TagsOf(b)), DataOf(b))

(* lo_message_deserialise gives a message if it takes the bytes, and None  *)
(* otherwise.                                                              *)
LEMMA AcceptedIs ==
  ASSUME NEW h, NEW b
  PROVE  /\ ~ Accepted(b) => Deserialise(h, b) = None
         /\ Accepted(b) =>
              Deserialise(h, b) =
                [types |-> Tail(TagsOf(b)), typesize |-> TagsLen(b),
                 data |-> Swap(h \in Little, Tail(TagsOf(b)), DataOf(b),
                               Offsets(Tail(TagsOf(b)), DataOf(b), Wire)),
                 datasize |-> Len(DataOf(b)),
                 argv |-> IF Tail(TagsOf(b)) = << >> THEN None
                          ELSE Pointers(Tail(TagsOf(b)), Offsets(Tail(TagsOf(b)), DataOf(b), Wire))]
  BY DEF Accepted, Deserialise, PathLen, AfterPath, TagsLen, TagsOf, DataOf

(* The path, the types and the data of a message that was taken make up    *)
(* all of it, and the block that the types are copied to has room for      *)
(* them.                                                                   *)
LEMMA PartsAre ==
  ASSUME NEW b \in Seq(Nat), Accepted(b)
  PROVE  /\ PathLen(b) \in 0..Len(b)
         /\ AfterPath(b) \in Seq(Nat) /\ Len(b) = PathLen(b) + Len(AfterPath(b))
         /\ TagsLen(b) \in 0..Len(AfterPath(b))
         /\ DataOf(b) \in Seq(Nat) /\ Len(AfterPath(b)) = TagsLen(b) + Len(DataOf(b))
         /\ TagsOf(b) \in Seq(Nat) /\ Tail(TagsOf(b)) \in Seq(Nat) /\ Len(Tail(TagsOf(b))) \in Nat
         /\ TagsLen(b) \in Nat /\ Len(Tail(TagsOf(b))) + 2 <= TagsLen(b)
<1> DEFINE p == PathLen(b)
           rest == AfterPath(b)
           q == TagsLen(b)
           data == DataOf(b)
           tags == TagsOf(b)
<1>1. p # -1 /\ q # -1 /\ tags # << >>
  BY DEF Accepted
<1>2. p \in 0..Len(b)
  BY <1>1, ValidStringIs DEF PathLen
<1>3. Rest(rest, b, p)
  BY <1>2, FromIs DEF PathLen, AfterPath
<1> HIDE DEF p
<1>4. rest \in Seq(Nat) /\ Len(b) = p + Len(rest)
  BY <1>3 DEF Rest
<1>5. q \in 0..Len(rest) /\ StrLen(rest) \in 0..Len(rest) /\ StrLen(rest) < q
  BY <1>1, <1>4, ValidStringIs DEF TagsLen
<1>6. Rest(data, rest, q)
  BY <1>4, <1>5, FromIs DEF TagsLen, DataOf
<1> HIDE DEF q, rest, data
<1>7. data \in Seq(Nat) /\ Len(rest) = q + Len(data)
  BY <1>6 DEF Rest
<1>8. tags \in Seq(Nat) /\ Len(tags) = StrLen(rest)
  <2> DEFINE n == StrLen(rest)
  <2>1. n \in 0..Len(rest) /\ Len(rest) \in Nat
    BY <1>4, <1>5
  <2>2. tags = SubSeq(rest, 1, n)
    BY DEF TagsOf, rest
  <2> HIDE DEF n
  <2>3. \A i \in 1..n : rest[i] \in Nat
    <3> SUFFICES ASSUME NEW i \in 1..n PROVE rest[i] \in Nat
      OBVIOUS
    <3>1. i \in 1..Len(rest)
      BY <2>1
    <3>2. QED
      BY <1>4, <3>1, ElementOfSeq
  <2>4. n \in Int
    BY <2>1
  <2>5. SubSeq(rest, 1, n) \in Seq(Nat) /\ Len(SubSeq(rest, 1, n)) = IF 1 <= n THEN n - 1 + 1 ELSE 0
    BY <2>3, <2>4, SubSeqProperties
  <2>6. Len(SubSeq(rest, 1, n)) = n
    BY <2>1, <2>5
  <2>7. QED
    BY <2>2, <2>5, <2>6 DEF n
<1> HIDE DEF tags
<1>9. Tail(tags) \in Seq(Nat) /\ Len(Tail(tags)) = Len(tags) - 1
  BY <1>1, <1>8, HeadTailProperties
<1>10. Len(Tail(tags)) \in Nat /\ q \in Nat /\ Len(Tail(tags)) + 2 <= q
  <2> DEFINE k == Len(Tail(tags))
             n == StrLen(rest)
             w == Len(rest)
  <2>1. k = n - 1 /\ k \in Nat /\ q \in 0..w /\ n \in 0..w /\ n < q /\ w \in Nat
    BY <1>4, <1>5, <1>8, <1>9
  <2> HIDE DEF k, n, w
  <2>2. k \in Nat /\ q \in Nat /\ k + 2 <= q
    BY <2>1
  <2>3. QED
    BY <2>2 DEF k
<1>11. QED
  BY <1>2, <1>4, <1>5, <1>7, <1>8, <1>9, <1>10 DEF p, q, rest, data, tags

\* a receiver takes every argument of m
Fit(h, m) ==
  \A i \in 1..Len(m.types) :
    Receivable(HostOrder(h \in Little), m.types[i], m.data, HostOffsets(h, m)[i])

(* No blob of a message that was taken is longer than may be received. *)
LEMMA WireFits ==
  ASSUME NEW little \in BOOLEAN, NEW types, Len(types) \in Nat, NEW data \in Seq(Nat), NEW off,
         Run(Wire, types, data, off), NEW i \in 1..Len(types)
  PROVE  Receivable(HostOrder(little), types[i], Swap(little, types, data, off), off[i])
<1> DEFINE c == Swap(little, types, data, off)
           v == off[i]
           s == off[i + 1] - v
<1>1. SUFFICES ASSUME types[i] = LO_BLOB
               PROVE  WordAt(HostOrder(little), c, v) <= LO_MAX_MSG_SIZE
  BY DEF Receivable
<1>2. i \in 1..Len(types) + 1
  OBVIOUS
<1>3. v \in Nat /\ Holds(Wire, LO_BLOB, data, v, s)
  BY <1>1, <1>2 DEF Run
<1>4. WordAt(Wire, data, v) <= LO_MAX_MSG_SIZE
  BY <1>3 DEF Holds, BlobAt
<1>5. Swapped(LO_BLOB) = 4
  BY <1>3, SwappedFits
<1>6. TurnedAt(little, c, data, v, 4, s)
  BY <1>1, <1>5, SwapArg
<1> HIDE DEF c, v, s
<1>7. \A k \in 1..4 : c[v + k] = IF little THEN data[v + (5 - k)] ELSE data[v + k]
  BY <1>6 DEF TurnedAt
<1>8. WordAt(HostOrder(little), c, v) = WordAt(Wire, data, v)
  BY <1>3, <1>7, OrdersAre, WordTurned
<1>9. QED
  BY <1>4, <1>8

(* A message that was taken is a sound one, and can be received again. *)
LEMMA ArrivesSound ==
  ASSUME NEW h, NEW b \in Seq(Nat), Accepted(b)
  PROVE  Sound(h, Deserialise(h, b)) /\ Fit(h, Deserialise(h, b))
<1> DEFINE types == Tail(TagsOf(b))
           data == DataOf(b)
           off == Offsets(types, data, Wire)
           c == Swap(h \in Little, types, data, off)
           m == Deserialise(h, b)
<1>1. m = [types |-> types, typesize |-> TagsLen(b), data |-> c, datasize |-> Len(data),
           argv |-> IF types = << >> THEN None ELSE Pointers(types, off)]
  BY AcceptedIs
<1>2. /\ types \in Seq(Nat) /\ data \in Seq(Nat) /\ TagsLen(b) \in Nat
         /\ Len(types) + 2 <= TagsLen(b)
      /\ Len(types) \in Nat
  BY PartsAre
<1>3. EndsWith(off, types, data)
  BY DEF Accepted
<1>11. off = Offsets(types, data, Wire)
  OBVIOUS
<1> HIDE DEF types, data, off, m, c
<1>4. /\ types \in Seq(Types) /\ c \in Seq(Nat) /\ Len(c) = Len(data)
      /\ Offsets(types, c, HostOrder(h \in Little)) = off
      /\ Run(HostOrder(h \in Little), types, c, off)
      /\ Pointers(types, off) \in Seq(Int)
  <2>1. /\ types \in Seq(Nat) /\ data \in Seq(Nat) /\ off = Offsets(types, data, Wire)
        /\ EndsWith(off, types, data)
    BY <1>2, <1>3, <1>11
  <2> DEFINE little == h \in Little
  <2>2. little \in BOOLEAN /\ c = Swap(little, types, data, off)
    BY DEF c
  <2> HIDE DEF little
  <2>3. /\ types \in Seq(Types) /\ c \in Seq(Nat) /\ Len(c) = Len(data)
        /\ Offsets(types, c, HostOrder(little)) = off
        /\ Run(HostOrder(little), types, c, off)
        /\ Pointers(types, off) \in Seq(Int)
    BY <2>1, <2>2, FromWire
  <2>4. QED
    BY <2>3 DEF little
<1>5. Len(data) \in Nat
  BY <1>2
<1>6. m \in MessageSet
  BY <1>1, <1>2, <1>4, <1>5 DEF MessageSet
<1>7. HostOffsets(h, m) = off
  BY <1>1, <1>4 DEF HostOffsets
<1>8. Sound(h, m)
  BY <1>1, <1>2, <1>4, <1>5, <1>6, <1>7 DEF Sound
<1>9. Fit(h, m)
  <2> DEFINE little == h \in Little
  <2>1. Run(Wire, types, data, off)
    BY <1>2, <1>3, <1>11, ValidRun DEF EndsWith
  <2>2. little \in BOOLEAN
    OBVIOUS
  <2>3. c = Swap(little, types, data, off)
    BY DEF c
  <2> HIDE DEF little
  <2>4. \A i \in 1..Len(types) : Receivable(HostOrder(little), types[i], c, off[i])
    BY <1>2, <2>1, <2>2, <2>3, WireFits
  <2>5. m.types = types /\ m.data = c
    BY <1>1
  <2>6. QED
    BY <1>7, <2>4, <2>5 DEF Fit, little
<1>10. QED
  BY <1>8, <1>9 DEF m

-----------------------------------------------------------------------------
(* Copies, and longer runs. *)

\* c has at j the s bytes that b has at i
Copied(c, j, b, i, s) == \A k \in 1..s : c[j + k] = b[i + k]

(* Zeros that were copied are zeros. *)
LEMMA NulsCopied ==
  ASSUME NEW b, NEW c, NEW i, NEW j, NEW n \in Nat, NEW s, Copied(c, j, b, i, s), Nuls(b, i, n, s)
  PROVE  Nuls(c, j, n, s)
<1>1. \A k \in n + 1..s : k \in 1..s
  OBVIOUS
<1>2. QED
  BY <1>1 DEF Copied, Nuls

(* Bytes that are not zero, copied, are not. *)
LEMMA NoNulCopied ==
  ASSUME NEW b, NEW c, NEW i, NEW j, NEW n \in Nat, NEW s \in Nat, n <= s,
         Copied(c, j, b, i, s), NoNul(b, i, n)
  PROVE  NoNul(c, j, n)
<1>1. \A k \in 1..n : k \in 1..s
  OBVIOUS
<1>2. QED
  BY <1>1 DEF Copied, NoNul

(* An argument that was copied is an argument. *)
LEMMA HoldsCopied ==
  ASSUME NEW order, NEW t, NEW b, NEW i \in Nat, NEW s, Holds(order, t, b, i, s),
         NEW c, NEW j \in Nat, j + s <= Len(c), Copied(c, j, b, i, s)
  PROVE  Holds(order, t, c, j, s)
<1>1. s \in Nat
  BY DEF Holds
<1>2. t \in Strings => StringAt(c, j, s)
  <2> SUFFICES ASSUME t \in Strings PROVE StringAt(c, j, s)
    OBVIOUS
  <2>1. PICK n \in Nat : s = Padded(n) /\ NoNul(b, i, n) /\ Nuls(b, i, n, s)
    BY DEF Holds, StringAt
  <2>2. n <= s
    BY <1>1, <2>1, PaddedIs
  <2>3. NoNul(c, j, n) /\ Nuls(c, j, n, s)
    BY <1>1, <2>1, <2>2, NoNulCopied, NulsCopied
  <2>4. QED
    BY <2>1, <2>3 DEF StringAt
<1>3. t = LO_BLOB => BlobAt(order, c, j, s)
  <2> SUFFICES ASSUME t = LO_BLOB PROVE BlobAt(order, c, j, s)
    OBVIOUS
  <2>1. BlobAt(order, b, i, s)
    BY DEF Holds
  <2>2. s >= 4
    BY <2>1 DEF BlobAt
  <2>3. 1 \in 1..s /\ 2 \in 1..s /\ 3 \in 1..s /\ 4 \in 1..s
    BY <1>1, <2>2
  <2>4. c[j + 1] = b[i + 1] /\ c[j + 2] = b[i + 2] /\ c[j + 3] = b[i + 3] /\ c[j + 4] = b[i + 4]
    BY <2>3 DEF Copied
  <2>5. WordAt(order, c, j) = WordAt(order, b, i)
    BY <2>4, WordMoves
  <2> DEFINE n == WordAt(order, b, i)
  <2>6. /\ n \in Nat /\ (order = Wire => n <= LO_MAX_MSG_SIZE) /\ s = Padded(4 + n)
        /\ Nuls(b, i, 4 + n, s)
    BY <2>1 DEF BlobAt
  <2> HIDE DEF n
  <2>7. 4 + n \in Nat
    BY <2>6
  <2>8. Nuls(c, j, 4 + n, s)
    BY <2>6, <2>7, NulsCopied
  <2>9. WordAt(order, c, j) = n
    BY <2>5 DEF n
  <2>10. QED
    BY <2>2, <2>6, <2>8, <2>9 DEF BlobAt
<1>4. QED
  BY <1>2, <1>3 DEF Holds

\* c begins with b
Begins(b, c) == Len(b) <= Len(c) /\ \A k \in 1..Len(b) : c[k] = b[k]

(* A buffer that begins with another has a copy of every part of it. *)
LEMMA BeginsCopied ==
  ASSUME NEW b, NEW c, Len(b) \in Nat, Begins(b, c), NEW i \in Nat, NEW s \in Nat, i + s <= Len(b)
  PROVE  Copied(c, i, b, i, s)
<1>1. \A k \in 1..s : i + k \in 1..Len(b)
  OBVIOUS
<1>2. QED
  BY <1>1 DEF Copied, Begins

(* An argument behind a run makes a longer run; those before it stay       *)
(* where they are.                                                         *)
LEMMA RunExtends ==
  ASSUME NEW order \in Orders, NEW types \in Seq(Types), NEW data \in Seq(Nat), NEW t \in Types,
         Run(order, types, data, Offsets(types, data, order)),
         NEW c \in Seq(Nat), Begins(data, c), Holds(order, t, c, Len(data), Len(c) - Len(data))
  PROVE  /\ Run(order, Append(types, t), c, Offsets(Append(types, t), c, order))
         /\ \A i \in 1..Len(types) + 1 :
              Offsets(Append(types, t), c, order)[i] = Offsets(types, data, order)[i]
<1> DEFINE n == Len(types)
           off == Offsets(types, data, order)
           more == Append(types, t)
           end == Len(c)
           mid == Len(data)
           f == [i \in 1..n + 2 |-> IF i <= n + 1 THEN off[i] ELSE end]
<1>1. /\ n \in Nat /\ more \in Seq(Types) /\ Len(more) = n + 1
      /\ \A i \in 1..n : more[i] = types[i]
      /\ more[n + 1] = t
  BY AppendProperties
<1>2. /\ off[1] = 0 /\ off[n + 1] = mid
      /\ \A i \in 1..n + 1 : off[i] \in 0..mid
      /\ \A i \in 1..n : off[i] <= off[i + 1]
         /\ Holds(order, types[i], data, off[i], off[i + 1] - off[i])
  BY DEF Run
<1>3. mid \in Nat /\ end \in Nat /\ mid <= end /\ Begins(data, c)
      /\ Holds(order, t, c, mid, end - mid)
  BY DEF Begins
<1>4. c \in Seq(Nat) /\ data \in Seq(Nat) /\ Len(data) = mid /\ Len(c) = end
  OBVIOUS
<1> HIDE DEF n, off, more, mid, end
<1>5. /\ f[1] = 0 /\ f[n + 2] = end /\ DOMAIN f = 1..n + 2
      /\ \A i \in 1..n + 1 : f[i] = off[i]
      /\ f = [i \in DOMAIN f |-> f[i]]
  BY <1>1, <1>2
<1> HIDE DEF f
<1>6. \A i \in 1..n + 2 : f[i] \in 0..end
  <2> SUFFICES ASSUME NEW i \in 1..n + 2 PROVE f[i] \in 0..end
    OBVIOUS
  <2>1. CASE i = n + 2
    BY <1>3, <1>5, <2>1
  <2>2. CASE i # n + 2
    <3>1. i \in 1..n + 1
      BY <1>1, <2>2
    <3>2. f[i] \in 0..mid
      BY <1>2, <1>5, <3>1
    <3>3. QED
      BY <1>3, <3>2
  <2>3. QED
    BY <2>1, <2>2
<1>7. ASSUME NEW i \in 1..n + 1
      PROVE  f[i] <= f[i + 1] /\ Holds(order, more[i], c, f[i], f[i + 1] - f[i])
  <2>1. CASE i = n + 1
    <3>1. f[i] = mid /\ f[i + 1] = end /\ more[i] = t
      BY <1>1, <1>2, <1>5, <2>1
    <3>2. QED
      BY <1>3, <3>1
  <2>2. CASE i # n + 1
    <3>1. i \in 1..n /\ i \in 1..n + 1 /\ i + 1 \in 1..n + 1
      BY <1>1, <2>2
    <3> DEFINE v == off[i]
               u == off[i + 1]
    <3>2. v <= u /\ v \in 0..mid /\ u \in 0..mid /\ Holds(order, types[i], data, v, u - v)
      BY <1>2, <3>1
    <3>3. f[i] = v /\ f[i + 1] = u /\ more[i] = types[i]
      BY <1>1, <1>5, <3>1
    <3> HIDE DEF v, u
    <3>4. v \in Nat /\ u - v \in Nat /\ v + (u - v) <= mid /\ v + (u - v) <= end
      BY <1>3, <3>2
    <3>5. Copied(c, v, data, v, u - v)
      BY <1>3, <1>4, <3>4, BeginsCopied
    <3>6. Holds(order, types[i], c, v, u - v)
      BY <1>4, <3>2, <3>4, <3>5, HoldsCopied
    <3>7. QED
      BY <3>2, <3>3, <3>6
  <2>3. QED
    BY <2>1, <2>2
<1>8. Run(order, more, c, f)
  <2>1. Len(more) + 1 = n + 2
    BY <1>1
  <2>2. QED
    BY <1>1, <1>4, <1>5, <1>6, <1>7, <2>1 DEF Run
<1>9. Len(more) \in Nat
  BY <1>1
<1>10. Offsets(more, c, order) = f
  BY <1>4, <1>5, <1>8, <1>9, RunIsOffsets
<1>11. QED
  BY <1>5, <1>8, <1>10 DEF more, n, off

(* An argument has one size. *)
LEMMA HoldsOnly ==
  ASSUME NEW order \in Orders, NEW t, NEW d \in Seq(Nat), NEW data \in Seq(Nat), Begins(d, data),
         NEW v \in Nat, v <= Len(d), NEW s, NEW r,
         Holds(order, t, d, v, s), Holds(order, t, data, v, r)
  PROVE  s = r
<1>1. s \in Nat /\ v + s <= Len(d) /\ Len(d) \in Nat /\ Len(d) <= Len(data) /\ Len(data) \in Nat
  BY DEF Holds, Begins
<1>2. Copied(data, v, d, v, s) /\ v + s <= Len(data) /\ v \in 0..Len(data)
  BY <1>1, BeginsCopied
<1>3. Holds(order, t, data, v, s)
  BY <1>2, HoldsCopied
<1>4. SizeIn(order, t, From(data, v)) = s
  BY <1>2, <1>3, HoldsSize
<1>5. SizeIn(order, t, From(data, v)) = r
  BY <1>2, HoldsSize
<1>6. QED
  BY <1>4, <1>5

(* A run has one length: of two buffers, one beginning with the other,     *)
(* that have runs of the same types, neither is longer.                    *)
LEMMA RunsAgree ==
  ASSUME NEW order \in Orders, NEW types, Len(types) \in Nat, NEW d \in Seq(Nat),
         NEW data \in Seq(Nat), Begins(d, data), NEW f, NEW g,
         Run(order, types, d, f), Run(order, types, data, g)
  PROVE  Len(d) = Len(data)
<1> DEFINE n == Len(types)
           T == {k \in 0..n : f[k + 1] = g[k + 1]}
<1>1. /\ f[1] = 0 /\ f[n + 1] = Len(d)
      /\ \A i \in 1..n + 1 : f[i] \in 0..Len(d)
      /\ \A i \in 1..n : f[i] <= f[i + 1] /\ Holds(order, types[i], d, f[i], f[i + 1] - f[i])
  BY DEF Run
<1>2. /\ g[1] = 0 /\ g[n + 1] = Len(data)
      /\ \A i \in 1..n + 1 : g[i] \in 0..Len(data)
      /\ \A i \in 1..n : g[i] <= g[i + 1] /\ Holds(order, types[i], data, g[i], g[i + 1] - g[i])
  BY DEF Run
<1>3. n \in Nat /\ Len(d) \in Nat /\ Len(data) \in Nat
  OBVIOUS
<1>4. 0 \in T
  BY <1>1, <1>2, <1>3
<1>5. ASSUME NEW k \in 0..n - 1, k \in T PROVE k + 1 \in T
  <2> DEFINE i == k + 1
             v == f[i]
             s == f[i + 1] - v
             r == g[i + 1] - v
             t == types[i]
  <2>1. i \in 1..n /\ i \in 1..n + 1 /\ i + 1 \in 1..n + 1 /\ i \in 0..n
    BY <1>3
  <2>2. g[i] = v
    BY <1>5
  <2>3. v \in Nat /\ v <= Len(d) /\ Holds(order, t, d, v, s) /\ f[i + 1] \in Nat
    BY <1>1, <1>3, <2>1
  <2>4. Holds(order, t, data, v, r) /\ g[i + 1] \in Nat
    BY <1>2, <1>3, <2>1, <2>2
  <2>5. s = r
    <3> HIDE DEF v, s, r, t
    <3>1. QED
      BY <2>3, <2>4, HoldsOnly
  <2>6. f[i + 1] = g[i + 1]
    BY <2>3, <2>4, <2>5
  <2>7. QED
    BY <2>1, <2>6
<1> HIDE DEF T
<1>6. Inductive(T, n)
  BY <1>4, <1>5 DEF Inductive
<1>7. n \in T
  BY <1>3, <1>6, AllNumbers
<1>8. f[n + 1] = g[n + 1]
  BY <1>7 DEF T
<1>9. QED
  BY <1>1, <1>2, <1>8

-----------------------------------------------------------------------------
(* What the functions of lo_lowlevel.h put into a message. *)

(* Zeros are as many as asked for. *)
LEMMA ZerosIs ==
  ASSUME NEW n \in Nat
  PROVE  Zeros(n) \in Seq(Nat) /\ Len(Zeros(n)) = n /\ \A k \in 1..n : Zeros(n)[k] = 0
<1> DEFINE z == [i \in 1..n |-> 0]
<1>1. z \in Seq(Nat) /\ Len(z) = n /\ \A k \in 1..n : z[k] = 0
  OBVIOUS
<1>2. Zeros(n) = z
  BY DEF Zeros
<1>3. QED
  BY <1>1, <1>2

\* c is b and then, up to s bytes, zeros
PaddedTo(c, b, s) ==
  /\ c \in Seq(Nat) /\ Len(c) = s
  /\ \A k \in 1..Len(b) : c[k] = b[k]
  /\ \A k \in Len(b) + 1..s : c[k] = 0

(* A buffer filled up with zeros. *)
LEMMA PaddedOut ==
  ASSUME NEW b \in Seq(Nat), NEW s \in Nat, Len(b) <= s
  PROVE  PaddedTo(b \o Zeros(s - Len(b)), b, s)
<1> DEFINE n == Len(b)
           z == Zeros(s - n)
           c == b \o z
<1>1. n \in Nat /\ n <= s /\ s - n \in Nat
  OBVIOUS
<1>2. z \in Seq(Nat) /\ Len(z) = s - n /\ \A k \in 1..s - n : z[k] = 0
  BY <1>1, ZerosIs
<1> HIDE DEF z
<1>3. /\ c \in Seq(Nat) /\ Len(c) = n + Len(z)
      /\ \A i \in 1..n + Len(z) : c[i] = IF i <= n THEN b[i] ELSE z[i - n]
  BY <1>2, ConcatProperties
<1> HIDE DEF n, c
<1>4. Len(c) = s
  BY <1>1, <1>2, <1>3
<1>5. \A k \in 1..n : c[k] = b[k]
  BY <1>1, <1>2, <1>3
<1>6. \A k \in n + 1..s : c[k] = 0
  <2> SUFFICES ASSUME NEW k \in n + 1..s PROVE c[k] = 0
    OBVIOUS
  <2>1. k \in 1..n + Len(z) /\ ~ (k <= n) /\ k - n \in 1..s - n
    BY <1>1, <1>2
  <2>2. QED
    BY <1>2, <1>3, <2>1
<1>7. QED
  BY <1>3, <1>4, <1>5, <1>6 DEF PaddedTo, c, z, n

(* A string is filled up to a multiple of four, with its NUL. *)
LEMMA CStrIs ==
  ASSUME NEW v \in Seq(Nat)
  PROVE  PaddedTo(CStr(v), v, Padded(Len(v))) /\ Padded(Len(v)) \in Nat /\ Len(v) < Padded(Len(v))
<1>1. Padded(Len(v)) \in Nat /\ Len(v) < Padded(Len(v)) /\ Len(v) \in Nat
  BY PaddedIs
<1>2. QED
  BY <1>1, PaddedOut DEF CStr

\* a string as C has it
NulFree(v) == \A i \in 1..Len(v) : v[i] # 0

(* A C string is a string argument. *)
LEMMA HoldsString ==
  ASSUME NEW order, NEW t \in Strings, NEW v \in Seq(Nat), NulFree(v)
  PROVE  CStr(v) \in Seq(Nat) /\ Holds(order, t, CStr(v), 0, Len(CStr(v)))
<1> DEFINE n == Len(v)
           s == Padded(n)
           c == CStr(v)
<1>1. PaddedTo(c, v, s) /\ s \in Nat /\ n < s /\ n \in Nat
  BY CStrIs
<1> HIDE DEF c, s
<1>2. c \in Seq(Nat) /\ Len(c) = s
  BY <1>1 DEF PaddedTo
<1>3. NoNul(c, 0, n) /\ Nuls(c, 0, n, s)
  <2>1. \A k \in 1..n : c[k] # 0
    BY <1>1 DEF PaddedTo, NulFree
  <2>2. \A k \in n + 1..s : c[k] = 0
    BY <1>1 DEF PaddedTo
  <2>3. QED
    BY <1>1, <2>1, <2>2, AtHead
<1>4. StringAt(c, 0, s)
  BY <1>1, <1>3 DEF StringAt, s
<1>5. t \in Types /\ t \notin NoData \cup FourBytes \cup EightBytes \cup {LO_BLOB}
  BY Kinds DEF Types
<1>6. QED
  BY <1>1, <1>2, <1>4, <1>5 DEF Holds, c

(* Four or eight bytes are a number. *)
LEMMA HoldsNumber ==
  ASSUME NEW order, NEW t, NEW c \in Seq(Nat),
         \/ t \in FourBytes /\ Len(c) = 4
         \/ t \in EightBytes /\ Len(c) = 8
         \/ t \in NoData /\ Len(c) = 0
  PROVE  Holds(order, t, c, 0, Len(c))
<1>1. t \in Types /\ t \notin Strings /\ t # LO_BLOB
  BY Kinds DEF Types
<1>2. CASE t \in FourBytes /\ Len(c) = 4
  BY <1>1, <1>2, Kinds DEF Holds
<1>3. CASE t \in EightBytes /\ Len(c) = 8
  BY <1>1, <1>3, Kinds DEF Holds
<1>4. CASE t \in NoData /\ Len(c) = 0
  BY <1>1, <1>4, Kinds DEF Holds
<1>5. QED
  BY <1>2, <1>3, <1>4

(* A number in memory has as many bytes as on the wire. *)
LEMMA InMemoryIs ==
  ASSUME NEW little, NEW t, NEW v \in Seq(Nat), t = LO_TIMETAG => Len(v) = 8
  PROVE  InMemory(little, t, v) \in Seq(Nat) /\ Len(InMemory(little, t, v)) = Len(v)
<1>1. CASE ~ little
  BY <1>1 DEF InMemory
<1>2. CASE little /\ t # LO_TIMETAG
  BY <1>2, ReversedIs DEF InMemory
<1>3. CASE little /\ t = LO_TIMETAG
  <2> DEFINE x == SubSeq(v, 1, 4)
             y == SubSeq(v, 5, 8)
             p == Reversed(x)
             q == Reversed(y)
  <2>1. \A k \in 1..8 : v[k] \in Nat
    <3> SUFFICES ASSUME NEW k \in 1..8 PROVE v[k] \in Nat
      OBVIOUS
    <3>1. k \in 1..Len(v)
      BY <1>3
    <3>2. QED
      BY <3>1, ElementOfSeq
  <2>2. x \in Seq(Nat) /\ Len(x) = IF 1 <= 4 THEN 4 - 1 + 1 ELSE 0
    <3>1. \A k \in 1..4 : k \in 1..8
      OBVIOUS
    <3>2. \A k \in 1..4 : v[k] \in Nat
      BY <2>1, <3>1
    <3>3. QED
      BY <3>2, SubSeqProperties
  <2>3. y \in Seq(Nat) /\ Len(y) = IF 5 <= 8 THEN 8 - 5 + 1 ELSE 0
    <3>1. \A k \in 5..8 : v[k] \in Nat
      BY <2>1
    <3>2. QED
      BY <3>1, SubSeqProperties
  <2> HIDE DEF x, y
  <2>4. p \in Seq(Nat) /\ Len(p) = 4 /\ q \in Seq(Nat) /\ Len(q) = 4
    BY <2>2, <2>3, ReversedWord
  <2> HIDE DEF p, q
  <2>5. p \o q \in Seq(Nat) /\ Len(p \o q) = Len(p) + Len(q)
    BY <2>4, ConcatProperties
  <2>6. InMemory(little, t, v) = p \o q
    BY <1>3 DEF InMemory, p, q, x, y
  <2> DEFINE r == p \o q
  <2>7. r \in Seq(Nat) /\ Len(r) = 8
    BY <2>4, <2>5
  <2>8. Len(v) = 8 /\ InMemory(little, t, v) = r
    BY <1>3, <2>6
  <2> HIDE DEF r
  <2>9. QED
    BY <2>7, <2>8
<1>4. QED
  BY <1>1, <1>2, <1>3

(* A number from its quotient and remainder. *)
LEMMA DivMod ==
  ASSUME NEW n \in Nat
  PROVE  n \div 256 \in Nat /\ n % 256 \in Nat
         /\ ((0 * 256 + 0) * 256 + n \div 256) * 256 + (n % 256) = n
<1> DEFINE p == n \div 256
           q == n % 256
<1>1. p \in Int /\ q \in 0..255 /\ n = 256 * p + q
  OBVIOUS
<1> HIDE DEF p, q
<1>2. p \in Nat /\ q \in Nat /\ ((0 * 256 + 0) * 256 + p) * 256 + q = n
  BY <1>1
<1>3. QED
  BY <1>2 DEF p, q

(* A size is written into four bytes. *)
LEMMA WordIsFour ==
  ASSUME NEW n \in Nat
  PROVE  /\ Word(n) \in Seq(Nat) /\ Len(Word(n)) = 4
         /\ Word(n)[1] = 0 /\ Word(n)[2] = 0 /\ Word(n)[3] = n \div 256 /\ Word(n)[4] = n % 256
<1>1. n \div 256 \in Nat /\ n % 256 \in Nat
  BY DivMod
<1> DEFINE p == n \div 256
           q == n % 256
<1>2. Word(n) = <<0, 0, p, q>>
  BY DEF Word
<1>3. p \in Nat /\ q \in Nat
  BY <1>1
<1> HIDE DEF p, q
<1>4. <<0, 0, p, q>> \in Seq(Nat) /\ Len(<<0, 0, p, q>>) = 4
  BY <1>3
<1>5. <<0, 0, p, q>>[1] = 0 /\ <<0, 0, p, q>>[2] = 0 /\ <<0, 0, p, q>>[3] = p
      /\ <<0, 0, p, q>>[4] = q
  OBVIOUS
<1>6. QED
  BY <1>2, <1>4, <1>5 DEF p, q

(* A blob's size is read as it was written, whatever the order of the      *)
(* host.                                                                   *)
LEMMA SizeWord ==
  ASSUME NEW little \in BOOLEAN, NEW n \in Nat
  PROVE  /\ Swap32(little, Word(n)) \in Seq(Nat) /\ Len(Swap32(little, Word(n))) = 4
         /\ WordAt(HostOrder(little), Swap32(little, Word(n)), 0) = n
<1> DEFINE w == Word(n)
           r == Swap32(little, w)
<1>1. w \in Seq(Nat) /\ Len(w) = 4
  BY WordIsFour
<1>2. w[1] = 0 /\ w[2] = 0 /\ w[3] = n \div 256 /\ w[4] = n % 256
  BY WordIsFour
<1>3. ((w[1] * 256 + w[2]) * 256 + w[3]) * 256 + w[4] = n
  BY <1>2, DivMod
<1> HIDE DEF w
<1>4. r \in Seq(Nat) /\ Len(r) = 4
  BY <1>1, Swap32Is
<1>5. CASE little
  <2>1. r = Reversed(w)
    BY <1>5 DEF Swap32
  <2>2. \A k \in 1..4 : r[k] = w[5 - k]
    BY <1>1, <2>1, ReversedWord
  <2>3. 1 \in 1..4 /\ 2 \in 1..4 /\ 3 \in 1..4 /\ 4 \in 1..4
        /\ 5 - 1 = 4 /\ 5 - 2 = 3 /\ 5 - 3 = 2 /\ 5 - 4 = 1
    OBVIOUS
  <2>4. r[1] = w[4] /\ r[2] = w[3] /\ r[3] = w[2] /\ r[4] = w[1]
    BY <2>2, <2>3
  <2>5. 0 + 1 = 1 /\ 0 + 2 = 2 /\ 0 + 3 = 3 /\ 0 + 4 = 4
    OBVIOUS
  <2> HIDE DEF r
  <2>6. LittleEndianAt(r, 0) = n
    BY <1>3, <2>4, <2>5 DEF LittleEndianAt
  <2>7. QED
    BY <1>4, <1>5, <2>6 DEF WordAt, HostOrder, r, w
<1>6. CASE ~ little
  <2>1. r = w
    BY <1>6 DEF Swap32
  <2>2. 0 + 1 = 1 /\ 0 + 2 = 2 /\ 0 + 3 = 3 /\ 0 + 4 = 4
    OBVIOUS
  <2>3. BigEndianAt(r, 0) = n
    BY <1>3, <2>1, <2>2 DEF BigEndianAt
  <2>4. HostOrder(little) # "little"
    BY <1>6 DEF HostOrder
  <2>5. QED
    BY <1>4, <2>3, <2>4 DEF WordAt, w
<1>7. QED
  BY <1>5, <1>6

(* What lo_message_add_blob copies is a blob argument. *)
LEMMA HoldsBlob ==
  ASSUME NEW h, NEW v \in Seq(Nat)
  PROVE  /\ BlobData(h, v) \in Seq(Nat)
         /\ Holds(HostOrder(h \in Little), LO_BLOB, BlobData(h, v), 0, Len(BlobData(h, v)))
         /\ WordAt(HostOrder(h \in Little), BlobData(h, v), 0) = Len(v)
<1> DEFINE little == h \in Little
           n == Len(v)
           w == Swap32(little, Word(n))
           x == w \o v
           s == Padded(4 + n)
           c == x \o Zeros(s - (4 + n))
           order == HostOrder(little)
<1>1. little \in BOOLEAN /\ n \in Nat /\ 4 + n \in Nat
  OBVIOUS
<1>2. s \in Nat /\ 4 + n < s
  BY <1>1, PaddedIs
<1>3. BlobData(h, v) = c
  <2>1. BlobData(h, v) = x \o Zeros(s - 4 - n)
    BY DEF BlobData
  <2> HIDE DEF s, n, x
  <2>2. s - 4 - n = s - (4 + n)
    BY <1>1, <1>2
  <2>3. QED
    BY <2>1, <2>2
<1> HIDE DEF little
<1>4. w \in Seq(Nat) /\ Len(w) = 4 /\ WordAt(order, w, 0) = n
  BY <1>1, SizeWord
<1> HIDE DEF w
<1>5. /\ x \in Seq(Nat) /\ Len(x) = 4 + n
      /\ \A i \in 1..4 + n : x[i] = IF i <= 4 THEN w[i] ELSE v[i - 4]
  <2>1. /\ x \in Seq(Nat) /\ Len(x) = Len(w) + Len(v)
        /\ \A i \in 1..Len(w) + Len(v) : x[i] = IF i <= Len(w) THEN w[i] ELSE v[i - Len(w)]
    BY <1>4, ConcatProperties
  <2> HIDE DEF x
  <2>2. QED
    BY <1>4, <2>1
<1> HIDE DEF x, s
<1>6. PaddedTo(c, x, s)
  <2>1. PaddedTo(x \o Zeros(s - Len(x)), x, s)
    BY <1>2, <1>5, PaddedOut
  <2>2. QED
    BY <1>5, <2>1
<1> HIDE DEF c, n
<1>7. c \in Seq(Nat) /\ Len(c) = s
  BY <1>6 DEF PaddedTo
<1>8. WordAt(order, c, 0) = n
  <2>1. \A k \in 1..4 : c[k] = w[k]
    <3> SUFFICES ASSUME NEW k \in 1..4 PROVE c[k] = w[k]
      OBVIOUS
    <3>1. k \in 1..Len(x) /\ k \in 1..4 + n /\ k <= 4
      BY <1>1, <1>5
    <3>2. c[k] = x[k]
      BY <1>6, <3>1 DEF PaddedTo
    <3>3. QED
      BY <1>5, <3>1, <3>2
  <2>2. 1 \in 1..4 /\ 2 \in 1..4 /\ 3 \in 1..4 /\ 4 \in 1..4
        /\ 0 + 1 = 1 /\ 0 + 2 = 2 /\ 0 + 3 = 3 /\ 0 + 4 = 4
    OBVIOUS
  <2>3. c[0 + 1] = w[0 + 1] /\ c[0 + 2] = w[0 + 2] /\ c[0 + 3] = w[0 + 3] /\ c[0 + 4] = w[0 + 4]
    BY <2>1, <2>2
  <2>4. QED
    BY <1>4, <2>3, WordMoves
<1>9. Nuls(c, 0, 4 + n, s)
  <2>1. \A k \in 4 + n + 1..s : c[k] = 0
    BY <1>5, <1>6 DEF PaddedTo
  <2>2. QED
    BY <1>1, <1>2, <2>1, AtHead
<1>10. order # Wire
  BY DEF HostOrder, Wire
<1>11. BlobAt(order, c, 0, s)
  <2>1. s >= 4
    BY <1>1, <1>2
  <2>2. QED
    BY <1>1, <1>8, <1>9, <1>10, <2>1 DEF BlobAt, s
<1>12. Holds(order, LO_BLOB, c, 0, Len(c))
  <2>1. LO_BLOB \in Types /\ LO_BLOB \notin NoData \cup FourBytes \cup EightBytes \cup Strings
    BY Kinds DEF Types
  <2> HIDE DEF order
  <2>2. QED
    BY <1>2, <1>7, <1>11, <2>1 DEF Holds
<1>13. QED
  BY <1>3, <1>7, <1>8, <1>12 DEF little, n

\* f doubles the room as DataRoom does
RoomTo(f, size, need) ==
  f = [n \in 0..need |-> IF n = 0 THEN IF size = 0 THEN LO_DEF_DATA_SIZE ELSE size
                         ELSE IF f[n - 1] < need THEN 2 * f[n - 1] ELSE f[n - 1]]

(* Doubling the size of the data's block gives room for what is needed. *)
LEMMA DataRoomIs ==
  ASSUME NEW size \in Nat, NEW need \in Nat
  PROVE  DataRoom(size, need) \in Nat /\ need <= DataRoom(size, need)
<1> DEFINE first == IF size = 0 THEN LO_DEF_DATA_SIZE ELSE size
           once == [r \in Nat |-> IF r < need THEN 2 * r ELSE r]
           step == [n \in 1..need |-> once]
           room == CHOOSE f : RoomTo(f, size, need)
<1>1. first \in Nat /\ first >= 1
  BY MessageAssumption
<1>2. \A n \in 1..need : step[n] \in [Nat -> Nat]
  OBVIOUS
<1>3. PICK f \in [0..need -> Nat] : Repeats(f, first, step, need)
  <2> HIDE DEF first, step
  <2>1. QED
    BY <1>1, <1>2, Repetition
<1>4. RoomTo(f, size, need)
  <2>1. \A n \in 0..need : n # 0 => n \in 1..need /\ n - 1 \in 0..need
    OBVIOUS
  <2>2. \A n \in 0..need :
          n # 0 => step[n][f[n - 1]] = IF f[n - 1] < need THEN 2 * f[n - 1] ELSE f[n - 1]
    BY <1>3, <2>1
  <2>3. \A n \in 0..need : f[n] = IF n = 0 THEN first ELSE step[n][f[n - 1]]
    <3> HIDE DEF first, step
    <3>1. QED
      BY <1>3 DEF Repeats
  <2>4. f = [n \in 0..need |-> f[n]]
    BY <1>3
  <2>5. \A n \in 0..need : f[n] = IF n = 0 THEN first ELSE
                                  IF f[n - 1] < need THEN 2 * f[n - 1] ELSE f[n - 1]
    <3> HIDE DEF first, step
    <3>1. QED
      BY <2>2, <2>3
  <2>6. f = [n \in 0..need |-> IF n = 0 THEN first ELSE
                               IF f[n - 1] < need THEN 2 * f[n - 1] ELSE f[n - 1]]
    <3> HIDE DEF first
    <3>1. QED
      BY <2>4, <2>5
  <2>7. QED
    BY <2>6 DEF RoomTo
<1>5. RoomTo(room, size, need)
  BY <1>4
<1>6. DataRoom(size, need) = room[need]
  BY DEF DataRoom, RoomTo
<1> HIDE DEF room
<1>7. room[0] = first
  BY <1>5 DEF RoomTo
<1>8. \A n \in 0..need - 1 : room[n + 1] = IF room[n] < need THEN 2 * room[n] ELSE room[n]
  <2> SUFFICES ASSUME NEW n \in 0..need - 1
               PROVE  room[n + 1] = IF room[n] < need THEN 2 * room[n] ELSE room[n]
    OBVIOUS
  <2> DEFINE j == n + 1
  <2>1. j \in 0..need /\ j # 0 /\ j - 1 = n
    OBVIOUS
  <2> HIDE DEF j
  <2>2. room[j] = IF room[j - 1] < need THEN 2 * room[j - 1] ELSE room[j - 1]
    BY <1>5, <2>1 DEF RoomTo
  <2>3. QED
    BY <2>1, <2>2 DEF j
<1> DEFINE T == {k \in 0..need : room[k] \in Nat /\ room[k] >= 1
    /\ (k <= room[k] \/ need <= room[k])}
<1>9. Inductive(T, need)
  <2>1. 0 \in T
    BY <1>1, <1>7
  <2>2. ASSUME NEW k \in 0..need - 1, k \in T PROVE k + 1 \in T
    <3> DEFINE r == room[k]
               q == room[k + 1]
    <3>1. r \in Nat /\ r >= 1 /\ (k <= r \/ need <= r)
      BY <2>2
    <3>2. q = IF r < need THEN 2 * r ELSE r
      BY <1>8
    <3> HIDE DEF q, r
    <3>3. q \in Nat /\ q >= 1 /\ (k + 1 <= q \/ need <= q) /\ k + 1 \in 0..need
      BY <3>1, <3>2
    <3>4. QED
      BY <3>3 DEF q
  <2> HIDE DEF T
  <2>3. QED
    BY <2>1, <2>2 DEF Inductive
<1>10. need \in T
  <2> HIDE DEF T
  <2>1. QED
    BY <1>9, AllNumbers
<1>11. QED
  BY <1>6, <1>10

\* an argument of a known type, as the functions of lo_lowlevel.h take it
WellFormed(a) ==
  /\ a.t \in Types /\ a.v \in Seq(Nat)
  /\ a.t \in NoData => Len(a.v) = 0
  /\ a.t \in FourBytes => Len(a.v) = 4
  /\ a.t \in EightBytes => Len(a.v) = 8
  /\ a.t \in Strings => NulFree(a.v)

(* What a function of lo_lowlevel.h puts into the data is an argument of   *)
(* its type.                                                               *)
LEMMA HoldsArg ==
  ASSUME NEW h, NEW a, WellFormed(a), a.t \notin NoData
  PROVE  /\ ArgData(h, a) \in Seq(Nat)
         /\ Holds(HostOrder(h \in Little), a.t, ArgData(h, a), 0, Len(ArgData(h, a)))
         /\ a.t = LO_BLOB => WordAt(HostOrder(h \in Little), ArgData(h, a), 0) = Len(a.v)
<1> DEFINE t == a.t
           v == a.v
           c == ArgData(h, a)
           order == HostOrder(h \in Little)
<1>1. /\ v \in Seq(Nat) /\ t \in Types
      /\ t \in FourBytes => Len(v) = 4
      /\ t \in EightBytes => Len(v) = 8
      /\ t \in Strings => NulFree(v)
  BY DEF WellFormed
<1>2. t \in FourBytes \cup EightBytes \cup Strings \cup {LO_BLOB}
  BY <1>1 DEF Types
<1>3. CASE t \in Strings
  <2>2. t # LO_BLOB /\ t \notin {LO_MIDI, LO_CHAR}
    BY <1>3, Kinds DEF FourBytes
  <2>1. c = CStr(v)
    BY <1>3, <2>2 DEF ArgData
  <2> HIDE DEF t, v, c, order
  <2>3. QED
    BY <1>1, <1>3, <2>1, <2>2, HoldsString DEF t, v, c, order
<1>4. CASE t = LO_BLOB
  <2>1. t \notin Strings /\ t \notin {LO_MIDI, LO_CHAR}
    BY <1>4, Kinds DEF FourBytes
  <2>2. c = BlobData(h, v)
    BY <1>4, <2>1 DEF ArgData
  <2>3. /\ c \in Seq(Nat) /\ Holds(order, t, c, 0, Len(c)) /\ WordAt(order, c, 0) = Len(v)
    BY <1>1, <1>4, <2>2, HoldsBlob
  <2>4. QED
    BY <2>3
<1>5. CASE t \in FourBytes \cup EightBytes
  <2>1. t \notin Strings /\ t # LO_BLOB
    BY <1>5, Kinds
  <2>2. c = v \/ c = InMemory(h \in Little, t, v)
    BY <2>1 DEF ArgData
  <2>3. t = LO_TIMETAG => Len(v) = 8
    BY <1>1 DEF EightBytes
  <2>4. c \in Seq(Nat) /\ Len(c) = Len(v)
    BY <1>1, <2>2, <2>3, InMemoryIs
  <2>5. \/ t \in FourBytes /\ Len(c) = 4
        \/ t \in EightBytes /\ Len(c) = 8
    BY <1>1, <1>5, <2>4
  <2> HIDE DEF t, c, order
  <2>6. Holds(order, t, c, 0, Len(c))
    BY <2>4, <2>5, HoldsNumber
  <2>7. QED
    BY <2>1, <2>4, <2>6 DEF t, c, order
<1>6. QED
  BY <1>2, <1>3, <1>4, <1>5

-----------------------------------------------------------------------------
(* Adding to a message. *)

\* a blob that may be received, if it is one
SmallBlob(a) == a.t = LO_BLOB => Len(a.v) <= LO_MAX_MSG_SIZE

(* There is room for one more type, and for the comma and the NUL, when    *)
(* one is added.                                                           *)
LEMMA TypeRoomIs ==
  ASSUME NEW m \in MessageSet, Len(m.types) + 2 <= m.typesize
  PROVE  TypeRoom(m) \in Nat /\ Len(m.types) + 3 <= TypeRoom(m)
<1> DEFINE n == Len(m.types)
           s == m.typesize
<1>1. n \in Nat /\ s \in Nat /\ n + 2 <= s
  BY DEF MessageSet
<1>2. TypeRoom(m) = IF n + 2 < s THEN s ELSE IF s = 0 THEN LO_DEF_TYPE_SIZE ELSE 2 * s
  BY DEF TypeRoom
<1> HIDE DEF n, s
<1>3. s # 0
  BY <1>1
<1>4. CASE n + 2 < s
  BY <1>1, <1>2, <1>4 DEF n
<1>5. CASE ~ (n + 2 < s)
  <2>1. TypeRoom(m) = 2 * s
    BY <1>2, <1>3, <1>5
  <2>2. 2 * s \in Nat /\ n + 3 <= 2 * s
    BY <1>1
  <2>3. QED
    BY <2>1, <2>2 DEF n
<1>6. QED
  BY <1>4, <1>5

\* b is data and what an argument of type t adds to it
Adds(h, t, data, b) ==
  /\ b \in Seq(Nat) /\ Begins(data, b)
  /\ Holds(HostOrder(h \in Little), t, b, Len(data), Len(b) - Len(data))

(* A message with one argument more, whose types and data have room, is    *)
(* sound.                                                                  *)
LEMMA AddedTo ==
  ASSUME NEW h, NEW m, Sound(h, m), NEW t \in Types, NEW b, Adds(h, t, m.data, b),
         NEW r \in MessageSet, r.types = Append(m.types, t), r.typesize = TypeRoom(m),
         r.data = b, Len(b) <= r.datasize, r.argv = None
  PROVE  /\ Sound(h, r)
         /\ Fit(h, m) /\ Receivable(HostOrder(h \in Little), t, b, Len(m.data)) => Fit(h, r)
<1> DEFINE types == m.types
           data == m.data
           more == Append(types, t)
           order == HostOrder(h \in Little)
           off == Offsets(types, data, order)
           new == Offsets(more, b, order)
<1>1. m \in MessageSet /\ Len(types) + 2 <= m.typesize /\ Run(order, types, data, off)
  BY DEF Sound, HostOffsets
<1>2. types \in Seq(Types) /\ data \in Seq(Nat) /\ Len(types) \in Nat /\ Len(data) \in Nat
  BY <1>1 DEF MessageSet
<1>3. TypeRoom(m) \in Nat /\ Len(types) + 3 <= TypeRoom(m)
  BY <1>1, TypeRoomIs
<1>4. b \in Seq(Nat) /\ Begins(data, b) /\ Holds(order, t, b, Len(data), Len(b) - Len(data))
  BY DEF Adds
<1>5. more \in Seq(Types) /\ Len(more) = Len(types) + 1 /\ more[Len(types) + 1] = t
      /\ \A i \in 1..Len(types) : more[i] = types[i]
  BY <1>2, AppendProperties
<1>6. order \in Orders
  BY DEF HostOrder, Orders
<1> HIDE DEF types, data, order
<1>7. Run(order, more, b, new) /\ \A i \in 1..Len(types) + 1 : new[i] = off[i]
  BY <1>1, <1>2, <1>4, <1>6, RunExtends
<1>8. r \in MessageSet /\ r.types = more
  BY DEF types
<1>9. HostOffsets(h, r) = new
  BY <1>8 DEF HostOffsets, order
<1>10. Sound(h, r)
  <2>1. Len(r.types) + 2 <= r.typesize
    BY <1>2, <1>3, <1>5, <1>8
  <2>2. Len(r.data) <= r.datasize
    OBVIOUS
  <2>3. Run(order, r.types, r.data, HostOffsets(h, r))
    BY <1>7, <1>8, <1>9
  <2>4. r.argv = None
    OBVIOUS
  <2>5. QED
    BY <1>8, <2>1, <2>2, <2>3, <2>4 DEF Sound, order
<1>11. ASSUME Fit(h, m), Receivable(order, t, b, Len(data)) PROVE Fit(h, r)
  <2>1. \A i \in 1..Len(types) : Receivable(order, types[i], data, off[i])
    BY <1>11 DEF Fit, HostOffsets, types, data, order
  <2> HIDE DEF off, new, more
  <2>2. SUFFICES ASSUME NEW i \in 1..Len(more) PROVE Receivable(order, more[i], b, new[i])
    BY <1>8, <1>9 DEF Fit, order
  <2>3. CASE i = Len(types) + 1
    <3>1. new[i] = Len(data) /\ more[i] = t
      BY <1>1, <1>2, <1>5, <1>7, <2>3 DEF Run
    <3>2. QED
      BY <1>11, <3>1
  <2>4. CASE i # Len(types) + 1
    <3> DEFINE v == off[i]
               s == off[i + 1] - off[i]
    <3>1. i \in 1..Len(types) /\ i \in 1..Len(types) + 1 /\ i + 1 \in 1..Len(types) + 1
      BY <1>2, <1>5, <2>4
    <3>2. new[i] = v /\ more[i] = types[i]
      BY <1>5, <1>7, <3>1
    <3>3. v \in Nat /\ off[i + 1] \in Nat /\ off[i + 1] <= Len(data)
          /\ Holds(order, types[i], data, v, s)
      BY <1>1, <1>2, <3>1 DEF Run
    <3>4. s \in Nat /\ v + s <= Len(data)
      BY <3>3 DEF Holds
    <3>5. Receivable(order, types[i], data, v)
      BY <2>1, <3>1
    <3> HIDE DEF v, s
    <3>6. Copied(b, v, data, v, s)
      BY <1>2, <1>4, <3>3, <3>4, BeginsCopied
    <3>7. types[i] = LO_BLOB => WordAt(order, b, v) = WordAt(order, data, v)
      <4> SUFFICES ASSUME types[i] = LO_BLOB PROVE WordAt(order, b, v) = WordAt(order, data, v)
        OBVIOUS
      <4>1. s >= 4
        BY <3>3 DEF Holds, BlobAt
      <4>2. 1 \in 1..s /\ 2 \in 1..s /\ 3 \in 1..s /\ 4 \in 1..s
        BY <3>4, <4>1
      <4>3. b[v + 1] = data[v + 1] /\ b[v + 2] = data[v + 2] /\ b[v + 3] = data[v + 3]
            /\ b[v + 4] = data[v + 4]
        BY <3>6, <4>2 DEF Copied
      <4>4. QED
        BY <3>3, <4>3, WordMoves
    <3>8. QED
      BY <3>2, <3>5, <3>7 DEF Receivable
  <2>5. QED
    BY <2>3, <2>4
<1>12. QED
  BY <1>10, <1>11 DEF types, data, order

(* An argument put behind the data adds it. *)
LEMMA ExtendedBy ==
  ASSUME NEW h, NEW t, NEW data \in Seq(Nat), NEW bytes \in Seq(Nat),
         Holds(HostOrder(h \in Little), t, bytes, 0, Len(bytes))
  PROVE  /\ Adds(h, t, data, data \o bytes)
         /\ Len(data \o bytes) = Len(data) + Len(bytes)
         /\ t = LO_BLOB => WordAt(HostOrder(h \in Little), data \o bytes, Len(data)) =
                           WordAt(HostOrder(h \in Little), bytes, 0)
<1> DEFINE order == HostOrder(h \in Little)
           c == data \o bytes
           n == Len(data)
           s == Len(bytes)
<1>1. n \in Nat /\ s \in Nat /\ Holds(order, t, bytes, 0, s)
  OBVIOUS
<1>2. c \in Seq(Nat) /\ Len(c) = n + s
      /\ \A i \in 1..n + s : c[i] = IF i <= n THEN data[i] ELSE bytes[i - n]
  BY ConcatProperties
<1> HIDE DEF order, c, s
<1>3. Begins(data, c)
  <2> HIDE DEF n
  <2>1. n <= n + s /\ \A k \in 1..n : k \in 1..n + s /\ k <= n
    BY <1>1
  <2>2. n <= Len(c) /\ \A k \in 1..n : c[k] = data[k]
    BY <1>2, <2>1
  <2>3. QED
    BY <2>2 DEF Begins, n
<1> HIDE DEF n
<1>4. Copied(c, n, bytes, 0, s)
  <2> SUFFICES ASSUME NEW k \in 1..s PROVE c[n + k] = bytes[0 + k]
    BY DEF Copied
  <2> DEFINE i == n + k
  <2>1. i \in 1..n + s /\ ~ (i <= n) /\ i - n = k /\ 0 + k = k
    BY <1>1
  <2> HIDE DEF i
  <2>2. c[i] = bytes[i - n]
    BY <1>2, <2>1
  <2>3. QED
    BY <2>1, <2>2 DEF i
<1>5. n + s <= Len(c)
  BY <1>1, <1>2
<1>6. Holds(order, t, c, n, s)
  BY <1>1, <1>4, <1>5, HoldsCopied
<1>7. Len(c) - n = s
  BY <1>1, <1>2
<1>8. Adds(h, t, data, c)
  BY <1>2, <1>3, <1>6, <1>7 DEF Adds, order, n
<1>9. t = LO_BLOB => WordAt(order, c, n) = WordAt(order, bytes, 0)
  <2> SUFFICES ASSUME t = LO_BLOB PROVE WordAt(order, c, n) = WordAt(order, bytes, 0)
    OBVIOUS
  <2>1. s >= 4
    BY <1>1 DEF Holds, BlobAt
  <2>2. 1 \in 1..s /\ 2 \in 1..s /\ 3 \in 1..s /\ 4 \in 1..s
    BY <1>1, <2>1
  <2>3. c[n + 1] = bytes[0 + 1] /\ c[n + 2] = bytes[0 + 2] /\ c[n + 3] = bytes[0 + 3]
        /\ c[n + 4] = bytes[0 + 4]
    BY <1>4, <2>2 DEF Copied
  <2>4. QED
    BY <1>1, <2>3, WordMoves
<1>10. QED
  BY <1>2, <1>8, <1>9 DEF order, c, n, s

(* True, false, nil and infinitum add nothing to the data. *)
LEMMA NothingAdded ==
  ASSUME NEW h, NEW t \in NoData, NEW data \in Seq(Nat)
  PROVE  Adds(h, t, data, data)
<1>1. Len(data) \in Nat /\ Len(data) - Len(data) = 0 /\ Len(data) + 0 <= Len(data)
  OBVIOUS
<1>2. t \in Types /\ t \notin FourBytes \cup EightBytes \cup Strings \cup {LO_BLOB}
  BY Kinds DEF Types
<1>3. Holds(HostOrder(h \in Little), t, data, Len(data), 0)
  BY <1>1, <1>2 DEF Holds
<1>4. QED
  BY <1>1, <1>3 DEF Adds, Begins

(* What lo_message_add_typechar changes. *)
LEMMA AddTypecharIs ==
  ASSUME NEW m \in MessageSet, NEW t \in Types, TypeRoom(m) \in Nat
  PROVE  /\ AddTypechar(m, t) \in MessageSet
         /\ AddTypechar(m, t).types = Append(m.types, t) /\ AddTypechar(m, t).typesize = TypeRoom(m)
         /\ AddTypechar(m, t).data = m.data /\ AddTypechar(m, t).datasize = m.datasize
         /\ AddTypechar(m, t).argv = None
<1> DEFINE room == TypeRoom(m)
           r == AddTypechar(m, t)
<1>1. room \in Nat
  OBVIOUS
<1>2. r = [m EXCEPT !.typesize = room, !.types = Append(@, t), !.argv = None]
  BY DEF AddTypechar
<1> HIDE DEF room, r
<1>3. Append(m.types, t) \in Seq(Types)
  BY AppendProperties DEF MessageSet
<1>4. r \in MessageSet
  BY <1>1, <1>2, <1>3 DEF MessageSet
<1>5. /\ r.types = Append(m.types, t) /\ r.typesize = room /\ r.data = m.data
      /\ r.datasize = m.datasize /\ r.argv = None
  BY <1>2 DEF MessageSet
<1>6. QED
  BY <1>4, <1>5 DEF r, room

(* What lo_message_add_data changes. *)
LEMMA AddDataIs ==
  ASSUME NEW m \in MessageSet, NEW bytes \in Seq(Nat)
  PROVE  /\ AddData(m, bytes) \in MessageSet
         /\ AddData(m, bytes).types = m.types /\ AddData(m, bytes).typesize = m.typesize
         /\ AddData(m, bytes).data = m.data \o bytes
         /\ Len(m.data \o bytes) <= AddData(m, bytes).datasize
<1> DEFINE need == Len(m.data) + Len(bytes)
           room == DataRoom(m.datasize, need)
           r == AddData(m, bytes)
           b == m.data \o bytes
<1>1. m.data \in Seq(Nat) /\ m.datasize \in Nat
  BY DEF MessageSet
<1>2. r = [m EXCEPT !.data = b, !.datasize = room, !.argv = None]
  BY DEF AddData
<1>3. b \in Seq(Nat) /\ Len(b) = need
  BY <1>1, ConcatProperties
<1>4. need \in Nat
  BY <1>1
<1> HIDE DEF need, b, r
<1>5. room \in Nat /\ need <= room
  BY <1>1, <1>4, DataRoomIs
<1> HIDE DEF room
<1>6. r \in MessageSet
  BY <1>2, <1>3, <1>5 DEF MessageSet
<1>7. r.types = m.types /\ r.typesize = m.typesize /\ r.data = b /\ r.datasize = room
  BY <1>2 DEF MessageSet
<1>8. QED
  BY <1>3, <1>5, <1>6, <1>7 DEF r, b

(* A message stays sound when an argument is added to it. *)
LEMMA AddedSound ==
  ASSUME NEW h, NEW m, Sound(h, m), NEW a, WellFormed(a)
  PROVE  Sound(h, Added(h, m, a)) /\ (Fit(h, m) /\ SmallBlob(a) => Fit(h, Added(h, m, a)))
<1> DEFINE t == a.t
           order == HostOrder(h \in Little)
           r == Added(h, m, a)
<1>1. m \in MessageSet /\ Len(m.data) <= m.datasize /\ Len(m.types) + 2 <= m.typesize
  BY DEF Sound
<1>2. t \in Types
  BY DEF WellFormed
<1>3. m.data \in Seq(Nat) /\ TypeRoom(m) \in Nat
  BY <1>1, TypeRoomIs DEF MessageSet
<1>4. CASE t \in NoData
  <2>1. r = AddTypechar(m, t)
    BY <1>4 DEF Added
  <2>2. Adds(h, t, m.data, m.data) /\ t # LO_BLOB
    BY <1>3, <1>4, NothingAdded, Kinds
  <2>3. Receivable(order, t, m.data, Len(m.data))
    BY <2>2 DEF Receivable
  <2> HIDE DEF t, r
  <2>4. /\ r \in MessageSet /\ r.types = Append(m.types, t) /\ r.typesize = TypeRoom(m)
        /\ r.data = m.data /\ r.datasize = m.datasize /\ r.argv = None
    BY <1>1, <1>2, <1>3, <2>1, AddTypecharIs
  <2>5. Len(m.data) <= r.datasize
    BY <1>1, <2>4
  <2>6. Sound(h, r) /\ (Fit(h, m) /\ Receivable(order, t, m.data, Len(m.data)) => Fit(h, r))
    BY <1>2, <2>2, <2>4, <2>5, AddedTo
  <2>7. QED
    BY <2>3, <2>6 DEF r
<1>5. CASE t \notin NoData
  <2> DEFINE bytes == ArgData(h, a)
             b == m.data \o bytes
             d == AddData(m, bytes)
  <2>1. /\ bytes \in Seq(Nat) /\ Holds(order, t, bytes, 0, Len(bytes))
        /\ t = LO_BLOB => WordAt(order, bytes, 0) = Len(a.v)
    BY <1>5, HoldsArg
  <2>2. r = AddTypechar(d, t)
    BY <1>5 DEF Added
  <2> HIDE DEF bytes, t, r
  <2>3. Adds(h, t, m.data, b)
        /\ (t = LO_BLOB => WordAt(order, b, Len(m.data)) = WordAt(order, bytes, 0))
    BY <1>3, <2>1, ExtendedBy
  <2>4. d \in MessageSet /\ d.types = m.types /\ d.typesize = m.typesize /\ d.data = b
        /\ Len(b) <= d.datasize
    BY <1>1, <2>1, AddDataIs
  <2> HIDE DEF d, b
  <2>5. TypeRoom(d) = TypeRoom(m)
    BY <2>4 DEF TypeRoom
  <2>6. /\ r \in MessageSet /\ r.types = Append(m.types, t) /\ r.typesize = TypeRoom(m)
        /\ r.data = b /\ r.datasize = d.datasize /\ r.argv = None
    BY <1>2, <1>3, <2>2, <2>4, <2>5, AddTypecharIs
  <2>7. Len(b) <= r.datasize
    BY <2>4, <2>6
  <2>8. SmallBlob(a) => Receivable(order, t, b, Len(m.data))
    BY <2>1, <2>3 DEF Receivable, SmallBlob, t
  <2>9. Sound(h, r) /\ (Fit(h, m) /\ Receivable(order, t, b, Len(m.data)) => Fit(h, r))
    BY <1>2, <2>3, <2>6, <2>7, AddedTo
  <2>10. QED
    BY <2>8, <2>9 DEF r
<1>6. QED
  BY <1>4, <1>5

\* f adds a list as AddedAll does
AllTo(f, h, m, list) ==
  f = [n \in 0..Len(list) |->
         IF n = 0 THEN m
         ELSE IF Taken(list, n) THEN Added(h, f[n - 1], list[n]) ELSE f[n - 1]]

(* What holds of a message before and after one argument holds after all   *)
(* of a list.                                                              *)
LEMMA AddedAllIn ==
  ASSUME NEW h, NEW V, NEW m \in V, NEW list, Len(list) \in Nat,
         \A i \in 1..Len(list) : Taken(list, i) => \A x \in V : Added(h, x, list[i]) \in V
  PROVE  AddedAll(h, m, list) \in V
<1> DEFINE N == Len(list)
           step == [n \in 1..N |->
                      [x \in V |-> IF Taken(list, n) THEN Added(h, x, list[n]) ELSE x]]
           all == CHOOSE f : AllTo(f, h, m, list)
<1>1. N \in Nat
  OBVIOUS
<1>2. \A n \in 1..N : step[n] \in [V -> V]
  OBVIOUS
<1>3. PICK f \in [0..N -> V] : Repeats(f, m, step, N)
  <2> HIDE DEF step, N
  <2>1. QED
    BY <1>1, <1>2, Repetition
<1>4. \A n \in 0..N : f[n] = IF n = 0 THEN m ELSE step[n][f[n - 1]]
  <2> HIDE DEF step, N
  <2>1. QED
    BY <1>3 DEF Repeats
<1>5. \A n \in 0..N : n # 0 => n \in 1..N /\ n - 1 \in 0..N
  BY <1>1
<1>6. \A n \in 0..N : n # 0 => step[n][f[n - 1]] =
        IF Taken(list, n) THEN Added(h, f[n - 1], list[n]) ELSE f[n - 1]
  BY <1>3, <1>5
<1>7. AllTo(f, h, m, list)
  <2>1. f = [n \in 0..N |-> f[n]]
    BY <1>3
  <2> HIDE DEF step
  <2>2. \A n \in 0..N : f[n] = IF n = 0 THEN m ELSE
          IF Taken(list, n) THEN Added(h, f[n - 1], list[n]) ELSE f[n - 1]
    BY <1>4, <1>6
  <2>3. QED
    BY <2>1, <2>2 DEF AllTo
<1>8. AllTo(all, h, m, list)
  BY <1>7
<1>9. AddedAll(h, m, list) = all[N]
  BY DEF AddedAll, AllTo
<1> HIDE DEF all
<1> DEFINE T == {n \in 0..N : all[n] \in V}
<1>10. \A n \in 0..N : all[n] = IF n = 0 THEN m ELSE
          IF Taken(list, n) THEN Added(h, all[n - 1], list[n]) ELSE all[n - 1]
  BY <1>8 DEF AllTo
<1>11. Inductive(T, N)
  <2>1. 0 \in T
    BY <1>1, <1>10
  <2>2. ASSUME NEW n \in 0..N - 1, n \in T PROVE n + 1 \in T
    <3> DEFINE j == n + 1
    <3>1. j \in 0..N /\ j # 0 /\ j - 1 = n /\ j \in 1..N
      BY <1>1
    <3>2. all[n] \in V
      BY <2>2
    <3> HIDE DEF j
    <3>3. all[j] = IF Taken(list, j) THEN Added(h, all[n], list[j]) ELSE all[n]
      BY <1>10, <3>1
    <3>4. all[j] \in V
      BY <3>1, <3>2, <3>3
    <3>5. QED
      BY <3>1, <3>4 DEF j
  <2> HIDE DEF T
  <2>3. QED
    BY <2>1, <2>2 DEF Inductive
<1>12. N \in T
  <2> HIDE DEF T
  <2>1. QED
    BY <1>1, <1>11, AllNumbers
<1>13. QED
  BY <1>9, <1>12

-----------------------------------------------------------------------------
(* The invariant. *)

\* the arguments are such as C can pass; the paths and flaws are bytes
GoodArguments ==
  /\ \A a \in Arguments : WellFormed(a)
  /\ \A list \in Varargs :
       Len(list) \in Nat /\ \A i \in 1..Len(list) : Taken(list, i) => WellFormed(list[i])

GoodBytes == Paths \subseteq Seq(Nat) /\ Flaws \subseteq Nat

\* the parts of the invariant
MessagesSound ==
  /\ heap \in [Handles -> MessageSet \cup {None}]
  /\ \A h \in Handles : heap[h] # None => Sound(h, heap[h])

BundleSound ==
  bundle # None =>
    /\ bundle \in [size : Nat, items : Seq([path : Paths, msg : Handles])]
    /\ Len(bundle.items) <= bundle.size /\ bundle.size >= 1

MessageInv == MessagesSound /\ BundleSound

(* Types are characters. *)
LEMMA TypesAreNumbers == Types \subseteq Nat
  BY DEF Types, NoData, FourBytes, EightBytes, Strings, LO_INT32, LO_FLOAT, LO_STRING, LO_BLOB,
         LO_INT64,
         LO_TIMETAG, LO_DOUBLE, LO_SYMBOL, LO_CHAR, LO_MIDI, LO_TRUE, LO_FALSE, LO_NIL,
         LO_INFINITUM

(* So are the types of a message. *)
LEMMA TypesAreBytes ==
  ASSUME NEW types \in Seq(Types)
  PROVE  types \in Seq(Nat)
<1> DEFINE n == Len(types)
<1>1. n \in Nat /\ types = [i \in 1..n |-> types[i]] /\ \A i \in 1..n : types[i] \in Types
  OBVIOUS
<1> HIDE DEF n
<1>2. \A i \in 1..n : types[i] \in Nat
  BY <1>1, TypesAreNumbers
<1>3. [i \in 1..n |-> types[i]] \in Seq(Nat)
  BY <1>1, <1>2
<1>4. QED
  BY <1>1, <1>3

(* The type string is a comma and the types. *)
LEMMA TagsAre ==
  ASSUME NEW types \in Seq(Types)
  PROVE  /\ <<Comma>> \o types \in Seq(Nat) /\ Len(<<Comma>> \o types) = 1 + Len(types)
         /\ (<<Comma>> \o types)[1] = Comma
         /\ \A i \in 1..Len(types) : (<<Comma>> \o types)[i + 1] = types[i]
<1> DEFINE c == <<Comma>>
           n == Len(types)
           b == c \o types
<1>1. types \in Seq(Nat) /\ n \in Nat
  BY TypesAreBytes
<1>2. c \in Seq(Nat) /\ Len(c) = 1 /\ c[1] = Comma
  BY DEF Comma
<1> HIDE DEF c
<1>3. b \in Seq(Nat) /\ Len(b) = Len(c) + Len(types)
      /\ \A i \in 1..Len(c) + Len(types) : b[i] = IF i <= Len(c) THEN c[i] ELSE types[i - Len(c)]
  BY <1>1, <1>2, ConcatProperties
<1> HIDE DEF b
<1>4. Len(b) = 1 + n /\ \A i \in 1..1 + n : b[i] = IF i <= 1 THEN c[i] ELSE types[i - 1]
  BY <1>2, <1>3
<1> HIDE DEF n
<1>5. b[1] = Comma
  <2>1. 1 \in 1..1 + n /\ 1 <= 1
    BY <1>1
  <2>2. QED
    BY <1>2, <1>4, <2>1
<1>6. ASSUME NEW i \in 1..n PROVE b[i + 1] = types[i]
  <2> DEFINE j == i + 1
  <2>1. j \in 1..1 + n /\ ~ (j <= 1) /\ j - 1 = i
    BY <1>1
  <2> HIDE DEF j
  <2>2. b[j] = types[i]
    BY <1>4, <2>1
  <2>3. QED
    BY <2>2 DEF j
<1>7. QED
  BY <1>3, <1>4, <1>5, <1>6 DEF b, c, n

(* Serialised, a message is bytes. *)
LEMMA SerialiseIs ==
  ASSUME NEW h, NEW m, Sound(h, m), NEW path \in Seq(Nat)
  PROVE  Serialise(h, m, path) \in Seq(Nat)
<1> DEFINE p == CStr(path)
           tags == <<Comma>> \o m.types
           q == CStr(tags)
           off == HostOffsets(h, m)
           r == Swap(h \in Little, m.types, m.data, off)
<1>1. m.types \in Seq(Types) /\ m.data \in Seq(Nat) /\ Len(m.types) \in Nat
      /\ Run(HostOrder(h \in Little), m.types, m.data, off)
  BY DEF Sound, MessageSet
<1>2. p \in Seq(Nat)
  BY CStrIs DEF PaddedTo
<1>3. tags \in Seq(Nat)
  BY <1>1, TagsAre
<1> HIDE DEF tags, p
<1>4. q \in Seq(Nat)
  BY <1>3, CStrIs DEF PaddedTo
<1>5. r \in Seq(Nat)
  <2> HIDE DEF off
  <2>1. QED
    BY <1>1, SwapIsBytes
<1> HIDE DEF q, r
<1>6. (p \o q) \o r \in Seq(Nat)
  BY <1>2, <1>4, <1>5, ConcatProperties
<1>7. Serialise(h, m, path) = (p \o q) \o r
  BY DEF Serialise, SizesOnWire, p, q, r, tags
<1>8. QED
  BY <1>6, <1>7

(* lo_message_new gives a sound message. *)
LEMMA NewSound ==
  ASSUME NEW h
  PROVE  Sound(h, NewMessage) /\ Fit(h, NewMessage)
<1> DEFINE e == << >>
           order == HostOrder(h \in Little)
           off == Offsets(e, e, order)
           m == NewMessage
<1>1. m = [types |-> e, typesize |-> LO_DEF_TYPE_SIZE, data |-> e, datasize |-> 0, argv |-> None]
  BY DEF NewMessage
<1>2. e \in Seq(Types) /\ e \in Seq(Nat) /\ Len(e) = 0
  OBVIOUS
<1> HIDE DEF e, m
<1>3. off[1] = 0 /\ DOMAIN off = 1..Len(e) + 1
  <2>1. Len(e) \in Nat
    BY <1>2
  <2>2. QED
    BY <2>1, OffsetsAre
<1> HIDE DEF off
<1>4. Run(order, e, e, off)
  <2>1. 1..Len(e) = {} /\ \A i \in 1..Len(e) + 1 : i = 1
    BY <1>2
  <2>2. off[Len(e) + 1] = Len(e) /\ \A i \in 1..Len(e) + 1 : off[i] \in 0..Len(e)
    BY <1>2, <1>3, <2>1
  <2>3. QED
    BY <1>3, <2>1, <2>2 DEF Run
<1>5. m \in MessageSet
  BY <1>1, <1>2, MessageAssumption DEF MessageSet
<1>6. HostOffsets(h, m) = off
  BY <1>1 DEF HostOffsets, off
<1>7. Sound(h, m)
  <2>1. Len(m.types) + 2 <= m.typesize /\ Len(m.data) <= m.datasize /\ m.argv = None
    BY <1>1, <1>2, MessageAssumption
  <2>2. Run(order, m.types, m.data, HostOffsets(h, m))
    BY <1>1, <1>4, <1>6
  <2>3. QED
    BY <1>5, <2>1, <2>2 DEF Sound
<1>8. Fit(h, m)
  BY <1>1, <1>2 DEF Fit
<1>9. QED
  BY <1>7, <1>8 DEF m

(* lo_message_get_argv gives, and keeps, where the arguments are. *)
LEMMA ArgvSound ==
  ASSUME NEW h, NEW m, Sound(h, m)
  PROVE  /\ ArgvOf(h, m) = Pointers(m.types, HostOffsets(h, m))
         /\ Sound(h, [m EXCEPT !.argv = ArgvOf(h, m)])
         /\ Fit(h, m) => Fit(h, [m EXCEPT !.argv = ArgvOf(h, m)])
<1> DEFINE off == HostOffsets(h, m)
           p == Pointers(m.types, off)
           argv == ArgvOf(h, m)
           r == [m EXCEPT !.argv = argv]
<1>1. m \in MessageSet /\ Run(HostOrder(h \in Little), m.types, m.data, off)
  BY DEF Sound
<1>2. argv = p
  BY DEF Sound, ArgvOf
<1>3. p \in Seq(Int)
  <2>1. Len(m.types) \in Nat
    BY <1>1 DEF MessageSet
  <2>2. \A i \in 1..Len(m.types) + 1 : off[i] \in Nat
    BY <1>1 DEF Run
  <2> HIDE DEF off
  <2>3. QED
    BY <2>1, <2>2, PointersIs
<1> HIDE DEF argv, p
<1>4. r \in MessageSet
  BY <1>1, <1>2, <1>3 DEF MessageSet
<1>5. /\ r.types = m.types /\ r.typesize = m.typesize /\ r.data = m.data /\ r.datasize = m.datasize
      /\ r.argv = argv
  BY <1>1 DEF MessageSet
<1> HIDE DEF r
<1>6. HostOffsets(h, r) = off
  BY <1>5 DEF HostOffsets
<1>7. Sound(h, r)
  BY <1>2, <1>4, <1>5, <1>6 DEF Sound, p
<1>8. Fit(h, m) => Fit(h, r)
  BY <1>5, <1>6 DEF Fit
<1>9. QED
  BY <1>2, <1>7, <1>8 DEF r, argv, p

\* what is assumed of a program's arguments and paths
Good == GoodArguments /\ GoodBytes

(* The messages are sound when one is set to a sound one, or freed. *)
LEMMA HeapSet ==
  ASSUME MessagesSound, NEW g \in Handles, NEW m,
         m \in MessageSet \cup {None}, m # None => Sound(g, m),
         heap' = [heap EXCEPT ![g] = m]
  PROVE  MessagesSound'
<1>1. heap' \in [Handles -> MessageSet \cup {None}]
  BY DEF MessagesSound
<1>2. \A h \in Handles : heap'[h] # None => Sound(h, heap'[h])
  BY DEF MessagesSound
<1>3. QED
  BY <1>1, <1>2 DEF MessagesSound

(* A sound message is a message. *)
LEMMA SoundIsMessage ==
  ASSUME NEW h, NEW m, Sound(h, m)
  PROVE  m \in MessageSet
  BY DEF Sound

(* A message stays sound when lo_message_add adds a list to it. *)
LEMMA AddedAllSound ==
  ASSUME Good, NEW h, NEW m, Sound(h, m), NEW list \in Varargs
  PROVE  Sound(h, AddedAll(h, m, list))
<1> DEFINE V == {x \in MessageSet : Sound(h, x)}
<1>1. m \in V
  BY SoundIsMessage
<1>2. Len(list) \in Nat /\ \A i \in 1..Len(list) : Taken(list, i) => WellFormed(list[i])
  BY DEF Good, GoodArguments
<1>3. \A i \in 1..Len(list) : Taken(list, i) => \A x \in V : Added(h, x, list[i]) \in V
  <2> SUFFICES ASSUME NEW i \in 1..Len(list), Taken(list, i), NEW x \in V
               PROVE  Added(h, x, list[i]) \in V
    OBVIOUS
  <2>1. WellFormed(list[i]) /\ Sound(h, x)
    BY <1>2
  <2>2. Sound(h, Added(h, x, list[i]))
    BY <2>1, AddedSound
  <2>3. QED
    BY <2>2, SoundIsMessage
<1> HIDE DEF V
<1>4. AddedAll(h, m, list) \in V
  BY <1>1, <1>2, <1>3, AddedAllIn
<1>5. QED
  BY <1>4 DEF V

(* The messages stay sound, and the bundle within its arrays, whatever a   *)
(* program does.                                                           *)
LEMMA MessageStep ==
  ASSUME Good, MessageInv, [Next]_vars
  PROVE  MessageInv'
<1> USE DEF MessageInv
<1>1. CASE UNCHANGED vars
  BY <1>1 DEF vars, MessagesSound, BundleSound
<1>2. ASSUME NEW h \in Handles, New(h) PROVE MessageInv'
  <2>1. Sound(h, NewMessage) /\ NewMessage \in MessageSet
    BY NewSound, SoundIsMessage
  <2>2. MessagesSound'
    BY <1>2, <2>1, HeapSet DEF New
  <2>3. QED
    BY <1>2, <2>2 DEF New, BundleSound
<1>3. ASSUME NEW h \in Handles, GetArgv(h) PROVE MessageInv'
  <2> DEFINE m == [heap[h] EXCEPT !.argv = ArgvOf(h, heap[h])]
  <2>1. Sound(h, heap[h])
    BY <1>3 DEF GetArgv, Live, MessagesSound
  <2>2. Sound(h, m)
    BY <2>1, ArgvSound
  <2>3. heap' = [heap EXCEPT ![h] = m]
    BY <1>3 DEF GetArgv
  <2> HIDE DEF m
  <2>4. MessagesSound'
    BY <2>2, <2>3, SoundIsMessage, HeapSet
  <2>5. QED
    BY <1>3, <2>4 DEF GetArgv, BundleSound
<1>4. ASSUME NEW h \in Handles, Free(h) PROVE MessageInv'
  <2>1. MessagesSound'
    BY <1>4, HeapSet DEF Free
  <2>2. QED
    BY <1>4, <2>1 DEF Free, BundleSound
<1>5. ASSUME NEW h \in Handles, NEW a \in Arguments, Add(h, a) PROVE MessageInv'
  <2>1. Sound(h, heap[h]) /\ WellFormed(a)
    BY <1>5 DEF Add, Live, MessagesSound, Good, GoodArguments
  <2>2. Sound(h, Added(h, heap[h], a))
    BY <2>1, AddedSound
  <2>3. heap' = [heap EXCEPT ![h] = Added(h, heap[h], a)]
    BY <1>5 DEF Add
  <2>4. MessagesSound'
    BY <2>2, <2>3, SoundIsMessage, HeapSet
  <2>5. QED
    BY <1>5, <2>4 DEF Add, BundleSound
<1>6. ASSUME NEW h \in Handles, NEW list \in Varargs, AddVarargs(h, list) PROVE MessageInv'
  <2>1. Sound(h, heap[h])
    BY <1>6 DEF AddVarargs, Live, MessagesSound
  <2>2. Sound(h, AddedAll(h, heap[h], list))
    BY <2>1, AddedAllSound
  <2>3. heap' = [heap EXCEPT ![h] = AddedAll(h, heap[h], list)]
    BY <1>6 DEF AddVarargs
  <2>4. MessagesSound'
    BY <2>2, <2>3, SoundIsMessage, HeapSet
  <2>5. QED
    BY <1>6, <2>4 DEF AddVarargs, BundleSound
<1>7. ASSUME NEW from \in Handles, NEW to \in Handles, NEW path \in Paths, Receive(from, to, path)
      PROVE  MessageInv'
  <2> DEFINE m == Deserialise(to, Serialise(from, heap[from], path))
  <2>1. Sound(from, heap[from]) /\ path \in Seq(Nat)
    BY <1>7 DEF Receive, Live, MessagesSound, Good, GoodBytes
  <2>2. Serialise(from, heap[from], path) \in Seq(Nat)
    BY <2>1, SerialiseIs
  <2>3. m # None => Sound(to, m)
    BY <2>2, ArrivesSound, AcceptedIs
  <2>4. heap' = [heap EXCEPT ![to] = m]
    BY <1>7 DEF Receive
  <2> HIDE DEF m
  <2>5. MessagesSound'
    BY <2>3, <2>4, SoundIsMessage, HeapSet
  <2>6. QED
    BY <1>7, <2>5 DEF Receive, BundleSound
<1>8. CASE BundleNew
  <2>1. << >> \in Seq([path : Paths, msg : Handles]) /\ Len(<< >>) = 0
    OBVIOUS
  <2>2. BundleSound'
    BY <1>8, <2>1, MessageAssumption DEF BundleNew, BundleSound
  <2>3. QED
    BY <1>8, <2>2 DEF BundleNew, MessagesSound
<1>9. CASE BundleFree
  BY <1>9 DEF BundleFree, MessagesSound, BundleSound
<1>10. CASE BundleFreeMessages
  BY <1>10 DEF BundleFreeMessages, MessagesSound, BundleSound
<1>11. ASSUME NEW h \in Handles, NEW path \in Paths, BundleAdd(h, path) PROVE MessageInv'
  <2> DEFINE item == [path |-> path, msg |-> h]
             more == Append(bundle.items, item)
             size == IF Len(bundle.items) >= bundle.size THEN 2 * bundle.size ELSE bundle.size
             S == [path : Paths, msg : Handles]
  <2>1. bundle.items \in Seq(S) /\ Len(bundle.items) <= bundle.size /\ bundle.size >= 1
        /\ bundle.size \in Nat
    BY <1>11 DEF BundleAdd, BundleSound
  <2>2. item \in S
    OBVIOUS
  <2> HIDE DEF S, item
  <2>3. more \in Seq(S) /\ Len(more) = Len(bundle.items) + 1
    BY <2>1, <2>2, AppendProperties
  <2> HIDE DEF more
  <2>4. size \in Nat /\ Len(more) <= size /\ size >= 1
    BY <2>1, <2>3
  <2> HIDE DEF size
  <2>5. bundle' = [size |-> size, items |-> more] /\ heap' = heap
    BY <1>11 DEF BundleAdd, size, more, item
  <2>6. BundleSound'
    BY <2>3, <2>4, <2>5 DEF BundleSound, S
  <2>7. QED
    BY <2>5, <2>6 DEF MessagesSound
<1>12. QED
  BY <1>1, <1>2, <1>3, <1>4, <1>5, <1>6, <1>7, <1>8, <1>9, <1>10, <1>11 DEF Next

(* There are none at first. *)
LEMMA MessageStart ==
  ASSUME Init
  PROVE  MessageInv
  BY DEF Init, MessageInv, MessagesSound, BundleSound

(* The inductive invariant: every message that a program builds, reads,    *)
(* sends and receives is sound.                                            *)
THEOREM MessagesStaySound ==
  ASSUME Good
  PROVE  Spec => []MessageInv
<1>1. Init => MessageInv
  BY MessageStart
<1>2. MessageInv /\ [Next]_vars => MessageInv'
  BY MessageStep
<1>3. QED
  BY <1>1, <1>2, PTL DEF Spec

-----------------------------------------------------------------------------
(* What follows from it. *)

(* The entries of argv point into the data. *)
LEMMA PointersInside ==
  ASSUME NEW h, NEW m, Sound(h, m), NEW i \in DOMAIN Pointers(m.types, HostOffsets(h, m))
  PROVE  Pointers(m.types, HostOffsets(h, m))[i] < Len(m.data)
<1> DEFINE off == HostOffsets(h, m)
           n == Len(m.types)
           v == off[i]
           u == off[i + 1]
           d == Len(m.data)
<1>1. n \in Nat /\ d \in Nat
  BY DEF Sound, MessageSet
<1>2. i \in 1..n /\ i \in 1..n + 1 /\ i + 1 \in 1..n + 1
  BY <1>1 DEF Pointers
<1>3. v \in 0..d /\ u \in 0..d /\ v <= u
  BY <1>2 DEF Sound, Run
<1>4. Pointers(m.types, off)[i] = IF u = v THEN Nothing ELSE v
  BY <1>2 DEF Pointers
<1> HIDE DEF u, v, d, off
<1>5. (IF u = v THEN Nothing ELSE v) < d
  BY <1>1, <1>3 DEF Nothing
<1>6. QED
  BY <1>4, <1>5 DEF off, d

(* TypeOK, for any arguments, paths and first capacities: the types, the   *)
(* data and the entries of argv lie inside the blocks that                 *)
(* lo_message_new, lo_message_add_data and lo_message_deserialise          *)
(* allocate, and the elements of a bundle in the arrays of lo_bundle_new.  *)
THEOREM PointersStayInside ==
  ASSUME Good
  PROVE  Spec => []TypeOK
<1>1. MessageInv => TypeOK
  <2> SUFFICES ASSUME MessageInv PROVE TypeOK
    OBVIOUS
  <2>1. ASSUME NEW h \in Live
        PROVE  /\ Len(heap[h].types) + 2 <= heap[h].typesize
               /\ Len(heap[h].data) <= heap[h].datasize
               /\ heap[h].argv # None =>
                    \A i \in DOMAIN heap[h].argv : heap[h].argv[i] < Len(heap[h].data)
    <3> DEFINE m == heap[h]
    <3>1. Sound(h, m)
      BY DEF Live, MessageInv, MessagesSound
    <3> HIDE DEF m
    <3>2. m.argv # None => \A i \in DOMAIN m.argv : m.argv[i] < Len(m.data)
      BY <3>1, PointersInside DEF Sound
    <3>3. Len(m.types) + 2 <= m.typesize /\ Len(m.data) <= m.datasize
      BY <3>1 DEF Sound
    <3>4. QED
      BY <3>2, <3>3 DEF m
  <2>2. bundle # None => Len(bundle.items) <= bundle.size
    BY DEF MessageInv, BundleSound
  <2>3. QED
    BY <2>1, <2>2 DEF TypeOK
<1>2. QED
  BY <1>1, MessagesStaySound, PTL

(* ArgvCurrent: lo_message_get_argv never gives pointers kept from before  *)
(* the data were reallocated, whatever was added since.                    *)
THEOREM ArgvStaysCurrent ==
  ASSUME Good
  PROVE  Spec => []ArgvCurrent
<1>1. MessageInv => ArgvCurrent
  BY ArgvSound DEF MessageInv, MessagesSound, ArgvCurrent, Live
<1>2. QED
  BY <1>1, MessagesStaySound, PTL

(* A buffer with another byte is a buffer. *)
LEMMA ByteChanged ==
  ASSUME NEW b \in Seq(Nat), NEW j \in 1..Len(b), NEW x \in Nat
  PROVE  [b EXCEPT ![j] = x] \in Seq(Nat)
  OBVIOUS

(* DamageStaysInside, for any byte changed to any other: what              *)
(* lo_message_deserialise takes, the functions that trust a message in     *)
(* host order find where it was validated in network order.                *)
THEOREM DamageIsContained ==
  ASSUME Good
  PROVE  Spec => []DamageStaysInside
<1>1. MessageInv => DamageStaysInside
  <2> SUFFICES ASSUME MessageInv, NEW h \in Live, NEW path \in Paths,
                      NEW j \in 1..Len(Serialise(h, heap[h], path)), NEW x \in Flaws,
                      Deserialise(h, [Serialise(h, heap[h], path) EXCEPT ![j] = x]) # None
               PROVE  LET m == Deserialise(h, [Serialise(h, heap[h], path) EXCEPT ![j] = x]) IN
                      /\ HostOffsets(h, m)[Len(m.types) + 1] = Len(m.data)
                      /\ m.argv # None => m.argv = Pointers(m.types, HostOffsets(h, m))
    BY DEF DamageStaysInside
  <2> DEFINE b == Serialise(h, heap[h], path)
             c == [b EXCEPT ![j] = x]
             m == Deserialise(h, c)
  <2>1. Sound(h, heap[h]) /\ path \in Seq(Nat) /\ x \in Nat
    BY DEF Live, MessageInv, MessagesSound, Good, GoodBytes
  <2>2. b \in Seq(Nat)
    BY <2>1, SerialiseIs
  <2> HIDE DEF b
  <2>3. j \in 1..Len(b) /\ m # None
    BY DEF b
  <2>7. c \in Seq(Nat)
    BY <2>1, <2>2, <2>3, ByteChanged
  <2> HIDE DEF c
  <2>4. Sound(h, m)
    BY <2>3, <2>7, ArrivesSound, AcceptedIs
  <2> HIDE DEF m
  <2>5. /\ HostOffsets(h, m)[Len(m.types) + 1] = Len(m.data)
        /\ m.argv # None => m.argv = Pointers(m.types, HostOffsets(h, m))
    BY <2>4 DEF Sound, Run
  <2>6. QED
    BY <2>5 DEF m, c, b
<1>2. QED
  BY <1>1, MessagesStaySound, PTL

-----------------------------------------------------------------------------
(* Messages cut short, or with something behind. *)

(* If one buffer begins with another, so do the rests of both. *)
LEMMA FromBegins ==
  ASSUME NEW b \in Seq(Nat), NEW c \in Seq(Nat), Begins(b, c), NEW i \in 0..Len(b)
  PROVE  Begins(From(b, i), From(c, i))
<1> DEFINE x == From(b, i)
           y == From(c, i)
<1>1. Len(b) \in Nat /\ Len(c) \in Nat /\ Len(b) <= Len(c) /\ i \in 0..Len(c) /\ i \in Nat
  BY DEF Begins
<1>2. Rest(x, b, i) /\ Rest(y, c, i)
  BY <1>1, FromIs
<1> HIDE DEF x, y
<1>3. Len(b) = i + Len(x) /\ Len(c) = i + Len(y) /\ Len(x) \in Nat /\ Len(y) \in Nat
  BY <1>2 DEF Rest
<1>4. Len(x) <= Len(y)
  BY <1>1, <1>3
<1>5. ASSUME NEW k \in 1..Len(x) PROVE y[k] = x[k]
  <2>1. k \in 1..Len(y) /\ i + k \in 1..Len(b)
    BY <1>1, <1>3, <1>4
  <2>2. y[k] = c[i + k] /\ x[k] = b[i + k]
    BY <1>2, <2>1 DEF Rest
  <2>3. c[i + k] = b[i + k]
    BY <2>1 DEF Begins
  <2>4. QED
    BY <2>2, <2>3
<1>6. QED
  BY <1>4, <1>5 DEF Begins, x, y

(* Valid strings at the heads of both are the same size. *)
LEMMA SameStart ==
  ASSUME NEW b \in Seq(Nat), NEW c \in Seq(Nat), Begins(b, c),
         ValidString(b) # -1, ValidString(c) # -1
  PROVE  StrLen(c) = StrLen(b) /\ ValidString(c) = ValidString(b)
<1> DEFINE n == StrLen(b)
<1>1. n \in 0..Len(b) /\ Ends(b, n)
  BY StrLenIs
<1>2. n < Len(b) /\ ValidString(b) = Padded(n)
  BY DEF ValidString
<1>3. ValidString(c) = Padded(StrLen(c))
  BY DEF ValidString
<1> HIDE DEF n
<1>4. Len(b) \in Nat /\ Len(c) \in Nat /\ Len(b) <= Len(c) /\ \A k \in 1..Len(b) : c[k] = b[k]
  BY DEF Begins
<1>5. n \in 0..Len(c) /\ Ends(c, n)
  <2>1. \A i \in 1..n : i \in 1..Len(b)
    BY <1>1, <1>4
  <2>2. n + 1 \in 1..Len(b) /\ n \in 0..Len(c)
    BY <1>1, <1>2, <1>4
  <2>3. QED
    BY <1>1, <1>2, <1>4, <2>1, <2>2 DEF Ends
<1>6. StrLen(c) = n
  BY <1>5, StrLenIsOnly
<1>7. QED
  BY <1>2, <1>3, <1>6 DEF n

(* And the same characters. *)
LEMMA SamePiece ==
  ASSUME NEW b \in Seq(Nat), NEW c \in Seq(Nat), Begins(b, c), NEW n \in 0..Len(b)
  PROVE  SubSeq(c, 1, n) = SubSeq(b, 1, n)
<1>1. n \in Int /\ n \in Nat /\ Len(b) \in Nat /\ Len(c) \in Nat /\ n <= Len(b) /\ Len(b) <= Len(c)
  BY DEF Begins
<1>2. \A i \in 1..n : i \in 1..Len(b) /\ i \in 1..Len(c)
  BY <1>1
<1>3. \A i \in 1..n : b[i] \in Nat /\ c[i] \in Nat /\ c[i] = b[i]
  BY <1>2, ElementOfSeq DEF Begins
<1> DEFINE x == SubSeq(b, 1, n)
           y == SubSeq(c, 1, n)
<1>4. x \in Seq(Nat) /\ Len(x) = (IF 1 <= n THEN n - 1 + 1 ELSE 0)
      /\ \A i \in 1..n - 1 + 1 : x[i] = b[1 + i - 1]
  BY <1>1, <1>3, SubSeqProperties
<1>5. y \in Seq(Nat) /\ Len(y) = (IF 1 <= n THEN n - 1 + 1 ELSE 0)
      /\ \A i \in 1..n - 1 + 1 : y[i] = c[1 + i - 1]
  BY <1>1, <1>3, SubSeqProperties
<1> HIDE DEF x, y
<1>6. Len(x) = Len(y) /\ \A i \in 1..Len(x) : i \in 1..n - 1 + 1 /\ i \in 1..n /\ 1 + i - 1 = i
  BY <1>1, <1>4, <1>5
<1>7. \A i \in 1..Len(x) : x[i] = y[i]
  BY <1>3, <1>4, <1>5, <1>6
<1>8. x = y
  BY <1>4, <1>5, <1>6, <1>7, SeqEqual
<1>9. QED
  BY <1>8 DEF x, y

(* Of two buffers that are both taken as messages, none is the beginning   *)
(* of the other.                                                           *)
LEMMA NoneIsCutShort ==
  ASSUME NEW b \in Seq(Nat), NEW c \in Seq(Nat), Begins(b, c), Accepted(b), Accepted(c)
  PROVE  Len(b) = Len(c)
<1>1. PathLen(c) = PathLen(b)
  BY SameStart DEF Accepted, PathLen
<1>2. /\ PathLen(b) \in 0..Len(b) /\ AfterPath(b) \in Seq(Nat) /\ DataOf(b) \in Seq(Nat)
      /\ Len(b) = PathLen(b) + Len(AfterPath(b))
      /\ TagsLen(b) \in 0..Len(AfterPath(b)) /\ Len(AfterPath(b)) = TagsLen(b) + Len(DataOf(b))
      /\ TagsOf(b) \in Seq(Nat) /\ Len(Tail(TagsOf(b))) \in Nat
  BY PartsAre
<1>3. /\ AfterPath(c) \in Seq(Nat) /\ DataOf(c) \in Seq(Nat)
      /\ Len(c) = PathLen(c) + Len(AfterPath(c))
      /\ Len(AfterPath(c)) = TagsLen(c) + Len(DataOf(c))
  BY PartsAre
<1>4. Begins(AfterPath(b), AfterPath(c))
  BY <1>1, <1>2, FromBegins DEF AfterPath, PathLen
<1>5. StrLen(AfterPath(c)) = StrLen(AfterPath(b)) /\ TagsLen(c) = TagsLen(b)
  BY <1>2, <1>3, <1>4, SameStart DEF Accepted, TagsLen
<1>6. TagsOf(c) = TagsOf(b)
  <2>1. StrLen(AfterPath(b)) \in 0..Len(AfterPath(b))
    BY <1>2, StrLenIs
  <2>2. SubSeq(AfterPath(c), 1, StrLen(AfterPath(b)))
          = SubSeq(AfterPath(b), 1, StrLen(AfterPath(b)))
    BY <1>2, <1>3, <1>4, <2>1, SamePiece
  <2>3. QED
    BY <1>5, <2>2 DEF TagsOf
<1>7. Begins(DataOf(b), DataOf(c))
  BY <1>2, <1>3, <1>4, <1>5, FromBegins DEF DataOf
<1> DEFINE types == Tail(TagsOf(b))
<1>8. Run(Wire, types, DataOf(b), Offsets(types, DataOf(b), Wire))
  BY <1>2, ValidRun DEF Accepted, EndsWith
<1>9. Run(Wire, types, DataOf(c), Offsets(types, DataOf(c), Wire))
  BY <1>2, <1>3, <1>6, ValidRun DEF Accepted, EndsWith
<1>10. Len(types) \in Nat /\ Wire \in Orders
  BY <1>2 DEF Orders
<1> HIDE DEF types
<1>11. Len(DataOf(b)) = Len(DataOf(c))
  BY <1>2, <1>3, <1>7, <1>8, <1>9, <1>10, RunsAgree
<1>12. QED
  BY <1>1, <1>2, <1>3, <1>5, <1>11

-----------------------------------------------------------------------------
(* Whole messages. *)

(* What a buffer with another behind it has. *)
LEMMA JoinIs ==
  ASSUME NEW p \in Seq(Nat), NEW r \in Seq(Nat)
  PROVE  /\ p \o r \in Seq(Nat) /\ Len(p \o r) = Len(p) + Len(r) /\ Begins(p, p \o r)
         /\ \A k \in 1..Len(r) : (p \o r)[Len(p) + k] = r[k]
<1> DEFINE n == Len(p)
           s == Len(r)
           c == p \o r
<1>1. n \in Nat /\ s \in Nat
  OBVIOUS
<1>2. c \in Seq(Nat) /\ Len(c) = n + s
      /\ \A i \in 1..n + s : c[i] = IF i <= n THEN p[i] ELSE r[i - n]
  BY ConcatProperties
<1> HIDE DEF n, s, c
<1>3. \A k \in 1..n : c[k] = p[k]
  BY <1>1, <1>2
<1>4. ASSUME NEW k \in 1..s PROVE c[n + k] = r[k]
  <2> DEFINE i == n + k
  <2>1. i \in 1..n + s /\ ~ (i <= n) /\ i - n = k
    BY <1>1
  <2> HIDE DEF i
  <2>2. c[i] = r[k]
    BY <1>2, <2>1
  <2>3. QED
    BY <2>2 DEF i
<1>5. n <= Len(c)
  BY <1>1, <1>2
<1>6. Begins(p, c)
  BY <1>3, <1>5 DEF Begins, n
<1>7. QED
  BY <1>2, <1>4, <1>6 DEF n, s, c

(* Behind the first, there is the second. *)
LEMMA FromJoin ==
  ASSUME NEW p \in Seq(Nat), NEW r \in Seq(Nat)
  PROVE  From(p \o r, Len(p)) = r
<1> DEFINE b == p \o r
           n == Len(p)
           c == From(b, n)
<1>1. b \in Seq(Nat) /\ Len(b) = n + Len(r) /\ \A k \in 1..Len(r) : b[n + k] = r[k]
  BY JoinIs
<1>2. n \in Nat /\ Len(r) \in Nat
  OBVIOUS
<1> HIDE DEF b, n
<1>3. n \in 0..Len(b)
  BY <1>1, <1>2
<1>4. Rest(c, b, n)
  BY <1>1, <1>3, FromIs
<1> HIDE DEF c
<1>5. c \in Seq(Nat) /\ Len(b) = n + Len(c) /\ Len(c) \in Nat
      /\ \A k \in 1..Len(c) : c[k] = b[n + k]
  BY <1>4 DEF Rest
<1>6. Len(c) = Len(r)
  BY <1>1, <1>2, <1>5
<1>7. \A k \in 1..Len(c) : c[k] = r[k]
  BY <1>1, <1>5, <1>6
<1>8. c = r
  BY <1>5, <1>6, <1>7, SeqEqual
<1>9. QED
  BY <1>8 DEF c, b, n

(* A string at the head of a buffer is found by lo_validate_string, and    *)
(* ends where it does.                                                     *)
LEMMA StringFirst ==
  ASSUME NEW v \in Seq(Nat), NulFree(v), NEW r \in Seq(Nat)
  PROVE  /\ CStr(v) \o r \in Seq(Nat)
         /\ StrLen(CStr(v) \o r) = Len(v)
         /\ ValidString(CStr(v) \o r) = Len(CStr(v))
         /\ SubSeq(CStr(v) \o r, 1, Len(v)) = v
<1> DEFINE p == CStr(v)
           b == p \o r
           n == Len(v)
           s == Padded(n)
<1>1. PaddedTo(p, v, s) /\ s \in Nat /\ n < s /\ n \in Nat
  BY CStrIs
<1> HIDE DEF p, s
<1>2. p \in Seq(Nat) /\ Len(p) = s /\ (\A k \in 1..n : p[k] = v[k]) /\ \A k \in n + 1..s : p[k] = 0
  BY <1>1 DEF PaddedTo
<1>3. b \in Seq(Nat) /\ Len(b) = s + Len(r) /\ Begins(p, b) /\ Len(b) \in Nat /\ Len(r) \in Nat
  <2>1. b \in Seq(Nat) /\ Len(b) = Len(p) + Len(r) /\ Begins(p, b)
    BY <1>2, JoinIs
  <2> HIDE DEF b
  <2>2. QED
    BY <1>2, <2>1
<1> HIDE DEF b
<1>4. \A k \in 1..s : b[k] = p[k]
  BY <1>2, <1>3 DEF Begins
<1>5. \A k \in 1..n : k \in 1..s /\ b[k] = v[k] /\ b[k] # 0
  BY <1>1, <1>2, <1>4 DEF NulFree
<1>6. \A k \in n + 1..s : b[k] = 0
  <2>1. \A k \in n + 1..s : k \in 1..s
    BY <1>1
  <2>2. QED
    BY <1>2, <1>4, <2>1
<1> HIDE DEF n
<1>7. n < Len(b) /\ n \in 0..Len(b) /\ s <= Len(b)
  BY <1>1, <1>3
<1>8. b[n + 1] = 0
  <2>1. n + 1 \in n + 1..s
    BY <1>1
  <2>2. QED
    BY <1>6, <2>1
<1>9. Ends(b, n)
  BY <1>5, <1>8 DEF Ends
<1>10. StrLen(b) = n
  BY <1>3, <1>7, <1>9, StrLenIsOnly
<1>11. ValidString(b) = s
  BY <1>6, <1>7, <1>10 DEF ValidString, s
<1>12. Begins(v, b)
  <2>1. Len(v) <= Len(b)
    BY <1>7 DEF n
  <2>2. QED
    BY <1>5, <2>1 DEF Begins, n
<1>13. SubSeq(b, 1, n) = SubSeq(v, 1, n)
  <2>1. Len(v) \in 0..Len(v)
    OBVIOUS
  <2>2. QED
    BY <1>3, <1>12, <2>1, SamePiece DEF n
<1>14. SubSeq(v, 1, n) = v
  BY SubSeqFull DEF n
<1>15. QED
  BY <1>2, <1>3, <1>10, <1>11, <1>13, <1>14 DEF p, b, n

(* No type is NUL, so that the type string is a C string. *)
LEMMA TagsNulFree ==
  ASSUME NEW types \in Seq(Types)
  PROVE  NulFree(<<Comma>> \o types)
<1> DEFINE b == <<Comma>> \o types
           n == Len(types)
<1>1. b \in Seq(Nat) /\ Len(b) = 1 + n /\ b[1] = Comma /\ \A i \in 1..n : b[i + 1] = types[i]
  BY TagsAre
<1>2. n \in Nat /\ \A i \in 1..n : types[i] \in Types
  OBVIOUS
<1>3. 0 \notin Types
  BY DEF Types, NoData, FourBytes, EightBytes, Strings, LO_INT32, LO_FLOAT, LO_STRING, LO_BLOB,
         LO_INT64,
         LO_TIMETAG, LO_DOUBLE, LO_SYMBOL, LO_CHAR, LO_MIDI, LO_TRUE, LO_FALSE, LO_NIL,
         LO_INFINITUM
<1> HIDE DEF b, n
<1>4. ASSUME NEW i \in 1..Len(b) PROVE b[i] # 0
  <2>1. CASE i = 1
    BY <1>1, <2>1 DEF Comma
  <2>2. CASE i # 1
    <3> DEFINE j == i - 1
    <3>1. j \in 1..n /\ j + 1 = i
      BY <1>1, <1>2, <2>2
    <3> HIDE DEF j
    <3>2. b[i] = types[j] /\ types[j] \in Types
      BY <1>1, <1>2, <3>1
    <3>3. QED
      BY <1>3, <3>2
  <2>3. QED
    BY <2>1, <2>2
<1>5. QED
  BY <1>4 DEF NulFree, b

(* The types are the type string without its comma. *)
LEMMA TagsTail ==
  ASSUME NEW types \in Seq(Types)
  PROVE  Head(<<Comma>> \o types) = Comma /\ Tail(<<Comma>> \o types) = types
         /\ <<Comma>> \o types # << >>
<1> DEFINE b == <<Comma>> \o types
           n == Len(types)
<1>1. b \in Seq(Nat) /\ Len(b) = 1 + n /\ b[1] = Comma /\ \A i \in 1..n : b[i + 1] = types[i]
  BY TagsAre
<1>2. n \in Nat /\ types \in Seq(Nat)
  BY TypesAreBytes
<1> HIDE DEF b
<1>3. b # << >>
  BY <1>1, <1>2
<1>4. Head(b) = Comma
  BY <1>1, <1>3
<1>5. Tail(b) \in Seq(Nat) /\ Len(Tail(b)) = Len(b) - 1
      /\ \A i \in 1..Len(Tail(b)) : Tail(b)[i] = b[i + 1]
  BY <1>1, <1>3, HeadTailProperties
<1> DEFINE t == Tail(b)
<1> HIDE DEF t
<1>6. t \in Seq(Nat) /\ Len(t) = n /\ \A i \in 1..n : t[i] = types[i]
  <2> HIDE DEF n
  <2>1. Len(t) = n
    BY <1>1, <1>2, <1>5 DEF t
  <2>2. QED
    BY <1>1, <1>5, <2>1 DEF t
<1>7. t = types
  BY <1>2, <1>6, SeqEqual
<1>8. QED
  BY <1>3, <1>4, <1>7 DEF t, b

(* A whole message is taken, on either kind of host: its types are those   *)
(* sent, and its data those that were swapped.                             *)
LEMMA WholeAccepted ==
  ASSUME NEW h, NEW m, Sound(h, m), Fit(h, m), NEW path \in Seq(Nat), NulFree(path)
  PROVE  /\ Serialise(h, m, path) \in Seq(Nat)
         /\ Accepted(Serialise(h, m, path))
         /\ Tail(TagsOf(Serialise(h, m, path))) = m.types
         /\ DataOf(Serialise(h, m, path)) = Swap(h \in Little, m.types, m.data, HostOffsets(h, m))
         /\ Offsets(m.types, DataOf(Serialise(h, m, path)), Wire) = HostOffsets(h, m)
<1> DEFINE types == m.types
           data == m.data
           tags == <<Comma>> \o types
           p == CStr(path)
           q == CStr(tags)
           off == HostOffsets(h, m)
           little == h \in Little
           order == HostOrder(little)
           r == Swap(little, types, data, off)
           b == Serialise(h, m, path)
<1>1. types \in Seq(Types) /\ data \in Seq(Nat) /\ Len(types) \in Nat
      /\ Run(order, types, data, off)
  BY DEF Sound, MessageSet
<1>2. tags \in Seq(Nat) /\ NulFree(tags) /\ Head(tags) = Comma /\ Tail(tags) = types /\ tags # << >>
      /\ Len(tags) = 1 + Len(types)
  BY <1>1, TagsAre, TagsNulFree, TagsTail
<1>3. little \in BOOLEAN /\ order \in Orders /\ Wire \in Orders /\ Swaps(little, order, Wire)
  <2>1. little \in BOOLEAN
    OBVIOUS
  <2> HIDE DEF little
  <2>2. QED
    BY <2>1, OrdersAre
<1>4. \A i \in 1..Len(types) : Receivable(order, types[i], data, off[i])
  BY DEF Fit
<1>5. off = [i \in DOMAIN off |-> off[i]]
  BY DEF HostOffsets, Offsets
<1>6. b = (p \o q) \o r
  BY DEF Serialise, SizesOnWire
<1> HIDE DEF tags, types, data, off, little, order, b
<1>7. r \in Seq(Nat)
  BY <1>1, SwapIsBytes
<1>8. Run(Wire, types, r, off)
  BY <1>1, <1>3, <1>4, SwapRun
<1> HIDE DEF r
<1>9. Offsets(types, r, Wire) = off
  BY <1>1, <1>3, <1>5, <1>7, <1>8, RunIsOffsets
<1>10. p \in Seq(Nat) /\ q \in Seq(Nat)
  BY <1>2, CStrIs DEF PaddedTo
<1> DEFINE rest == q \o r
<1>11. b = p \o rest /\ rest \in Seq(Nat)
  <2> HIDE DEF p, q
  <2>1. QED
    BY <1>6, <1>7, <1>10, ConcatAssociative, ConcatProperties
<1>12. StrLen(b) = Len(path) /\ PathLen(b) = Len(p) /\ b \in Seq(Nat)
  <2> HIDE DEF rest
  <2>1. QED
    BY <1>11, StringFirst DEF PathLen
<1>13. AfterPath(b) = rest
  <2> HIDE DEF rest, p
  <2>1. QED
    BY <1>10, <1>11, <1>12, FromJoin DEF AfterPath, PathLen
<1>14. StrLen(rest) = Len(tags) /\ TagsLen(b) = Len(q) /\ TagsOf(b) = tags
  <2>1. StrLen(rest) = Len(tags) /\ ValidString(rest) = Len(q) /\ SubSeq(rest, 1, Len(tags)) = tags
    BY <1>2, <1>7, StringFirst
  <2> HIDE DEF rest, q
  <2>2. QED
    BY <1>13, <2>1 DEF TagsLen, TagsOf
<1>15. DataOf(b) = r
  <2> HIDE DEF q
  <2>1. From(rest, Len(q)) = r
    BY <1>7, <1>10, FromJoin
  <2> HIDE DEF rest
  <2>2. QED
    BY <1>13, <1>14, <2>1 DEF DataOf
<1>16. Accepted(b)
  <2>1. PathLen(b) # -1 /\ TagsLen(b) # -1
    <3> HIDE DEF p, q
    <3>1. Len(p) \in Nat /\ Len(q) \in Nat
      BY <1>10
    <3>2. QED
      BY <1>12, <1>14, <3>1
  <2>2. Len(AfterPath(b)) # 0
    <3>1. StrLen(rest) \in 0..Len(rest)
      BY <1>11, StrLenIs
    <3> HIDE DEF rest
    <3>2. QED
      BY <1>1, <1>2, <1>11, <1>13, <1>14, <3>1
  <2>3. EndsWith(Offsets(types, r, Wire), types, r)
    BY <1>8, <1>9 DEF EndsWith, Run
  <2>4. QED
    BY <1>2, <1>14, <1>15, <2>1, <2>2, <2>3 DEF Accepted
<1>17. QED
  BY <1>2, <1>9, <1>12, <1>14, <1>15, <1>16 DEF types, data, off, b, r, little

-----------------------------------------------------------------------------
(* Only whole messages are accepted. *)

\* what is assumed besides for messages to be received: no blob is too long, paths are C strings
SmallBlobs ==
  /\ \A a \in Arguments : SmallBlob(a)
  /\ \A list \in Varargs : \A i \in 1..Len(list) : SmallBlob(list[i])

GoodPaths == \A path \in Paths : NulFree(path)

NoneIsNoMessage == None \notin MessageSet

MessagesFit == \A h \in Handles : heap[h] # None => Fit(h, heap[h])

(* The messages can be received when one is set to a message that can be,  *)
(* or freed.                                                               *)
LEMMA HeapFit ==
  ASSUME MessagesSound, MessagesFit, NEW g \in Handles, NEW m, m # None => Fit(g, m),
         heap' = [heap EXCEPT ![g] = m]
  PROVE  MessagesFit'
<1>1. \A h \in Handles : heap'[h] # None => Fit(h, heap'[h])
  BY DEF MessagesSound, MessagesFit
<1>2. QED
  BY <1>1 DEF MessagesFit

(* A list of arguments that can be received is added. *)
LEMMA AddedAllFit ==
  ASSUME Good, SmallBlobs, NEW h, NEW m, Sound(h, m), Fit(h, m), NEW list \in Varargs
  PROVE  Fit(h, AddedAll(h, m, list))
<1> DEFINE V == {x \in MessageSet : Sound(h, x) /\ Fit(h, x)}
<1>1. m \in V
  BY SoundIsMessage
<1>2. Len(list) \in Nat /\ \A i \in 1..Len(list) :
        (Taken(list, i) => WellFormed(list[i])) /\ SmallBlob(list[i])
  BY DEF Good, GoodArguments, SmallBlobs
<1>3. \A i \in 1..Len(list) : Taken(list, i) => \A x \in V : Added(h, x, list[i]) \in V
  <2> SUFFICES ASSUME NEW i \in 1..Len(list), Taken(list, i), NEW x \in V
               PROVE  Added(h, x, list[i]) \in V
    OBVIOUS
  <2>1. WellFormed(list[i]) /\ SmallBlob(list[i]) /\ Sound(h, x) /\ Fit(h, x)
    BY <1>2
  <2>2. Sound(h, Added(h, x, list[i])) /\ Fit(h, Added(h, x, list[i]))
    BY <2>1, AddedSound
  <2>3. QED
    BY <2>2, SoundIsMessage
<1> HIDE DEF V
<1>4. AddedAll(h, m, list) \in V
  BY <1>1, <1>2, <1>3, AddedAllIn
<1>5. QED
  BY <1>4 DEF V

(* As long as no blob that is added is too long, every message can be      *)
(* received.                                                               *)
LEMMA FitStep ==
  ASSUME Good, SmallBlobs, MessageInv, MessagesFit, [Next]_vars
  PROVE  MessagesFit'
<1> USE DEF MessageInv
<1>0. MessagesSound
  OBVIOUS
<1>1. ASSUME heap' = heap PROVE MessagesFit'
  BY <1>1 DEF MessagesFit
<1>2. ASSUME NEW h \in Handles, New(h) PROVE MessagesFit'
  BY <1>2, NewSound, HeapFit DEF New
<1>3. ASSUME NEW h \in Handles, GetArgv(h) PROVE MessagesFit'
  <2> DEFINE m == [heap[h] EXCEPT !.argv = ArgvOf(h, heap[h])]
  <2>1. Sound(h, heap[h]) /\ Fit(h, heap[h])
    BY <1>3 DEF GetArgv, Live, MessagesSound, MessagesFit
  <2>2. Fit(h, m)
    BY <2>1, ArgvSound
  <2>3. heap' = [heap EXCEPT ![h] = m]
    BY <1>3 DEF GetArgv
  <2> HIDE DEF m
  <2>4. QED
    BY <2>2, <2>3, HeapFit
<1>4. ASSUME NEW h \in Handles, Free(h) PROVE MessagesFit'
  BY <1>4, HeapFit DEF Free
<1>5. ASSUME NEW h \in Handles, NEW a \in Arguments, Add(h, a) PROVE MessagesFit'
  <2>1. Sound(h, heap[h]) /\ Fit(h, heap[h]) /\ WellFormed(a) /\ SmallBlob(a)
    BY <1>5 DEF Add, Live, MessagesSound, MessagesFit, Good, GoodArguments, SmallBlobs
  <2>2. Fit(h, Added(h, heap[h], a))
    BY <2>1, AddedSound
  <2>3. heap' = [heap EXCEPT ![h] = Added(h, heap[h], a)]
    BY <1>5 DEF Add
  <2>4. QED
    BY <2>2, <2>3, HeapFit
<1>6. ASSUME NEW h \in Handles, NEW list \in Varargs, AddVarargs(h, list) PROVE MessagesFit'
  <2>1. Sound(h, heap[h]) /\ Fit(h, heap[h])
    BY <1>6 DEF AddVarargs, Live, MessagesSound, MessagesFit
  <2>2. Fit(h, AddedAll(h, heap[h], list))
    BY <2>1, AddedAllFit
  <2>3. heap' = [heap EXCEPT ![h] = AddedAll(h, heap[h], list)]
    BY <1>6 DEF AddVarargs
  <2>4. QED
    BY <2>2, <2>3, HeapFit
<1>7. ASSUME NEW from \in Handles, NEW to \in Handles, NEW path \in Paths, Receive(from, to, path)
      PROVE  MessagesFit'
  <2> DEFINE m == Deserialise(to, Serialise(from, heap[from], path))
  <2>1. Sound(from, heap[from]) /\ path \in Seq(Nat)
    BY <1>7 DEF Receive, Live, MessagesSound, Good, GoodBytes
  <2>2. Serialise(from, heap[from], path) \in Seq(Nat)
    BY <2>1, SerialiseIs
  <2>3. m # None => Fit(to, m)
    BY <2>2, ArrivesSound, AcceptedIs
  <2>4. heap' = [heap EXCEPT ![to] = m]
    BY <1>7 DEF Receive
  <2> HIDE DEF m
  <2>5. QED
    BY <2>3, <2>4, HeapFit
<1>8. ASSUME BundleFreeMessages PROVE MessagesFit'
  <2>1. \A h \in Handles : heap'[h] = None \/ heap'[h] = heap[h]
    BY <1>8 DEF BundleFreeMessages
  <2>2. QED
    BY <2>1 DEF MessagesFit
<1>9. QED
  BY <1>1, <1>2, <1>3, <1>4, <1>5, <1>6, <1>7, <1>8
     DEF Next, vars, BundleNew, BundleFree, BundleAdd

(* A message that is taken is not taken when it is cut short, or followed  *)
(* by a word.                                                              *)
LEMMA CutOrLonger ==
  ASSUME NEW h, NEW b \in Seq(Nat), Accepted(b)
  PROVE  /\ \A n \in 0..Len(b) - 1 : Deserialise(h, SubSeq(b, 1, n)) = None
         /\ Deserialise(h, b \o Zeros(4)) = None
<1>0. Len(b) \in Nat
  OBVIOUS
<1>1. ASSUME NEW n \in 0..Len(b) - 1 PROVE Deserialise(h, SubSeq(b, 1, n)) = None
  <2> DEFINE a == SubSeq(b, 1, n)
  <2>1. n \in Int /\ n \in Nat /\ \A i \in 1..n : i \in 1..Len(b)
    BY <1>0
  <2>2. \A i \in 1..n : b[i] \in Nat
    BY <2>1, ElementOfSeq
  <2>3. a \in Seq(Nat) /\ Len(a) = (IF 1 <= n THEN n - 1 + 1 ELSE 0)
        /\ \A i \in 1..n - 1 + 1 : a[i] = b[1 + i - 1]
    BY <2>1, <2>2, SubSeqProperties
  <2> HIDE DEF a
  <2>4. Len(a) = n /\ Len(a) <= Len(b) /\ Len(a) # Len(b)
    BY <1>0, <2>1, <2>3
  <2>5. \A i \in 1..Len(a) : i \in 1..n - 1 + 1 /\ 1 + i - 1 = i
    BY <2>1, <2>4
  <2>6. Begins(a, b)
    BY <2>3, <2>4, <2>5 DEF Begins
  <2>7. ~ Accepted(a)
    BY <2>3, <2>4, <2>6, NoneIsCutShort
  <2>8. QED
    BY <2>7, AcceptedIs DEF a
<1>2. Deserialise(h, b \o Zeros(4)) = None
  <2> DEFINE z == Zeros(4)
             c == b \o z
  <2>1. z \in Seq(Nat) /\ Len(z) = 4
    BY ZerosIs
  <2> HIDE DEF z
  <2>2. c \in Seq(Nat) /\ Len(c) = Len(b) + 4 /\ Begins(b, c)
    <3>1. c \in Seq(Nat) /\ Len(c) = Len(b) + Len(z) /\ Begins(b, c)
      BY <2>1, JoinIs
    <3> HIDE DEF c
    <3>2. QED
      BY <2>1, <3>1
  <2> HIDE DEF c
  <2>3. ~ Accepted(c)
    BY <1>0, <2>2, NoneIsCutShort
  <2>4. QED
    BY <2>3, AcceptedIs DEF c, z
<1>3. QED
  BY <1>1, <1>2

(* OnlyWholeAccepted, for any arguments whose blobs lo_validate_blob lets  *)
(* through and any paths: a message that lo_message_serialise wrote is     *)
(* taken whole, and never cut short or with more behind.                   *)
THEOREM WholeMessagesOnly ==
  ASSUME Good, SmallBlobs, GoodPaths, NoneIsNoMessage
  PROVE  Spec => []OnlyWholeAccepted
<1>1. Init => MessageInv /\ MessagesFit
  <2>1. Init => MessagesFit
    BY DEF Init, MessagesFit
  <2>2. QED
    BY <2>1, MessageStart
<1>2. MessageInv /\ MessagesFit /\ [Next]_vars => (MessageInv /\ MessagesFit)'
  BY MessageStep, FitStep
<1>3. MessageInv /\ MessagesFit => OnlyWholeAccepted
  <2> SUFFICES ASSUME MessageInv, MessagesFit, NEW h \in Live, NEW path \in Paths
               PROVE  LET b == Serialise(h, heap[h], path) IN
                      /\ Deserialise(h, b) # None
                      /\ \A n \in 0..Len(b) - 1 : Deserialise(h, SubSeq(b, 1, n)) = None
                      /\ Deserialise(h, b \o Zeros(4)) = None
    BY DEF OnlyWholeAccepted
  <2> DEFINE b == Serialise(h, heap[h], path)
  <2>1. Sound(h, heap[h]) /\ Fit(h, heap[h]) /\ path \in Seq(Nat) /\ NulFree(path)
    BY DEF Live, MessageInv, MessagesSound, MessagesFit, Good, GoodBytes, GoodPaths
  <2>2. b \in Seq(Nat) /\ Accepted(b)
    BY <2>1, WholeAccepted
  <2> HIDE DEF b
  <2>3. Deserialise(h, b) # None
    BY <2>2, ArrivesSound, SoundIsMessage DEF NoneIsNoMessage
  <2>4. QED
    BY <2>2, <2>3, CutOrLonger DEF b
<1>4. QED
  BY <1>1, <1>2, <1>3, PTL DEF Spec

-----------------------------------------------------------------------------
(* Messages of a bundle are freed once. *)

\* p, an arrangement of the first n of s, with n + 1 put in at k
PutIn(p, n, k) == [i \in 1..n + 1 |-> IF i < k THEN p[i] ELSE IF i = k THEN n + 1 ELSE p[i - 1]]

\* p is an arrangement of the first n numbers of s
Arranged(p, s, n) ==
  /\ p \in [1..n -> 1..n]
  /\ \A i \in 1..n : \E j \in 1..n : p[j] = i
  /\ \A i, j \in 1..n : i < j => s[p[i]] <= s[p[j]]

\* q is p, an arrangement of n numbers, with n + 1 at k
IsPutIn(q, p, n, k) ==
  /\ q \in [1..n + 1 -> 1..n + 1] /\ q[k] = n + 1
  /\ \A i \in 1..n + 1 : i < k => i \in 1..n /\ q[i] = p[i]
  /\ \A i \in 1..n + 1 : i > k => i - 1 \in 1..n /\ q[i] = p[i - 1]

(* A number put into an arrangement leaves the others in their order. *)
LEMMA PutInIs ==
  ASSUME NEW n \in Nat, NEW p \in [1..n -> 1..n], NEW k \in 1..n + 1
  PROVE  IsPutIn(PutIn(p, n, k), p, n, k)
<1> DEFINE q == [i \in 1..n + 1 |-> IF i < k THEN p[i] ELSE IF i = k THEN n + 1 ELSE p[i - 1]]
<1>1. \A i \in 1..n + 1 : (i < k => i \in 1..n) /\ (i > k => i - 1 \in 1..n)
  OBVIOUS
<1>2. n + 1 \in 1..n + 1 /\ \A i \in 1..n : p[i] \in 1..n + 1
  OBVIOUS
<1>3. \A i \in 1..n + 1 : i < k \/ i = k \/ i > k
  OBVIOUS
<1>4. q \in [1..n + 1 -> 1..n + 1]
  BY <1>1, <1>2, <1>3
<1>5. q[k] = n + 1 /\ (\A i \in 1..n + 1 : i < k => q[i] = p[i])
      /\ \A i \in 1..n + 1 : i > k => q[i] = p[i - 1]
  OBVIOUS
<1>6. PutIn(p, n, k) = q
  BY DEF PutIn
<1> HIDE DEF q
<1>7. QED
  BY <1>1, <1>4, <1>5, <1>6 DEF IsPutIn

(* If some numbers can be put in order, so can one more. *)
LEMMA OneMore ==
  ASSUME NEW n \in Nat, NEW s, \A i \in 1..n + 1 : s[i] \in Nat,
         NEW p, Arranged(p, s, n)
  PROVE  \E q : Arranged(q, s, n + 1)
<1> DEFINE K == {i \in 1..n + 1 : i = n + 1 \/ s[p[i]] > s[n + 1]}
<1>1. K \subseteq Nat /\ n + 1 \in K
  OBVIOUS
<1>2. PICK k \in K : \A i \in K : k <= i
  <2> HIDE DEF K
  <2>1. QED
    BY <1>1, LeastElement
<1>3. k \in 1..n + 1 /\ (k = n + 1 \/ s[p[k]] > s[n + 1])
  BY <1>2
<1>4. p \in [1..n -> 1..n]
  BY DEF Arranged
<1>5. \A i \in 1..n : i \in 1..n + 1 /\ p[i] \in 1..n + 1 /\ s[p[i]] \in Nat /\ s[n + 1] \in Nat
  BY <1>4
<1>6. ASSUME NEW i \in 1..n, i < k PROVE s[p[i]] <= s[n + 1]
  <2>1. i \notin K
    <3> HIDE DEF K
    <3>1. k \in Nat
      BY <1>1, <1>2
    <3>2. QED
      BY <1>2, <1>6, <3>1
  <2>2. i \in 1..n + 1 /\ i # n + 1
    OBVIOUS
  <2>3. ~ (s[p[i]] > s[n + 1])
    BY <2>1, <2>2
  <2>4. QED
    BY <1>5, <2>3
<1> HIDE DEF K
<1>7. ASSUME NEW i \in 1..n, i >= k PROVE s[n + 1] <= s[p[i]]
  <2>1. k \in 1..n /\ k # n + 1
    BY <1>3, <1>7
  <2>2. s[p[k]] > s[n + 1]
    BY <1>3, <2>1
  <2>3. s[p[k]] <= s[p[i]]
    <3>1. CASE k < i
      BY <2>1, <3>1 DEF Arranged
    <3>2. CASE k = i
      BY <1>5, <3>2
    <3>3. QED
      BY <1>3, <1>7, <3>1, <3>2
  <2>4. s[p[k]] \in Nat /\ s[p[i]] \in Nat /\ s[n + 1] \in Nat
    BY <1>5, <2>1
  <2>5. QED
    BY <2>2, <2>3, <2>4
<1> DEFINE q == PutIn(p, n, k)
<1>8. /\ q \in [1..n + 1 -> 1..n + 1] /\ q[k] = n + 1
      /\ \A i \in 1..n + 1 : i < k => i \in 1..n /\ q[i] = p[i]
      /\ \A i \in 1..n + 1 : i > k => i - 1 \in 1..n /\ q[i] = p[i - 1]
  <2>1. k \in 1..n + 1
    BY <1>3
  <2>2. IsPutIn(q, p, n, k)
    BY <1>4, <2>1, PutInIs
  <2> HIDE DEF q
  <2>3. QED
    BY <2>2 DEF IsPutIn
<1> HIDE DEF q
<1>9. ASSUME NEW i \in 1..n + 1 PROVE \E j \in 1..n + 1 : q[j] = i
  <2>1. CASE i = n + 1
    BY <1>3, <1>8, <2>1
  <2>2. CASE i # n + 1
    <3>1. i \in 1..n
      BY <2>2
    <3>2. PICK j \in 1..n : p[j] = i
      BY <3>1 DEF Arranged
    <3>3. CASE j < k
      <4>1. j \in 1..n + 1
        OBVIOUS
      <4>2. QED
        BY <1>8, <3>2, <3>3, <4>1
    <3>4. CASE ~ (j < k)
      <4> DEFINE l == j + 1
      <4>1. l \in 1..n + 1 /\ l > k /\ l - 1 = j
        BY <1>3, <3>4
      <4> HIDE DEF l
      <4>2. q[l] = i
        BY <1>8, <3>2, <4>1
      <4>3. QED
        BY <4>1, <4>2
    <3>5. QED
      BY <3>3, <3>4
  <2>3. QED
    BY <2>1, <2>2
<1>10. ASSUME NEW i \in 1..n + 1, NEW j \in 1..n + 1, i < j PROVE s[q[i]] <= s[q[j]]
  <2>1. CASE j < k
    <3>1. i < k
      BY <1>3, <1>10, <2>1
    <3>2. i \in 1..n /\ j \in 1..n /\ q[i] = p[i] /\ q[j] = p[j]
      BY <1>8, <2>1, <3>1
    <3>3. QED
      BY <1>10, <3>2 DEF Arranged
  <2>2. CASE j = k
    <3>1. i < k
      BY <1>10, <2>2
    <3>2. i \in 1..n /\ q[i] = p[i] /\ q[j] = n + 1
      BY <1>8, <2>2, <3>1
    <3>3. QED
      BY <1>6, <3>1, <3>2
  <2>3. CASE j > k /\ i < k
    <3>1. i \in 1..n /\ q[i] = p[i] /\ j - 1 \in 1..n /\ q[j] = p[j - 1]
      BY <1>8, <2>3
    <3>2. i < j - 1
      BY <1>3, <2>3
    <3>3. QED
      BY <3>1, <3>2 DEF Arranged
  <2>4. CASE j > k /\ i = k
    <3>1. q[i] = n + 1 /\ j - 1 \in 1..n /\ q[j] = p[j - 1]
      BY <1>8, <2>4
    <3>2. j - 1 >= k
      BY <1>3, <2>4
    <3>3. QED
      BY <1>7, <3>1, <3>2
  <2>5. CASE j > k /\ i > k
    <3>1. i - 1 \in 1..n /\ q[i] = p[i - 1] /\ j - 1 \in 1..n /\ q[j] = p[j - 1]
      BY <1>8, <2>5
    <3>2. i - 1 < j - 1
      BY <1>10
    <3>3. QED
      BY <3>1, <3>2 DEF Arranged
  <2>6. (j < k \/ j = k \/ j > k) /\ (i < k \/ i = k \/ i > k)
    BY <1>3
  <2>7. QED
    BY <2>1, <2>2, <2>3, <2>4, <2>5, <2>6
<1>11. Arranged(q, s, n + 1)
  BY <1>8, <1>9, <1>10 DEF Arranged
<1>12. QED
  BY <1>11

\* m, a list of N numbers, has those of s in order
InOrder(m, s, N) ==
  /\ DOMAIN m = 1..N /\ \A i \in 1..N : m[i] \in Nat
  /\ \A i \in 1..N : \E j \in 1..N : m[j] = s[i]
  /\ \A i, j \in 1..N : i < j => m[i] <= m[j]

(* qsort puts any list of addresses in order, and loses none. *)
LEMMA SortedIs ==
  ASSUME NEW s, NEW N \in Nat, DOMAIN s = 1..N, \A i \in 1..N : s[i] \in Nat
  PROVE  InOrder(Sorted(s), s, N)
<1> DEFINE T == {n \in 0..N : \E p : Arranged(p, s, n)}
<1>1. 0 \in T
  <2> DEFINE e == [i \in 1..0 |-> 0]
  <2>1. e \in [1..0 -> 1..0] /\ 1..0 = {}
    OBVIOUS
  <2> HIDE DEF e
  <2>2. Arranged(e, s, 0)
    BY <2>1 DEF Arranged
  <2>3. QED
    BY <2>2
<1>2. ASSUME NEW n \in 0..N - 1, n \in T PROVE n + 1 \in T
  <2>1. PICK p : Arranged(p, s, n)
    BY <1>2
  <2>2. n \in Nat /\ n + 1 \in 0..N /\ \A i \in 1..n + 1 : i \in 1..N
    OBVIOUS
  <2>3. \E q : Arranged(q, s, n + 1)
    BY <2>1, <2>2, OneMore
  <2>4. QED
    BY <2>2, <2>3
<1> HIDE DEF T
<1>3. N \in T
  <2>1. Inductive(T, N)
    BY <1>1, <1>2 DEF Inductive
  <2>2. QED
    BY <2>1, AllNumbers
<1>4. PICK q : Arranged(q, s, N)
  BY <1>3 DEF T
<1> DEFINE p == CHOOSE p \in [1..N -> 1..N] : Arranges(p, s)
<1>5. p \in [1..N -> 1..N] /\ Arranges(p, s)
  <2>1. q \in [1..N -> 1..N] /\ Arranges(q, s)
    BY <1>4 DEF Arranged, Arranges
  <2>2. QED
    BY <2>1
<1>6. Sorted(s) = [i \in 1..N |-> s[p[i]]]
  BY DEF Sorted
<1> HIDE DEF p
<1>7. \A i \in 1..N : p[i] \in 1..N /\ s[p[i]] \in Nat /\ Sorted(s)[i] = s[p[i]]
  BY <1>5, <1>6
<1>11. /\ \A i \in 1..N : \E j \in 1..N : p[j] = i
       /\ \A i, j \in 1..N : i < j => s[p[i]] <= s[p[j]]
  BY <1>5 DEF Arranges
<1> DEFINE r == Sorted(s)
<1>12. \A i \in 1..N : r[i] = s[p[i]]
  BY <1>7
<1>8. \A i \in 1..N : \E j \in 1..N : Sorted(s)[j] = s[i]
  <2> SUFFICES ASSUME NEW i \in 1..N PROVE \E j \in 1..N : r[j] = s[i]
    OBVIOUS
  <2> HIDE DEF r
  <2>1. PICK j \in 1..N : p[j] = i
    BY <1>11
  <2>2. r[j] = s[i]
    BY <1>12, <2>1
  <2>3. QED
    BY <2>2
<1>9. \A i, j \in 1..N : i < j => Sorted(s)[i] <= Sorted(s)[j]
  <2> HIDE DEF r
  <2>1. \A i, j \in 1..N : i < j => r[i] <= r[j]
    BY <1>11, <1>12
  <2>2. QED
    BY <2>1 DEF r
<1>10. QED
  BY <1>6, <1>7, <1>8, <1>9 DEF InOrder

\* the same numbers next to each other, all those of s among them
Groups(msgs, s, N) ==
  /\ DOMAIN msgs = 1..N /\ \A i \in 1..N : msgs[i] \in Nat
  /\ \A i \in 1..N : \E j \in 1..N : msgs[j] = s[i]
  /\ \A i, j, k \in 1..N : i < j /\ j < k /\ msgs[i] = msgs[k] => msgs[j] = msgs[k]

(* Sorted if there are more than two, the messages of a bundle are listed  *)
(* with the same ones next to each other.                                  *)
LEMMA ListedIs ==
  ASSUME NEW items, NEW s, NEW N \in Nat, DOMAIN items = 1..N,
         s = [i \in 1..N |-> items[i].msg], \A i \in 1..N : items[i].msg \in Nat
  PROVE  Groups(Listed(items), s, N)
<1>1. Len(s) = N /\ DOMAIN s = 1..N /\ \A i \in 1..N : s[i] \in Nat
  OBVIOUS
<1>2. Listed(items) = IF N > 2 THEN Sorted(s) ELSE s
  BY <1>1 DEF Listed
<1>3. CASE N > 2
  <2> DEFINE m == Sorted(s)
  <2>1. /\ DOMAIN m = 1..N /\ \A i \in 1..N : m[i] \in Nat
        /\ \A i \in 1..N : \E j \in 1..N : m[j] = s[i]
        /\ \A i, j \in 1..N : i < j => m[i] <= m[j]
    <3>1. DOMAIN s = 1..N /\ \A i \in 1..N : s[i] \in Nat
      BY <1>1
    <3>2. InOrder(m, s, N)
      BY <3>1, SortedIs
    <3> HIDE DEF m
    <3>3. QED
      BY <3>2 DEF InOrder
  <2>2. Listed(items) = m
    BY <1>2, <1>3
  <2> HIDE DEF m
  <2>3. \A i, j, k \in 1..N : i < j /\ j < k /\ m[i] = m[k] => m[j] = m[k]
    <3> SUFFICES ASSUME NEW i \in 1..N, NEW j \in 1..N, NEW k \in 1..N, i < j, j < k, m[i] = m[k]
                 PROVE  m[j] = m[k]
      OBVIOUS
    <3>1. m[i] <= m[j] /\ m[j] <= m[k] /\ m[i] \in Nat /\ m[j] \in Nat /\ m[k] \in Nat
      BY <2>1
    <3>2. QED
      BY <3>1
  <2>4. QED
    BY <2>1, <2>2, <2>3 DEF Groups
<1>4. CASE ~ (N > 2)
  <2>1. Listed(items) = s
    BY <1>2, <1>4
  <2>2. \A i, j, k \in 1..N : ~ (i < j /\ j < k)
    BY <1>4
  <2>3. QED
    BY <1>1, <2>1, <2>2 DEF Groups
<1>5. QED
  BY <1>3, <1>4

(* Of the same messages next to each other, one is freed. *)
LEMMA FirstIsFreed ==
  ASSUME NEW items, NEW s, NEW N \in Nat, Groups(Listed(items), s, N), NEW i \in 1..N
  PROVE  \E f \in Frees(items) :
           /\ Listed(items)[f] = s[i]
           /\ \A g \in Frees(items) : Listed(items)[g] = Listed(items)[f] => g = f
<1> DEFINE msgs == Listed(items)
           F == {j \in 1..N : msgs[j] = s[i]}
<1>1. Groups(msgs, s, N)
  OBVIOUS
<1>2. Frees(items) = {j \in 1..N : j = 1 \/ msgs[j] # msgs[j - 1]}
  BY DEF Frees, Groups
<1> HIDE DEF msgs
<1>3. F # {} /\ F \subseteq Nat
  <2>1. PICK j \in 1..N : msgs[j] = s[i]
    BY <1>1 DEF Groups
  <2>2. j \in F
    BY <2>1
  <2>3. F \subseteq Nat
    OBVIOUS
  <2>4. QED
    BY <2>2, <2>3
<1>4. PICK f \in F : \A j \in F : f <= j
  <2> HIDE DEF F
  <2>1. QED
    BY <1>3, LeastElement
<1>5. f \in 1..N /\ msgs[f] = s[i]
  BY <1>4
<1>6. ASSUME NEW j \in 1..N, msgs[j] = s[i] PROVE f <= j
  BY <1>4, <1>6
<1>7. f \in Frees(items)
  <2>1. CASE f = 1
    BY <1>2, <1>5, <2>1
  <2>2. CASE f # 1
    <3>1. f - 1 \in 1..N /\ ~ (f <= f - 1)
      BY <1>5, <2>2
    <3>2. msgs[f - 1] # s[i]
      BY <1>6, <3>1
    <3>3. QED
      BY <1>2, <1>5, <3>2
  <2>3. QED
    BY <2>1, <2>2
<1>8. ASSUME NEW g \in Frees(items), msgs[g] = msgs[f] PROVE g = f
  <2>1. g \in 1..N /\ (g = 1 \/ msgs[g] # msgs[g - 1])
    BY <1>2
  <2>2. f <= g
    BY <1>5, <1>6, <1>8, <2>1
  <2>3. SUFFICES ASSUME g # f PROVE FALSE
    OBVIOUS
  <2> DEFINE e == g - 1
  <2>4. e \in 1..N /\ g # 1 /\ f <= e /\ e < g
    BY <1>5, <2>1, <2>2, <2>3
  <2>5. msgs[g] # msgs[e]
    BY <2>1, <2>4
  <2> HIDE DEF e
  <2>6. CASE f = e
    BY <1>8, <2>5, <2>6
  <2>7. CASE f # e
    <3>1. f < e
      BY <1>5, <2>4, <2>7
    <3>2. \A a, b, c \in 1..N : a < b /\ b < c /\ msgs[a] = msgs[c] => msgs[b] = msgs[c]
      BY <1>1, Zenon DEF Groups
    <3>4. f \in 1..N /\ e \in 1..N /\ g \in 1..N /\ f < e /\ e < g /\ msgs[f] = msgs[g]
      BY <1>5, <1>8, <2>1, <2>4, <3>1
    <3>5. msgs[e] = msgs[g]
      BY <3>2, <3>4
    <3>3. QED
      BY <2>5, <3>5
  <2>8. QED
    BY <2>6, <2>7
<1>9. QED
  BY <1>5, <1>7, <1>8 DEF msgs

(* FreedOnce, for bundles of any length: lo_bundle_free_messages frees     *)
(* every message of a bundle once, in whatever order and however often it  *)
(* was added.                                                              *)
THEOREM MessagesAreFreedOnce ==
  ASSUME Good
  PROVE  Spec => []FreedOnce
<1>1. MessageInv => FreedOnce
  <2> SUFFICES ASSUME MessageInv, bundle # None, NEW i \in DOMAIN bundle.items
               PROVE  \E f \in Frees(bundle.items) :
                        /\ Listed(bundle.items)[f] = bundle.items[i].msg
                        /\ \A g \in Frees(bundle.items) :
                             Listed(bundle.items)[g] = Listed(bundle.items)[f] => g = f
    BY DEF FreedOnce
  <2> DEFINE items == bundle.items
             N == Len(items)
             s == [j \in 1..N |-> items[j].msg]
  <2>1. items \in Seq([path : Paths, msg : Handles])
    BY DEF MessageInv, BundleSound
  <2>2. N \in Nat /\ DOMAIN items = 1..N
    BY <2>1
  <2>3. \A j \in 1..N : items[j].msg \in Nat
    <3> SUFFICES ASSUME NEW j \in 1..N PROVE items[j].msg \in Nat
      OBVIOUS
    <3>1. items[j] \in [path : Paths, msg : Handles]
      <4> HIDE DEF items
      <4>1. QED
        BY <2>1, ElementOfSeq
    <3>2. QED
      BY <3>1, MessageAssumption
  <2>4. i \in 1..N /\ s[i] = items[i].msg /\ s = [j \in 1..N |-> items[j].msg]
    BY <2>2
  <2> HIDE DEF items, N, s
  <2>5. Groups(Listed(items), s, N)
    BY <2>2, <2>3, <2>4, ListedIs
  <2>6. QED
    BY <2>2, <2>4, <2>5, FirstIsFreed DEF items
<1>2. QED
  BY <1>1, MessagesStaySound, PTL

-----------------------------------------------------------------------------
(* Swapping, and swapping back. *)

(* Every byte of a run belongs to an argument. *)
LEMMA RunCovers ==
  ASSUME NEW order, NEW types, Len(types) \in Nat, NEW data, Len(data) \in Nat, NEW off,
         Run(order, types, data, off), NEW j \in 1..Len(data)
  PROVE  \E i \in 1..Len(types) : off[i] < j /\ j <= off[i + 1]
<1> DEFINE n == Len(types)
           T == {i \in 1..n + 1 : j <= off[i]}
<1>1. /\ off[1] = 0 /\ off[n + 1] = Len(data)
      /\ \A i \in 1..n + 1 : off[i] \in Nat
  BY DEF Run
<1>2. n + 1 \in T /\ T \subseteq Nat
  BY <1>1
<1> HIDE DEF T
<1>3. PICK m \in T : \A i \in T : m <= i
  BY <1>2, LeastElement
<1>4. m \in 1..n + 1 /\ j <= off[m] /\ m # 1
  BY <1>1, <1>3 DEF T
<1> DEFINE i == m - 1
<1>5. i \in 1..n /\ i \in 1..n + 1 /\ i + 1 = m /\ ~ (m <= i)
  BY <1>4
<1>6. ~ (j <= off[i])
  BY <1>3, <1>5 DEF T
<1> HIDE DEF i
<1>7. off[i] < j
  BY <1>1, <1>5, <1>6
<1>8. QED
  BY <1>4, <1>5, <1>7

\* c is the eight bytes b from behind, or with the words exchanged
IsDouble(little, c, b) ==
  /\ \A k \in 1..4 : c[k] = IF little THEN b[4 + (5 - k)] ELSE b[4 + k]
  /\ \A k \in 1..4 : c[4 + k] = IF little THEN b[5 - k] ELSE b[k]

(* That is what lo_swap64 makes of eight bytes. *)
LEMMA Swap64Bytes ==
  ASSUME NEW little, NEW b \in Seq(Nat), Len(b) = 8
  PROVE  IsDouble(little, Swap64(little, b), b)
<1> DEFINE x == SubSeq(b, 5, 8)
           y == SubSeq(b, 1, 4)
           c == Swap64(little, b)
<1>1. x \in Seq(Nat) /\ Len(x) = 4 /\ \A k \in 1..4 : x[k] = b[4 + k]
  <2> DEFINE v == 4
             w == 4
  <2>1. v \in Nat /\ w \in Nat /\ v + w <= Len(b) /\ v + 1 = 5 /\ v + w = 8
    OBVIOUS
  <2> HIDE DEF v, w
  <2>2. x = SubSeq(b, v + 1, v + w)
    BY <2>1
  <2> DEFINE z == SubSeq(b, v + 1, v + w)
  <2>3. z \in Seq(Nat) /\ Len(z) = w /\ \A k \in 1..w : z[k] = b[v + k]
    BY <2>1, PieceIs
  <2> HIDE DEF z
  <2>4. QED
    BY <2>2, <2>3 DEF v, w, z
<1>2. y \in Seq(Nat) /\ Len(y) = 4 /\ \A k \in 1..4 : y[k] = b[k]
  <2> DEFINE v == 0
             w == 4
  <2>1. v \in Nat /\ w \in Nat /\ v + w <= Len(b) /\ v + 1 = 1 /\ v + w = 4 /\ \A k \in Nat : v + k = k
    OBVIOUS
  <2> HIDE DEF v, w
  <2>2. y = SubSeq(b, v + 1, v + w)
    BY <2>1
  <2> DEFINE z == SubSeq(b, v + 1, v + w)
  <2>3. z \in Seq(Nat) /\ Len(z) = w /\ \A k \in 1..w : z[k] = b[v + k]
    BY <2>1, PieceIs
  <2> HIDE DEF z
  <2>4. QED
    BY <2>1, <2>2, <2>3 DEF v, w, z
<1> DEFINE u == Swap32(little, x)
           w == Swap32(little, y)
<1>3. c = u \o w
  BY DEF Swap64
<1> HIDE DEF x, y, c
<1>4. u \in Seq(Nat) /\ Len(u) = 4 /\ \A k \in 1..4 : u[k] = IF little THEN x[5 - k] ELSE x[k]
  BY <1>1, ReversedWord DEF Swap32
<1>5. w \in Seq(Nat) /\ Len(w) = 4 /\ \A k \in 1..4 : w[k] = IF little THEN y[5 - k] ELSE y[k]
  BY <1>2, ReversedWord DEF Swap32
<1> HIDE DEF u, w
<1>6. (\A k \in 1..4 : c[k] = u[k]) /\ (\A k \in 1..4 : c[4 + k] = w[k])
  <2>1. Begins(u, u \o w) /\ \A k \in 1..Len(w) : (u \o w)[Len(u) + k] = w[k]
    BY <1>4, <1>5, JoinIs
  <2>2. QED
    BY <1>3, <1>4, <1>5, <2>1 DEF Begins
<1>7. \A k \in 1..4 : 5 - k \in 1..4
  OBVIOUS
<1>8. \A k \in 1..4 : x[5 - k] = b[4 + (5 - k)] /\ y[5 - k] = b[5 - k]
  BY <1>1, <1>2, <1>7
<1>9. QED
  BY <1>1, <1>2, <1>4, <1>5, <1>6, <1>8 DEF c, IsDouble

(* What was swapped twice is as it was. *)
LEMMA TurnedTwice ==
  ASSUME NEW little, NEW b \in Seq(Nat), Len(b) \in {4, 8}
  PROVE  Turned(little, Turned(little, b)) = b
<1> DEFINE c == Turned(little, b)
           d == Turned(little, c)
<1>1. c \in Seq(Nat) /\ Len(c) = Len(b)
  BY TurnedIs
<1>2. d \in Seq(Nat) /\ Len(d) = Len(b)
  <2> HIDE DEF c
  <2>1. QED
    BY <1>1, TurnedIs
<1>3. CASE Len(b) = 4
  <2>1. IsWord(little, c, b)
    BY <1>3, TurnedIs
  <2>2. IsWord(little, d, c)
    <3> HIDE DEF c
    <3>1. QED
      BY <1>1, <1>3, TurnedIs
  <2> HIDE DEF c, d
  <2>3. \A k \in 1..4 : 5 - k \in 1..4 /\ 5 - (5 - k) = k
    OBVIOUS
  <2>4. \A k \in 1..4 : d[k] = b[k]
    BY <2>1, <2>2, <2>3 DEF IsWord
  <2>5. d = b
    BY <1>2, <1>3, <2>4, SeqEqual
  <2>6. QED
    BY <2>5 DEF d, c
<1>4. CASE Len(b) = 8
  <2>1. c = Swap64(little, b)
    BY <1>4 DEF Turned
  <2>2. d = Swap64(little, c)
    <3> HIDE DEF c
    <3>1. QED
      BY <1>1, <1>4 DEF Turned
  <2> HIDE DEF c, d
  <2>3. IsDouble(little, c, b)
    BY <1>4, <2>1, Swap64Bytes
  <2>4. IsDouble(little, d, c)
    BY <1>1, <1>4, <2>2, Swap64Bytes
  <2>5. \A k \in 1..4 : 5 - k \in 1..4 /\ 5 - (5 - k) = k
    OBVIOUS
  <2>6. \A k \in 1..4 : d[k] = b[k] /\ d[4 + k] = b[4 + k]
    <3> SUFFICES ASSUME NEW k \in 1..4 PROVE d[k] = b[k] /\ d[4 + k] = b[4 + k]
      OBVIOUS
    <3> DEFINE l == 5 - k
    <3>1. l \in 1..4 /\ 5 - l = k
      BY <2>5
    <3>2. d[k] = (IF little THEN c[4 + l] ELSE c[4 + k]) /\ d[4 + k] = IF little THEN c[l] ELSE c[k]
      BY <2>4 DEF IsDouble
    <3> HIDE DEF l
    <3>3. /\ c[l] = (IF little THEN b[4 + (5 - l)] ELSE b[4 + l])
          /\ c[4 + l] = (IF little THEN b[5 - l] ELSE b[l])
          /\ c[k] = (IF little THEN b[4 + (5 - k)] ELSE b[4 + k])
          /\ c[4 + k] = (IF little THEN b[5 - k] ELSE b[k])
      BY <2>3, <3>1 DEF IsDouble
    <3>4. CASE little
      <4>1. c[4 + l] = b[k] /\ c[l] = b[4 + k]
        BY <3>1, <3>3, <3>4
      <4>2. QED
        BY <3>2, <3>4, <4>1
    <3>5. CASE ~ little
      BY <3>2, <3>3, <3>5
    <3>6. QED
      BY <3>4, <3>5
  <2>7. \A k \in 1..8 : k \in 1..4 \/ (k - 4 \in 1..4 /\ 4 + (k - 4) = k)
    OBVIOUS
  <2>8. \A k \in 1..8 : d[k] = b[k]
    BY <2>6, <2>7
  <2>9. d = b
    BY <1>2, <1>4, <2>8, SeqEqual
  <2>10. QED
    BY <2>9 DEF d, c
<1>5. QED
  BY <1>3, <1>4

\* c has, of an argument at v that ends at u, the w bytes after v swapped and the others as data
IsSwapped(little, c, data, v, w, u) ==
  /\ w # 0 => SubSeq(c, v + 1, v + w) = Turned(little, SubSeq(data, v + 1, v + w))
  /\ \A j \in v + w + 1..u : c[j] = data[j]

(* Swap swaps each argument of a run by itself. *)
LEMMA SwapsEach ==
  ASSUME NEW order, NEW types, Len(types) \in Nat, NEW data \in Seq(Nat), NEW off,
         Run(order, types, data, off), NEW little, NEW i \in 1..Len(types)
  PROVE  IsSwapped(little, Swap(little, types, data, off), data,
                   off[i], Swapped(types[i]), off[i + 1])
<1> DEFINE v == off[i]
           u == off[i + 1]
           w == Swapped(types[i])
           c == Swap(little, types, data, off)
<1>1. i \in 1..Len(types) + 1 /\ i + 1 \in 1..Len(types) + 1
  OBVIOUS
<1>2. v \in Nat /\ u \in Nat /\ v <= u /\ u <= Len(data) /\ Len(data) \in Nat
  BY <1>1 DEF Run
<1>3. w \in {0, 4, 8} /\ w <= u - v
  BY SwappedFits DEF Run
<1>4. \A j \in v + 1..u : c[j] = ByteOf(little, data, v, w, j)
  <2>1. SwapsTo(little, c, data, v, w, u)
    BY SwapAt
  <2>2. QED
    BY <2>1 DEF SwapsTo
<1>5. data \in Seq(Nat) /\ c \in Seq(Nat) /\ Len(c) = Len(data)
  BY SwapIsBytes
<1> HIDE DEF v, u, w, c
<1>6. ASSUME NEW j \in v + w + 1..u PROVE c[j] = data[j]
  <2>1. j \in v + 1..u /\ ~ (j <= v + w)
    BY <1>2, <1>3
  <2>2. QED
    BY <1>4, <2>1 DEF ByteOf
<1>7. ASSUME w # 0 PROVE SubSeq(c, v + 1, v + w) = Turned(little, SubSeq(data, v + 1, v + w))
  <2> DEFINE x == SubSeq(c, v + 1, v + w)
             y == SubSeq(data, v + 1, v + w)
             z == Turned(little, y)
  <2>1. w \in Nat /\ w \in {4, 8} /\ v + w <= Len(data) /\ v + w <= Len(c)
    BY <1>2, <1>3, <1>5, <1>7
  <2>2. x \in Seq(Nat) /\ Len(x) = w /\ \A k \in 1..w : x[k] = c[v + k]
    BY <1>2, <1>5, <2>1, PieceIs
  <2>3. y \in Seq(Nat) /\ Len(y) = w
    BY <1>2, <1>5, <2>1, PieceIs
  <2> HIDE DEF y
  <2>4. z \in Seq(Nat) /\ Len(z) = w
    BY <2>1, <2>3, TurnedIs
  <2>5. ASSUME NEW k \in 1..w PROVE c[v + k] = z[k]
    <3> DEFINE j == v + k
    <3>1. j \in v + 1..u /\ j <= v + w /\ j - v = k
      BY <1>2, <1>3
    <3> HIDE DEF j
    <3>2. c[j] = Turned(little, SubSeq(data, v + 1, v + w))[j - v]
      BY <1>4, <3>1 DEF ByteOf
    <3>3. c[j] = z[k]
      BY <3>1, <3>2 DEF y
    <3>4. QED
      BY <3>3 DEF j
  <2> HIDE DEF x, z
  <2>6. x = z
    BY <2>2, <2>4, <2>5, SeqEqual
  <2>7. QED
    BY <2>6 DEF x, y, z
<1>8. QED
  BY <1>6, <1>7 DEF IsSwapped, v, u, w, c

(* What a host of one order swaps, a host of the same swaps back. *)
LEMMA SwapTwice ==
  ASSUME NEW from, NEW to, NEW types, Len(types) \in Nat, NEW data \in Seq(Nat), NEW off, NEW little,
         Run(from, types, data, off), Run(to, types, Swap(little, types, data, off), off)
  PROVE  Swap(little, types, Swap(little, types, data, off), off) = data
<1> DEFINE c == Swap(little, types, data, off)
           d == Swap(little, types, c, off)
<1>1. c \in Seq(Nat) /\ Len(c) = Len(data) /\ Len(data) \in Nat
  BY SwapIsBytes
<1>2. Run(to, types, c, off)
  OBVIOUS
<1>3. \A i \in 1..Len(types) : IsSwapped(little, c, data, off[i], Swapped(types[i]), off[i + 1])
  BY SwapsEach
<1> HIDE DEF c
<1>4. d \in Seq(Nat) /\ Len(d) = Len(data)
  BY <1>1, <1>2, SwapIsBytes
<1>5. \A i \in 1..Len(types) : IsSwapped(little, d, c, off[i], Swapped(types[i]), off[i + 1])
  BY <1>1, <1>2, SwapsEach
<1> HIDE DEF d
<1>6. ASSUME NEW j \in 1..Len(data) PROVE d[j] = data[j]
  <2>1. PICK i \in 1..Len(types) : off[i] < j /\ j <= off[i + 1]
    BY <1>1, RunCovers
  <2> DEFINE v == off[i]
             u == off[i + 1]
             w == Swapped(types[i])
  <2>2. i \in 1..Len(types) + 1 /\ i + 1 \in 1..Len(types) + 1
    OBVIOUS
  <2>3. v \in Nat /\ u \in Nat /\ u <= Len(data)
    BY <1>1, <2>2 DEF Run
  <2>4. w \in {0, 4, 8} /\ w <= u - v
    BY SwappedFits DEF Run
  <2>5. IsSwapped(little, c, data, v, w, u) /\ IsSwapped(little, d, c, v, w, u)
    BY <1>3, <1>5
  <2>6. v < j /\ j <= u
    BY <2>1
  <2> HIDE DEF v, u, w
  <2>7. CASE j > v + w
    <3>1. j \in v + w + 1..u
      BY <2>3, <2>4, <2>6, <2>7
    <3>2. QED
      BY <2>5, <3>1 DEF IsSwapped
  <2>8. CASE ~ (j > v + w)
    <3> DEFINE x == SubSeq(data, v + 1, v + w)
               z == SubSeq(d, v + 1, v + w)
               k == j - v
    <3>1. w \in {4, 8} /\ w # 0 /\ w \in Nat /\ v + w <= Len(data) /\ v + w <= Len(d)
          /\ k \in 1..w /\ v + k = j
      BY <1>1, <1>4, <2>3, <2>4, <2>6, <2>8
    <3>2. x \in Seq(Nat) /\ Len(x) = w /\ \A l \in 1..w : x[l] = data[v + l]
      BY <2>3, <3>1, PieceIs
    <3>3. z \in Seq(Nat) /\ Len(z) = w /\ \A l \in 1..w : z[l] = d[v + l]
      BY <1>4, <2>3, <3>1, PieceIs
    <3>4. z = Turned(little, Turned(little, x))
      BY <2>5, <3>1 DEF IsSwapped
    <3> HIDE DEF x, z, k
    <3>5. z = x
      BY <3>1, <3>2, <3>4, TurnedTwice
    <3>6. QED
      BY <3>1, <3>2, <3>3, <3>5
  <2>9. QED
    BY <2>7, <2>8
<1>7. d = data
  BY <1>1, <1>4, <1>6, SeqEqual
<1>8. QED
  BY <1>7 DEF d, c

-----------------------------------------------------------------------------
(* A message there and back. *)

(* A message that is read on a host of the same byte order has the types    *)
(* and the data that were sent.                                             *)
LEMMA RoundTrip ==
  ASSUME NEW h, NEW m, Sound(h, m), Fit(h, m), NEW path \in Seq(Nat), NulFree(path),
         NEW to, to \in Little <=> h \in Little
  PROVE  /\ Accepted(Serialise(h, m, path))
         /\ Deserialise(to, Serialise(h, m, path)).types = m.types
         /\ Deserialise(to, Serialise(h, m, path)).data = m.data
<1> DEFINE types == m.types
           data == m.data
           off == HostOffsets(h, m)
           little == h \in Little
           order == HostOrder(little)
           r == Swap(little, types, data, off)
           b == Serialise(h, m, path)
           d == Deserialise(to, b)
<1>1. Accepted(b) /\ Tail(TagsOf(b)) = types /\ DataOf(b) = r /\ Offsets(types, DataOf(b), Wire) = off
  BY WholeAccepted
<1>2. d.types = Tail(TagsOf(b))
      /\ d.data = Swap(to \in Little, Tail(TagsOf(b)), DataOf(b),
                       Offsets(Tail(TagsOf(b)), DataOf(b), Wire))
  <2> HIDE DEF b
  <2>1. QED
    BY <1>1, AcceptedIs
<1>3. (to \in Little) = little
  OBVIOUS
<1>4. d.types = types /\ d.data = Swap(little, types, r, off)
  <2> HIDE DEF b, d, types, r, off, little
  <2>1. QED
    BY <1>1, <1>2, <1>3
<1>5. data \in Seq(Nat) /\ Len(types) \in Nat /\ Run(order, types, data, off)
  BY DEF Sound, MessageSet
<1>6. little \in BOOLEAN
  OBVIOUS
<1>7. \A i \in 1..Len(types) : Receivable(order, types[i], data, off[i])
  BY DEF Fit
<1> HIDE DEF b, d, types, data, off, little
<1>8. Swaps(little, order, Wire)
  BY <1>6, OrdersAre
<1>9. Run(Wire, types, r, off)
  BY <1>5, <1>6, <1>7, <1>8, SwapRun
<1>10. Swap(little, types, r, off) = data
  BY <1>5, <1>9, SwapTwice
<1>11. QED
  BY <1>1, <1>4, <1>10 DEF b, d, types, data

(* lo_message_length says how long a message is when it is serialised. *)
LEMMA LengthIs ==
  ASSUME NEW h, NEW m, Sound(h, m), NEW path \in Seq(Nat)
  PROVE  Len(Serialise(h, m, path)) = Length(m, path) /\ Length(m, path) \in Nat
<1> DEFINE tags == <<Comma>> \o m.types
           p == CStr(path)
           q == CStr(tags)
           r == Swap(h \in Little, m.types, m.data, HostOffsets(h, m))
<1>1. m.types \in Seq(Types) /\ m.data \in Seq(Nat) /\ Len(m.types) \in Nat
      /\ Run(HostOrder(h \in Little), m.types, m.data, HostOffsets(h, m))
  BY DEF Sound, MessageSet
<1>2. tags \in Seq(Nat) /\ Len(tags) = 1 + Len(m.types)
  BY <1>1, TagsAre
<1>3. r \in Seq(Nat) /\ Len(r) = Len(m.data)
  BY <1>1, SwapIsBytes
<1>4. Serialise(h, m, path) = (p \o q) \o r
  BY DEF Serialise, SizesOnWire
<1>5. p \in Seq(Nat) /\ Len(p) = Padded(Len(path)) /\ Padded(Len(path)) \in Nat
  BY CStrIs DEF PaddedTo
<1> HIDE DEF tags, r, p
<1>6. q \in Seq(Nat) /\ Len(q) = Padded(Len(tags)) /\ Padded(Len(tags)) \in Nat
  BY <1>2, CStrIs DEF PaddedTo
<1> HIDE DEF q
<1>7. Len(tags) = Len(m.types) + 1
  BY <1>1, <1>2
<1>8. p \o q \in Seq(Nat) /\ Len(p \o q) = Len(p) + Len(q)
  BY <1>5, <1>6, ConcatProperties
<1>9. Len((p \o q) \o r) = Len(p \o q) + Len(r)
  BY <1>3, <1>8, ConcatProperties
<1>10. Len(m.data) \in Nat
  BY <1>1
<1> DEFINE x == Padded(Len(path))
           y == Padded(Len(m.types) + 1)
           z == Len(m.data)
<1>11. Len((p \o q) \o r) = x + y + z /\ x \in Nat /\ y \in Nat /\ z \in Nat
  BY <1>3, <1>5, <1>6, <1>7, <1>8, <1>9, <1>10
<1>12. Length(m, path) = x + y + z
  BY DEF Length
<1> HIDE DEF x, y, z
<1>13. QED
  BY <1>4, <1>11, <1>12

-----------------------------------------------------------------------------
(* Pieces of a buffer. *)

(* A buffer that begins with one that begins with a third begins with that. *)
LEMMA BeginsThrough ==
  ASSUME NEW a, NEW b, NEW c, Len(a) \in Nat, Len(b) \in Nat, Len(c) \in Nat,
         Begins(a, b), Begins(b, c)
  PROVE  Begins(a, c)
  BY DEF Begins

(* What was put behind a beginning is found behind it. *)
LEMMA PieceBehind ==
  ASSUME NEW p \in Seq(Nat), NEW x \in Seq(Nat), NEW b \in Seq(Nat), Begins(p \o x, b)
  PROVE  SubSeq(b, Len(p) + 1, Len(p) + Len(x)) = x /\ Len(p) + Len(x) <= Len(b)
<1> DEFINE v == Len(p)
           w == Len(x)
           c == p \o x
           y == SubSeq(b, v + 1, v + w)
<1>1. v \in Nat /\ w \in Nat /\ Len(b) \in Nat
  OBVIOUS
<1>2. Len(c) = v + w /\ \A k \in 1..w : c[v + k] = x[k]
  BY JoinIs
<1>3. Begins(c, b)
  OBVIOUS
<1> HIDE DEF v, w, c
<1>4. v + w <= Len(b) /\ \A k \in 1..v + w : b[k] = c[k]
  BY <1>2, <1>3 DEF Begins
<1>5. y \in Seq(Nat) /\ Len(y) = w /\ \A k \in 1..w : y[k] = b[v + k]
  BY <1>1, <1>4, PieceIs
<1>6. ASSUME NEW k \in 1..w PROVE b[v + k] = x[k]
  <2> DEFINE j == v + k
  <2>1. j \in 1..v + w /\ c[j] = x[k]
    BY <1>1, <1>2
  <2> HIDE DEF j
  <2>2. b[j] = x[k]
    BY <1>4, <2>1
  <2>3. QED
    BY <2>2 DEF j
<1> HIDE DEF y
<1>7. y = x
  BY <1>5, <1>6, SeqEqual DEF w
<1>8. QED
  BY <1>4, <1>7 DEF y, v, w

(* A buffer is its beginning and what lies behind. *)
LEMMA BeginsJoin ==
  ASSUME NEW p \in Seq(Nat), NEW b \in Seq(Nat), Begins(p, b)
  PROVE  From(b, Len(p)) \in Seq(Nat) /\ b = p \o From(b, Len(p))
<1> DEFINE n == Len(p)
           r == From(b, n)
           c == p \o r
<1>1. n \in 0..Len(b) /\ n \in Nat /\ Len(b) \in Nat /\ \A k \in 1..n : b[k] = p[k]
  BY DEF Begins
<1>2. Rest(r, b, n)
  BY <1>1, FromIs
<1>3. p \in Seq(Nat) /\ Len(p) = n
  OBVIOUS
<1> HIDE DEF n, r
<1>4. r \in Seq(Nat) /\ Len(b) = n + Len(r) /\ Len(r) \in Nat /\ \A k \in 1..Len(r) : r[k] = b[n + k]
  BY <1>2 DEF Rest
<1>5. c \in Seq(Nat) /\ Len(c) = n + Len(r) /\ Begins(p, c) /\ \A k \in 1..Len(r) : c[n + k] = r[k]
  BY <1>3, <1>4, JoinIs
<1> HIDE DEF c
<1>6. ASSUME NEW k \in 1..Len(b) PROVE b[k] = c[k]
  <2>1. CASE k <= n
    <3>1. k \in 1..n
      BY <1>1, <2>1
    <3>2. QED
      BY <1>1, <1>3, <1>5, <3>1 DEF Begins
  <2>2. CASE ~ (k <= n)
    <3> DEFINE l == k - n
    <3>1. l \in 1..Len(r) /\ n + l = k
      BY <1>1, <1>4, <2>2
    <3> HIDE DEF l
    <3>2. c[n + l] = b[n + l]
      BY <1>4, <1>5, <3>1
    <3>3. QED
      BY <3>1, <3>2
  <2>3. QED
    BY <2>1, <2>2
<1>7. b = c
  BY <1>4, <1>5, <1>6, SeqEqual
<1>8. QED
  BY <1>4, <1>7 DEF c, r, n

(* A size is read as it was written. *)
LEMMA WordRead ==
  ASSUME NEW n \in Nat
  PROVE  BigEndian(Word(n)) = n
<1>1. Word(n)[1] = 0 /\ Word(n)[2] = 0 /\ Word(n)[3] = n \div 256 /\ Word(n)[4] = n % 256
  BY WordIsFour
<1>2. QED
  BY <1>1, DivMod DEF BigEndian

-----------------------------------------------------------------------------
(* A bundle in bytes. *)

\* where lo_bundle_serialise starts
BundleHead == CStr(Bundle) \o Now

(* A bundle begins with its name, and its time makes 16 bytes of it. *)
LEMMA HeadIs ==
  /\ Bundle \in Seq(Nat) /\ NulFree(Bundle)
  /\ CStr(Bundle) \in Seq(Nat) /\ BundleHead \in Seq(Nat) /\ Len(BundleHead) = 16
  /\ Begins(CStr(Bundle), BundleHead)
<1>1. Bundle \in Seq(Nat) /\ Len(Bundle) = 7
  BY DEF Bundle
<1>2. NulFree(Bundle)
  BY DEF NulFree, Bundle
<1> DEFINE p == CStr(Bundle)
<1>3. p \in Seq(Nat) /\ Len(p) = Padded(7)
  BY <1>1, CStrIs DEF PaddedTo
<1>4. Padded(7) = 8
  BY DEF Padded
<1>5. Now \in Seq(Nat) /\ Len(Now) = 8
  BY DEF Now
<1> HIDE DEF p
<1>6. p \o Now \in Seq(Nat) /\ Len(p \o Now) = Len(p) + Len(Now) /\ Begins(p, p \o Now)
  BY <1>3, <1>5, JoinIs
<1>7. Len(p) + Len(Now) = 16
  BY <1>3, <1>4, <1>5
<1>8. QED
  BY <1>1, <1>2, <1>3, <1>6, <1>7 DEF p, BundleHead

\* the items are messages that can be sent
Sendable(items) ==
  \A i \in 1..Len(items) :
    LET h == items[i].msg IN
    /\ heap[h] # None /\ Sound(h, heap[h]) /\ Fit(h, heap[h])
    /\ items[i].path \in Seq(Nat) /\ NulFree(items[i].path)

\* an item, serialised
Bytes(item) == Serialise(item.msg, heap[item.msg], item.path)

(* An element is four bytes and a message. *)
LEMMA ElementIs ==
  ASSUME NEW items, Sendable(items), NEW i \in 1..Len(items)
  PROVE  /\ Bytes(items[i]) \in Seq(Nat)
         /\ Len(Bytes(items[i])) = Length(heap[items[i].msg], items[i].path)
         /\ Word(Len(Bytes(items[i]))) \in Seq(Nat) /\ Len(Word(Len(Bytes(items[i])))) = 4
         /\ Element(items[i]) = Word(Len(Bytes(items[i]))) \o Bytes(items[i])
         /\ Element(items[i]) \in Seq(Nat)
<1> DEFINE h == items[i].msg
           m == heap[h]
           path == items[i].path
           b == Bytes(items[i])
           w == Word(Len(b))
<1>1. Sound(h, m) /\ path \in Seq(Nat)
  BY DEF Sendable
<1>2. b \in Seq(Nat)
  BY <1>1, SerialiseIs DEF Bytes
<1>3. Len(b) = Length(m, path)
  BY <1>1, LengthIs DEF Bytes
<1>4. Element(items[i]) = w \o b
  BY DEF Element, Bytes
<1> HIDE DEF b
<1>5. w \in Seq(Nat) /\ Len(w) = 4
  BY <1>2, WordIsFour
<1> HIDE DEF w
<1>6. w \o b \in Seq(Nat)
  BY <1>2, <1>5, ConcatProperties
<1>7. QED
  BY <1>2, <1>3, <1>4, <1>5, <1>6 DEF w, b

\* f has the first n elements of a bundle of N written
Writes(f, items, N) ==
  /\ f \in [0..N -> Seq(Nat)] /\ f[0] = BundleHead
  /\ \A n \in 1..N : f[n] = f[n - 1] \o Element(items[n])

(* lo_bundle_serialise writes one element after another. *)
LEMMA BytesAre ==
  ASSUME NEW items, Len(items) \in Nat, Sendable(items)
  PROVE  \E f : /\ Writes(f, items, Len(items))
                /\ BundleSerialise(items) =
                     IF Len(f[Len(items)]) = BundleLength(items) THEN f[Len(items)] ELSE None
<1> DEFINE N == Len(items)
           V == Seq(Nat)
           step == [n \in 1..N |-> [x \in V |-> x \o Element(items[n])]]
           IsBytes(f) == f = [n \in 0..N |-> IF n = 0 THEN BundleHead ELSE f[n - 1] \o Element(items[n])]
           all == CHOOSE f : IsBytes(f)
<1>1. N \in Nat /\ BundleHead \in V
  BY HeadIs
<1>2. \A n \in 1..N : Element(items[n]) \in V
  BY ElementIs
<1>3. \A n \in 1..N : step[n] \in [V -> V]
  <2> SUFFICES ASSUME NEW n \in 1..N, NEW x \in V PROVE x \o Element(items[n]) \in V
    OBVIOUS
  <2>1. QED
    BY <1>2, ConcatProperties
<1>4. PICK f \in [0..N -> V] : Repeats(f, BundleHead, step, N)
  <2> HIDE DEF step, N, V
  <2>1. QED
    BY <1>1, <1>3, Repetition
<1>5. \A n \in 0..N : f[n] = IF n = 0 THEN BundleHead ELSE step[n][f[n - 1]]
  <2> HIDE DEF step, N
  <2>1. QED
    BY <1>4 DEF Repeats
<1>6. \A n \in 0..N : n # 0 => n \in 1..N /\ n - 1 \in 0..N
  BY <1>1
<1>7. \A n \in 0..N : n # 0 => step[n][f[n - 1]] = f[n - 1] \o Element(items[n])
  BY <1>4, <1>6
<1> HIDE DEF step, V
<1>8. IsBytes(f)
  <2>1. f = [n \in 0..N |-> f[n]]
    BY <1>4
  <2>2. \A n \in 0..N : f[n] = IF n = 0 THEN BundleHead ELSE f[n - 1] \o Element(items[n])
    BY <1>5, <1>7
  <2> HIDE DEF N
  <2>3. QED
    BY <2>1, <2>2
<1>9. IsBytes(all)
  <2> HIDE DEF IsBytes
  <2>1. QED
    BY <1>8
<1>10. BundleSerialise(items) = IF Len(all[N]) = BundleLength(items) THEN all[N] ELSE None
  BY DEF BundleSerialise, BundleHead
<1> HIDE DEF all
<1>11. DOMAIN all = 0..N
       /\ \A n \in 0..N : all[n] = IF n = 0 THEN BundleHead ELSE all[n - 1] \o Element(items[n])
  <2> HIDE DEF N
  <2>1. QED
    BY <1>9
<1>12. all[0] = BundleHead /\ \A n \in 1..N : all[n] = all[n - 1] \o Element(items[n])
  <2>1. 0 \in 0..N /\ \A n \in 1..N : n \in 0..N /\ n # 0
    BY <1>1
  <2> HIDE DEF N
  <2>2. QED
    BY <1>11, <2>1
<1> DEFINE T == {n \in 0..N : all[n] \in V}
<1>13. 0 \in T
  BY <1>1, <1>12
<1>14. ASSUME NEW n \in 0..N - 1, n \in T PROVE n + 1 \in T
  <2> DEFINE j == n + 1
  <2>1. j \in 1..N /\ j \in 0..N /\ j - 1 = n
    BY <1>1
  <2>2. all[n] \in V
    BY <1>14
  <2> HIDE DEF j
  <2>3. all[j] = all[n] \o Element(items[j]) /\ Element(items[j]) \in V
    BY <1>2, <1>12, <2>1
  <2>4. all[j] \in V
    BY <2>2, <2>3, ConcatProperties DEF V
  <2>5. QED
    BY <2>1, <2>4 DEF j
<1> HIDE DEF T
<1>15. Inductive(T, N)
  BY <1>13, <1>14 DEF Inductive
<1>16. \A n \in 0..N : all[n] \in V
  <2> HIDE DEF N
  <2>1. \A n \in 0..N : n \in T
    BY <1>1, <1>15, AllNumbers
  <2>2. QED
    BY <2>1 DEF T
<1>17. all \in [0..N -> V]
  <2>1. all = [n \in 0..N |-> all[n]]
    <3> HIDE DEF N
    <3>1. QED
      BY <1>9
  <2> HIDE DEF N
  <2>2. QED
    BY <1>16, <2>1
<1>18. Writes(all, items, N)
  <2> HIDE DEF N
  <2>1. QED
    BY <1>12, <1>17 DEF Writes, V
<1>19. QED
  BY <1>10, <1>18

\* g has the length of the first n elements
Measures(g, items, N) ==
  /\ g[0] = 16
  /\ \A n \in 1..N : g[n] = g[n - 1] + 4 + Length(heap[items[n].msg], items[n].path)

(* lo_bundle_length adds up one length after another. *)
LEMMA LengthsAre ==
  ASSUME NEW items, Len(items) \in Nat, Sendable(items)
  PROVE  \E g : Measures(g, items, Len(items)) /\ BundleLength(items) = g[Len(items)]
<1> DEFINE N == Len(items)
           V == Nat
           size == [n \in 1..N |-> Length(heap[items[n].msg], items[n].path)]
           step == [n \in 1..N |-> [x \in V |-> x + 4 + size[n]]]
           IsLength(g) == g = [n \in 0..N |-> IF n = 0 THEN 16 ELSE
                                 g[n - 1] + 4 + Length(heap[items[n].msg], items[n].path)]
           all == CHOOSE g : IsLength(g)
<1>1. N \in Nat /\ 16 \in V
  OBVIOUS
<1>2. \A n \in 1..N : size[n] \in Nat
  <2> SUFFICES ASSUME NEW n \in 1..N PROVE size[n] \in Nat
    OBVIOUS
  <2>1. Bytes(items[n]) \in Seq(Nat)
        /\ Len(Bytes(items[n])) = Length(heap[items[n].msg], items[n].path)
    BY ElementIs
  <2> HIDE DEF N
  <2>2. Length(heap[items[n].msg], items[n].path) \in Nat
    BY <2>1
  <2>3. QED
    BY <2>2
<1>3. \A n \in 1..N : step[n] \in [V -> V]
  <2> SUFFICES ASSUME NEW n \in 1..N, NEW x \in V PROVE x + 4 + size[n] \in V
    OBVIOUS
  <2> HIDE DEF size
  <2>1. QED
    BY <1>2
<1>4. PICK g \in [0..N -> V] : Repeats(g, 16, step, N)
  <2> HIDE DEF step, N, V
  <2>1. QED
    BY <1>1, <1>3, Repetition
<1>5. \A n \in 0..N : g[n] = IF n = 0 THEN 16 ELSE step[n][g[n - 1]]
  <2> HIDE DEF step, N
  <2>1. QED
    BY <1>4 DEF Repeats
<1>6. \A n \in 0..N : n # 0 => n \in 1..N /\ n - 1 \in 0..N
  BY <1>1
<1>7. \A n \in 0..N : n # 0 =>
        step[n][g[n - 1]] = g[n - 1] + 4 + Length(heap[items[n].msg], items[n].path)
  <2> SUFFICES ASSUME NEW n \in 0..N, n # 0
               PROVE  step[n][g[n - 1]] = g[n - 1] + 4 + Length(heap[items[n].msg], items[n].path)
    OBVIOUS
  <2>1. n \in 1..N /\ g[n - 1] \in V
    BY <1>4, <1>6
  <2>2. size[n] = Length(heap[items[n].msg], items[n].path)
    BY <2>1
  <2> HIDE DEF size, N
  <2>3. step[n][g[n - 1]] = g[n - 1] + 4 + size[n]
    BY <2>1
  <2>4. QED
    BY <2>2, <2>3
<1> HIDE DEF step, V
<1>8. IsLength(g)
  <2>1. g = [n \in 0..N |-> g[n]]
    BY <1>4
  <2>2. \A n \in 0..N : g[n] = IF n = 0 THEN 16 ELSE
                          g[n - 1] + 4 + Length(heap[items[n].msg], items[n].path)
    BY <1>5, <1>7
  <2> HIDE DEF N
  <2>3. QED
    BY <2>1, <2>2
<1>9. IsLength(all)
  <2> HIDE DEF IsLength
  <2>1. QED
    BY <1>8
<1>10. BundleLength(items) = all[N]
  BY DEF BundleLength
<1> HIDE DEF all
<1>11. \A n \in 0..N : all[n] = IF n = 0 THEN 16 ELSE
                         all[n - 1] + 4 + Length(heap[items[n].msg], items[n].path)
  <2> HIDE DEF N
  <2>1. QED
    BY <1>9
<1>12. 0 \in 0..N /\ \A n \in 1..N : n \in 0..N /\ n # 0
  BY <1>1
<1>13. Measures(all, items, N)
  <2> HIDE DEF N
  <2>1. QED
    BY <1>11, <1>12 DEF Measures
<1>14. QED
  BY <1>10, <1>13

(* It does not matter which of three are joined first. *)
LEMMA JoinsAre ==
  ASSUME NEW a \in Seq(Nat), NEW b \in Seq(Nat), NEW c \in Seq(Nat)
  PROVE  (a \o b) \o c = a \o (b \o c)
  BY ConcatAssociative

(* An element more makes the bundle longer by its size and four, and it     *)
(* begins as before.                                                        *)
LEMMA WriteStep ==
  ASSUME NEW items, Sendable(items), NEW f, Writes(f, items, Len(items)), NEW n \in 1..Len(items)
  PROVE  /\ f[n - 1] \in Seq(Nat) /\ f[n] \in Seq(Nat)
         /\ f[n] = (f[n - 1] \o Word(Len(Bytes(items[n])))) \o Bytes(items[n])
         /\ f[n - 1] \o Word(Len(Bytes(items[n]))) \in Seq(Nat)
         /\ Len(f[n - 1] \o Word(Len(Bytes(items[n])))) = Len(f[n - 1]) + 4
         /\ Len(f[n]) = Len(f[n - 1]) + 4 + Len(Bytes(items[n]))
         /\ Begins(f[n - 1] \o Word(Len(Bytes(items[n]))), f[n])
         /\ Begins(f[n - 1], f[n])
<1> DEFINE N == Len(items)
           x == Bytes(items[n])
           w == Word(Len(x))
           a == f[n - 1]
           c == f[n]
           p == a \o w
<1>1. n - 1 \in 0..N /\ n \in 0..N
  OBVIOUS
<1>2. a \in Seq(Nat) /\ c \in Seq(Nat) /\ c = a \o Element(items[n])
  <2> HIDE DEF N
  <2>1. QED
    BY <1>1 DEF Writes, N
<1>3. x \in Seq(Nat) /\ w \in Seq(Nat) /\ Len(w) = 4 /\ Element(items[n]) = w \o x
  BY ElementIs
<1> HIDE DEF a, c, x, w
<1>4. c = p \o x
  <2>1. c = a \o (w \o x)
    BY <1>2, <1>3
  <2>2. a \in Seq(Nat) /\ w \in Seq(Nat) /\ x \in Seq(Nat)
    BY <1>2, <1>3
  <2>3. (a \o w) \o x = a \o (w \o x)
    BY <2>2, JoinsAre
  <2>4. QED
    BY <2>1, <2>3
<1>5. p \in Seq(Nat) /\ Len(p) = Len(a) + Len(w) /\ Begins(a, p)
  BY <1>2, <1>3, JoinIs
<1> HIDE DEF p
<1>6. Len(c) = Len(p) + Len(x) /\ Begins(p, c)
  BY <1>3, <1>4, <1>5, JoinIs
<1>7. Len(a) \in Nat /\ Len(p) \in Nat /\ Len(c) \in Nat /\ Len(x) \in Nat
  BY <1>2, <1>3, <1>5
<1>8. Begins(a, c)
  BY <1>5, <1>6, <1>7, BeginsThrough
<1>9. Len(p) = Len(a) + 4 /\ Len(c) = Len(a) + 4 + Len(x)
  BY <1>3, <1>5, <1>6
<1>10. QED
  BY <1>2, <1>4, <1>5, <1>6, <1>8, <1>9 DEF p, a, c, x, w

(* What is written first stays.                                             *)
LEMMA WritesOn ==
  ASSUME NEW items, Len(items) \in Nat, Sendable(items), NEW f, Writes(f, items, Len(items))
  PROVE  \A i \in 0..Len(items) : Begins(f[i], f[Len(items)]) /\ 16 + 4 * i <= Len(f[i])
<1> DEFINE N == Len(items)
           T == {k \in 0..N : 16 + 4 * k <= Len(f[k]) /\ \A i \in 0..k : Begins(f[i], f[k])}
<1>1. N \in Nat /\ f[0] = BundleHead /\ \A k \in 0..N : f[k] \in Seq(Nat) /\ Len(f[k]) \in Nat
  BY DEF Writes
<1>2. \A n \in 1..N : /\ Begins(f[n - 1], f[n])
                      /\ Len(f[n]) = Len(f[n - 1]) + 4 + Len(Bytes(items[n]))
                      /\ Len(Bytes(items[n])) \in Nat
  <2> SUFFICES ASSUME NEW n \in 1..N
               PROVE  /\ Begins(f[n - 1], f[n])
                      /\ Len(f[n]) = Len(f[n - 1]) + 4 + Len(Bytes(items[n]))
                      /\ Len(Bytes(items[n])) \in Nat
    OBVIOUS
  <2>1. Bytes(items[n]) \in Seq(Nat)
    BY ElementIs
  <2>2. Len(Bytes(items[n])) \in Nat
    <3> DEFINE x == Bytes(items[n])
    <3>1. x \in Seq(Nat)
      BY <2>1
    <3> HIDE DEF x
    <3>2. Len(x) \in Nat
      BY <3>1
    <3>3. QED
      BY <3>2 DEF x
  <2>3. QED
    BY <2>2, WriteStep
<1> HIDE DEF N
<1>3. 0 \in T
  <2>1. Begins(f[0], f[0])
    BY <1>1 DEF Begins
  <2>2. \A i \in 0..0 : i = 0
    OBVIOUS
  <2>3. 16 + 4 * 0 <= Len(f[0])
    BY <1>1, HeadIs
  <2>4. QED
    BY <1>1, <2>1, <2>2, <2>3
<1>4. ASSUME NEW k \in 0..N - 1, k \in T PROVE k + 1 \in T
  <2> DEFINE j == k + 1
  <2>1. j \in 1..N /\ j \in 0..N /\ j - 1 = k /\ k \in 0..N /\ j = k + 1
    BY <1>1
  <2>2. \A i \in 0..k : i \in 0..N
    BY <1>1
  <2>3. \A i \in 0..j : i \in 0..k \/ i = j
    BY <2>1
  <2> HIDE DEF j
  <2>4. Begins(f[k], f[j]) /\ Len(f[j]) = Len(f[k]) + 4 + Len(Bytes(items[j]))
        /\ Len(Bytes(items[j])) \in Nat
    BY <1>2, <2>1
  <2>5. 16 + 4 * k <= Len(f[k]) /\ \A i \in 0..k : Begins(f[i], f[k])
    BY <1>4
  <2>6. 16 + 4 * j <= Len(f[j])
    <3> DEFINE x == Len(f[k])
               y == Len(f[j])
               z == Len(Bytes(items[j]))
    <3>1. x \in Nat /\ z \in Nat /\ y = x + 4 + z /\ 16 + 4 * k <= x
      BY <1>1, <2>1, <2>4, <2>5
    <3> HIDE DEF x, y, z
    <3>2. 16 + 4 * j <= y
      BY <2>1, <3>1
    <3>3. QED
      BY <3>2 DEF y
  <2>7. \A i \in 0..k : Begins(f[i], f[j])
    BY <1>1, <2>1, <2>2, <2>4, <2>5, BeginsThrough
  <2>8. Begins(f[j], f[j])
    BY <1>1, <2>1 DEF Begins
  <2>9. j \in T
    BY <2>1, <2>3, <2>6, <2>7, <2>8
  <2>10. QED
    BY <2>1, <2>9
<1> HIDE DEF T
<1>5. Inductive(T, N)
  BY <1>3, <1>4 DEF Inductive
<1>6. \A k \in 0..N : k \in T
  BY <1>1, <1>5, AllNumbers
<1>7. \A k \in 0..N : 16 + 4 * k <= Len(f[k])
  BY <1>6 DEF T
<1>8. N \in T /\ N \in 0..N
  BY <1>1, <1>6
<1>9. \A i \in 0..N : Begins(f[i], f[N])
  BY <1>8 DEF T
<1>10. QED
  BY <1>7, <1>9 DEF N

(* The lengths that lo_bundle_length adds are those of what is written. *)
LEMMA LengthIsWritten ==
  ASSUME NEW items, Len(items) \in Nat, Sendable(items), NEW f, Writes(f, items, Len(items))
  PROVE  Len(f[Len(items)]) = BundleLength(items)
<1> DEFINE N == Len(items)
<1>1. PICK g : Measures(g, items, N) /\ BundleLength(items) = g[N]
  BY LengthsAre
<1> DEFINE T == {n \in 0..N : Len(f[n]) = g[n]}
<1>2. N \in Nat /\ Len(f[0]) = 16 /\ g[0] = 16
      /\ \A n \in 1..N : g[n] = g[n - 1] + 4 + Length(heap[items[n].msg], items[n].path)
  BY <1>1, HeadIs DEF Writes, Measures
<1>3. \A n \in 1..N : Len(f[n]) = Len(f[n - 1]) + 4 + Length(heap[items[n].msg], items[n].path)
  <2> SUFFICES ASSUME NEW n \in 1..N
               PROVE  Len(f[n]) = Len(f[n - 1]) + 4 + Length(heap[items[n].msg], items[n].path)
    OBVIOUS
  <2>1. Len(f[n]) = Len(f[n - 1]) + 4 + Len(Bytes(items[n]))
    BY WriteStep
  <2>2. Len(Bytes(items[n])) = Length(heap[items[n].msg], items[n].path)
    BY ElementIs
  <2>3. QED
    BY <2>1, <2>2
<1> HIDE DEF N
<1>4. 0 \in T
  <2>1. 0 \in 0..N /\ Len(f[0]) = g[0]
    BY <1>2
  <2>2. QED
    BY <2>1
<1>5. ASSUME NEW n \in 0..N - 1, n \in T PROVE n + 1 \in T
  <2> DEFINE j == n + 1
  <2>1. j \in 1..N /\ j \in 0..N /\ j - 1 = n
    BY <1>2
  <2> HIDE DEF j
  <2>2. Len(f[j]) = g[j]
    BY <1>2, <1>3, <1>5, <2>1
  <2>3. QED
    BY <2>1, <2>2 DEF j
<1> HIDE DEF T
<1>6. Inductive(T, N)
  BY <1>4, <1>5 DEF Inductive
<1>7. N \in 0..N /\ N \in T
  BY <1>2, <1>6, AllNumbers
<1>8. Len(f[N]) = g[N]
  BY <1>7 DEF T
<1>9. QED
  BY <1>1, <1>8 DEF N

-----------------------------------------------------------------------------
(* A bundle, walked by its receiver. *)

\* the element behind the one at v
NextAt(b, v) ==
  IF v \in {-1, Len(b)} THEN -1
  ELSE LET end == ElementEnd(b, v) IN IF end > Len(b) THEN -1 ELSE end

(* It is an offset, or none. *)
LEMMA NextAtIs ==
  ASSUME NEW b \in Seq(Nat), NEW v \in {-1} \cup 0..Len(b)
  PROVE  NextAt(b, v) \in {-1} \cup 0..Len(b)
<1>1. Len(b) \in Nat
  OBVIOUS
<1>2. CASE v \in {-1, Len(b)}
  BY <1>2 DEF NextAt
<1>3. CASE v \notin {-1, Len(b)} /\ v + 4 > Len(b)
  BY <1>1, <1>3 DEF NextAt, ElementEnd
<1>4. CASE v \notin {-1, Len(b)} /\ ~ (v + 4 > Len(b))
  <2> DEFINE w == SubSeq(b, v + 1, v + 4)
             n == BigEndian(w)
  <2>1. v \in Nat /\ v + 4 <= Len(b) /\ 4 \in Nat
    BY <1>1, <1>4
  <2>2. w \in Seq(Nat) /\ Len(w) = 4
    BY <2>1, PieceIs
  <2> HIDE DEF w
  <2>3. 1 \in 1..Len(w) /\ 2 \in 1..Len(w) /\ 3 \in 1..Len(w) /\ 4 \in 1..Len(w)
    BY <2>2
  <2>4. w[1] \in Nat /\ w[2] \in Nat /\ w[3] \in Nat /\ w[4] \in Nat
    BY <2>2, <2>3, ElementOfSeq
  <2>5. n \in Nat
    <3> DEFINE x == w[1]
               y == w[2]
               z == w[3]
               u == w[4]
    <3>1. x \in Nat /\ y \in Nat /\ z \in Nat /\ u \in Nat
      BY <2>4
    <3>2. n = ((x * 256 + y) * 256 + z) * 256 + u
      BY DEF BigEndian
    <3> HIDE DEF n, x, y, z, u
    <3>3. QED
      BY <3>1, <3>2
  <2>6. NextAt(b, v) = IF v + 4 + n > Len(b) THEN -1 ELSE v + 4 + n
    BY <1>4 DEF NextAt, ElementEnd, w
  <2> HIDE DEF n
  <2>7. QED
    BY <1>1, <2>1, <2>5, <2>6
<1>5. QED
  BY <1>2, <1>3, <1>4

\* at says where the elements of b begin
Walks(at, b, M) == at = [i \in 0..M |-> IF i = 0 THEN 16 ELSE NextAt(b, at[i - 1])]

(* ElementAt goes from one element to the next. *)
LEMMA ElementAtIs ==
  ASSUME NEW b \in Seq(Nat), Len(b) >= 16
  PROVE  Walks(ElementAt(b), b, Len(b) \div 4)
<1> DEFINE M == Len(b) \div 4
           V == {-1} \cup 0..Len(b)
           step == [n \in 1..M |-> [v \in V |-> NextAt(b, v)]]
<1>1. M \in Nat /\ 16 \in V
  <2> DEFINE n == Len(b)
  <2>1. n \in Nat /\ n >= 16
    OBVIOUS
  <2> HIDE DEF n
  <2>2. n \div 4 \in Nat /\ 16 \in 0..n
    BY <2>1
  <2>3. QED
    BY <2>2 DEF n
<1>2. \A n \in 1..M : step[n] \in [V -> V]
  <2> HIDE DEF M
  <2>1. \A v \in V : NextAt(b, v) \in V
    BY NextAtIs
  <2> HIDE DEF V
  <2>2. QED
    BY <2>1
<1>3. PICK f \in [0..M -> V] : Repeats(f, 16, step, M)
  <2> HIDE DEF step, M, V
  <2>1. QED
    BY <1>1, <1>2, Repetition
<1>4. \A n \in 0..M : f[n] = IF n = 0 THEN 16 ELSE step[n][f[n - 1]]
  <2> HIDE DEF step, M
  <2>1. QED
    BY <1>3 DEF Repeats
<1>5. \A n \in 0..M : n # 0 => n \in 1..M /\ n - 1 \in 0..M
  <2> HIDE DEF M
  <2>1. QED
    BY <1>1
<1>6. \A n \in 0..M : n # 0 => step[n][f[n - 1]] = NextAt(b, f[n - 1])
  <2> HIDE DEF M, V
  <2>1. QED
    BY <1>3, <1>5
<1> HIDE DEF step, M
<1>7. \A n \in 0..M : f[n] = IF n = 0 THEN 16 ELSE NextAt(b, f[n - 1])
  BY <1>4, <1>6
<1>8. f = [n \in 0..M |-> f[n]]
  <2> HIDE DEF V
  <2>1. QED
    BY <1>3
<1>9. Walks(f, b, M)
  BY <1>7, <1>8 DEF Walks
<1>10. ElementAt(b) = CHOOSE at : Walks(at, b, M)
  BY DEF ElementAt, Walks, NextAt, M
<1>11. QED
  BY <1>9, <1>10 DEF M

(* The receiver reads the size of an element, finds the message behind it,  *)
(* and goes on where the next one was written.                              *)
LEMMA WalkStep ==
  ASSUME NEW items, Len(items) \in Nat, Sendable(items), NEW f, Writes(f, items, Len(items)),
         NEW n \in 1..Len(items)
  PROVE  /\ NextAt(f[Len(items)], Len(f[n - 1])) = Len(f[n])
         /\ SubSeq(f[Len(items)], Len(f[n - 1]) + 5, Len(f[n])) = Bytes(items[n])
         /\ Len(f[n]) <= Len(f[Len(items)])
<1> DEFINE N == Len(items)
           b == f[N]
           a == f[n - 1]
           c == f[n]
           x == Bytes(items[n])
           w == Word(Len(x))
           p == a \o w
<1>1. x \in Seq(Nat) /\ w \in Seq(Nat) /\ Len(w) = 4
  BY ElementIs
<1>2. a \in Seq(Nat) /\ c \in Seq(Nat) /\ p \in Seq(Nat)
      /\ c = p \o x /\ Len(p) = Len(a) + 4 /\ Begins(p, c)
  BY WriteStep
<1>3. Begins(c, b)
  <2>1. n \in 0..N
    OBVIOUS
  <2>2. \A i \in 0..N : Begins(f[i], b)
    BY WritesOn
  <2> HIDE DEF N
  <2>3. QED
    BY <2>1, <2>2
<1>4. b \in Seq(Nat)
  <2>1. N \in 0..N
    OBVIOUS
  <2> HIDE DEF N
  <2>2. QED
    BY <2>1 DEF Writes, N
<1> HIDE DEF b, a, c, x, w, p
<1>5. Len(a) \in Nat /\ Len(c) \in Nat /\ Len(p) \in Nat /\ Len(x) \in Nat /\ Len(b) \in Nat
  BY <1>1, <1>2, <1>4
<1>6. Begins(p, b)
  BY <1>2, <1>3, <1>5, BeginsThrough
<1>7. SubSeq(b, Len(a) + 1, Len(a) + 4) = w /\ Len(a) + 4 <= Len(b)
  <2>1. Begins(a \o w, b)
    BY <1>6 DEF p
  <2>2. SubSeq(b, Len(a) + 1, Len(a) + Len(w)) = w /\ Len(a) + Len(w) <= Len(b)
    BY <1>1, <1>2, <1>4, <2>1, PieceBehind
  <2>3. QED
    BY <1>1, <2>2
<1>8. SubSeq(b, Len(p) + 1, Len(p) + Len(x)) = x /\ Len(p) + Len(x) <= Len(b)
  <2>1. Begins(p \o x, b)
    BY <1>2, <1>3
  <2>2. QED
    BY <1>1, <1>2, <1>4, <2>1, PieceBehind
<1>9. Len(c) = Len(p) + Len(x)
  BY <1>1, <1>2, JoinIs
<1>10. BigEndian(w) = Len(x)
  BY <1>5, WordRead DEF w
<1> DEFINE u == Len(a)
           l == Len(x)
           m == Len(b)
           e == Len(c)
<1>11. u \in Nat /\ l \in Nat /\ m \in Nat /\ e = u + 4 + l /\ e <= m /\ u + 4 <= m
  BY <1>2, <1>5, <1>7, <1>8, <1>9
<1>12. ElementEnd(b, u) = u + 4 + l
  <2>1. ElementEnd(b, u) = IF u + 4 > m THEN -1 ELSE u + 4 + l
    BY <1>7, <1>10 DEF ElementEnd
  <2> HIDE DEF u, l, m, e
  <2>2. QED
    BY <1>11, <2>1
<1>13. NextAt(b, u) = e
  <2>1. NextAt(b, u) = IF u \in {-1, m} THEN -1 ELSE IF u + 4 + l > m THEN -1 ELSE u + 4 + l
    BY <1>12 DEF NextAt
  <2> HIDE DEF u, l, m, e
  <2>2. u # -1 /\ u # m /\ ~ (u + 4 + l > m)
    BY <1>11
  <2>3. QED
    BY <1>11, <2>1, <2>2
<1>14. SubSeq(b, u + 5, e) = x
  <2>1. Len(p) + 1 = u + 5
    BY <1>2, <1>5
  <2>2. QED
    BY <1>8, <1>9, <2>1
<1>15. QED
  BY <1>11, <1>13, <1>14 DEF b, a, c, x, u, e, m

\* the walk comes by where the elements were written
Arrives(at, f, N) == \A i \in 0..N : at[i] = Len(f[i])

(* The receiver walks from one element to the next, to the end.  He has a   *)
(* step for every four bytes: there are no more elements than that.         *)
LEMMA BundleWalk ==
  ASSUME NEW items, Len(items) \in Nat, Sendable(items), NEW f, Writes(f, items, Len(items))
  PROVE  /\ f[Len(items)] \in Seq(Nat) /\ Len(f[Len(items)]) >= 16
         /\ Len(items) \in DOMAIN ElementAt(f[Len(items)])
         /\ Arrives(ElementAt(f[Len(items)]), f, Len(items))
<1> DEFINE N == Len(items)
           b == f[N]
           M == Len(b) \div 4
           at == ElementAt(b)
<1>1. N \in 0..N /\ N \in Nat
  OBVIOUS
<1>2. b \in Seq(Nat)
  <2> HIDE DEF N
  <2>1. QED
    BY <1>1 DEF Writes, N
<1>3. 16 + 4 * N <= Len(b)
  <2>1. \A i \in 0..N : 16 + 4 * i <= Len(f[i])
    BY WritesOn
  <2> HIDE DEF N
  <2>2. QED
    BY <1>1, <2>1
<1>4. Len(b) >= 16 /\ N <= M /\ M \in Nat
  <2> DEFINE n == Len(b)
  <2>1. n \in Nat /\ 16 + 4 * N <= n
    BY <1>2, <1>3
  <2> HIDE DEF n, N
  <2>2. n >= 16 /\ n \div 4 \in Nat /\ N <= n \div 4
    BY <1>1, <2>1
  <2>3. QED
    BY <2>2 DEF n
<1>5. Walks(at, b, M)
  BY <1>2, <1>4, ElementAtIs
<1>6. f[0] = BundleHead /\ Len(BundleHead) = 16
  BY HeadIs DEF Writes
<1>7. \A n \in 1..N : NextAt(b, Len(f[n - 1])) = Len(f[n])
  BY WalkStep
<1> HIDE DEF N, b, M, at
<1>8. DOMAIN at = 0..M /\ \A i \in 0..M : at[i] = IF i = 0 THEN 16 ELSE NextAt(b, at[i - 1])
  BY <1>5 DEF Walks
<1> DEFINE T == {i \in 0..N : at[i] = Len(f[i])}
<1>9. 0 \in T
  <2>1. 0 \in 0..N /\ 0 \in 0..M
    BY <1>1, <1>4
  <2>2. at[0] = 16
    BY <1>8, <2>1
  <2>3. QED
    BY <1>6, <2>1, <2>2
<1>10. ASSUME NEW i \in 0..N - 1, i \in T PROVE i + 1 \in T
  <2> DEFINE j == i + 1
  <2>1. j \in 0..N /\ j \in 1..N /\ j \in 0..M /\ j - 1 = i /\ j # 0
    BY <1>1, <1>4
  <2>2. at[i] = Len(f[i])
    BY <1>10
  <2> HIDE DEF j
  <2>3. at[j] = NextAt(b, at[i])
    BY <1>8, <2>1
  <2>4. NextAt(b, Len(f[i])) = Len(f[j])
    BY <1>7, <2>1
  <2>5. QED
    BY <2>1, <2>2, <2>3, <2>4 DEF j
<1> HIDE DEF T
<1>11. Inductive(T, N)
  BY <1>9, <1>10 DEF Inductive
<1>12. \A i \in 0..N : i \in T
  BY <1>1, <1>11, AllNumbers
<1>13. Arrives(at, f, N)
  BY <1>12 DEF Arrives, T
<1>14. N \in DOMAIN at
  BY <1>1, <1>4, <1>8
<1>15. QED
  BY <1>2, <1>4, <1>13, <1>14 DEF N, b, at

(* A bundle as it was written is valid, and its elements are messages.      *)
LEMMA BundleIsValid ==
  ASSUME NEW items, Len(items) \in Nat, Sendable(items), NEW f, Writes(f, items, Len(items))
  PROVE  ValidBundle(f[Len(items)])
<1> DEFINE N == Len(items)
           b == f[N]
           p == CStr(Bundle)
           r == From(b, Len(p))
           at == ElementAt(b)
<1>1. b \in Seq(Nat) /\ Len(b) >= 16 /\ N \in DOMAIN at /\ Arrives(at, f, N)
  BY BundleWalk
<1>2. N \in 0..N /\ 0 \in 0..N
  OBVIOUS
<1>3. p \in Seq(Nat) /\ f[0] \in Seq(Nat) /\ Begins(p, f[0]) /\ Bundle \in Seq(Nat) /\ NulFree(Bundle)
  BY HeadIs DEF Writes
<1>4. Begins(f[0], b)
  <2>1. \A i \in 0..N : Begins(f[i], b)
    BY WritesOn
  <2> HIDE DEF N
  <2>2. QED
    BY <1>2, <2>1
<1> HIDE DEF N, p, b, at
<1>5. Begins(p, b)
  <2>1. Len(p) \in Nat /\ Len(f[0]) \in Nat /\ Len(b) \in Nat
    BY <1>1, <1>3
  <2>2. QED
    BY <1>3, <1>4, <2>1, BeginsThrough
<1>6. r \in Seq(Nat) /\ b = p \o r
  BY <1>1, <1>3, <1>5, BeginsJoin
<1> HIDE DEF r
<1>7. /\ StrLen(p \o r) = Len(Bundle)
      /\ ValidString(p \o r) = Len(p)
      /\ SubSeq(p \o r, 1, Len(Bundle)) = Bundle
  BY <1>3, <1>6, StringFirst DEF p
<1>8. ValidString(b) >= 0 /\ SubSeq(b, 1, StrLen(b)) = Bundle
  <2>1. ValidString(b) = Len(p) /\ SubSeq(b, 1, StrLen(b)) = Bundle
    BY <1>6, <1>7
  <2>2. Len(p) >= 0
    BY <1>3
  <2>3. QED
    BY <2>1, <2>2
<1>9. at[N] = Len(b)
  BY <1>1, <1>2 DEF Arrives, b
<1>10. ValidBundle(b)
  BY <1>1, <1>8, <1>9 DEF ValidBundle, at
<1>11. QED
  BY <1>10 DEF b, N

\* what an item was when it was sent
ItemIs(item, m) ==
  m # None /\ m.types = heap[item.msg].types /\ m.data = heap[item.msg].data

\* a failure is not a sequence of bytes either
NoneIsNoBuffer == None \notin Seq(Nat)

(* lo_bundle_serialise does not fail, and what it writes is read.           *)
LEMMA BundleRead ==
  ASSUME NoneIsNoMessage, NoneIsNoBuffer, NEW items, Len(items) \in Nat, Sendable(items)
  PROVE  LET b == BundleSerialise(items) IN
         /\ b # None /\ ValidBundle(b)
         /\ \A i \in 1..Len(items) :
              ItemIs(items[i], Deserialise(items[i].msg,
                       SubSeq(b, ElementAt(b)[i - 1] + 5, ElementAt(b)[i])))
<1> DEFINE N == Len(items)
           b == BundleSerialise(items)
           at == ElementAt(b)
<1>1. PICK f : Writes(f, items, N) /\ b = IF Len(f[N]) = BundleLength(items) THEN f[N] ELSE None
  BY BytesAre
<1>2. b = f[N]
  BY <1>1, LengthIsWritten
<1>3. f[N] \in Seq(Nat) /\ Arrives(ElementAt(f[N]), f, N)
  BY <1>1, BundleWalk
<1>4. ValidBundle(f[N])
  BY <1>1, BundleIsValid
<1>5. ASSUME NEW i \in 1..N
      PROVE  ItemIs(items[i], Deserialise(items[i].msg, SubSeq(b, at[i - 1] + 5, at[i])))
  <2>1. i \in 0..N /\ i - 1 \in 0..N
    OBVIOUS
  <2>2. SubSeq(f[N], Len(f[i - 1]) + 5, Len(f[i])) = Bytes(items[i])
    BY <1>1, WalkStep
  <2>3. at[i - 1] = Len(f[i - 1]) /\ at[i] = Len(f[i])
    <3> HIDE DEF N, b
    <3>1. QED
      BY <1>2, <1>3, <2>1 DEF Arrives
  <2>4. SubSeq(b, at[i - 1] + 5, at[i]) = Bytes(items[i])
    <3> HIDE DEF N, b, at
    <3>1. QED
      BY <1>2, <2>2, <2>3
  <2> DEFINE h == items[i].msg
             m == heap[h]
             path == items[i].path
             c == Bytes(items[i])
  <2>5. Sound(h, m) /\ Fit(h, m) /\ path \in Seq(Nat) /\ NulFree(path)
    BY DEF Sendable
  <2>6. c = Serialise(h, m, path)
    BY DEF Bytes
  <2>7. c \in Seq(Nat)
    BY ElementIs
  <2> HIDE DEF h, m, path, c
  <2>8. Accepted(c) /\ Deserialise(h, c).types = m.types /\ Deserialise(h, c).data = m.data
    BY <2>5, <2>6, RoundTrip
  <2>9. Deserialise(h, c) # None
    BY <2>7, <2>8, ArrivesSound, SoundIsMessage DEF NoneIsNoMessage
  <2>10. ItemIs(items[i], Deserialise(h, c))
    BY <2>8, <2>9 DEF ItemIs, h, m
  <2> HIDE DEF b, at, N
  <2>11. QED
    BY <2>4, <2>10 DEF h, c
<1> HIDE DEF N, b, at
<1>6. b # None /\ ValidBundle(b)
  BY <1>2, <1>3, <1>4 DEF NoneIsNoBuffer
<1>7. QED
  BY <1>5, <1>6 DEF b, at, N

(* A program frees a message, or makes one of its address, when it has no   *)
(* bundle: what a bundle names is there.                                    *)
ItemsLive ==
  bundle # None => \A i \in 1..Len(bundle.items) : heap[bundle.items[i].msg] # None

(* The items of a bundle are messages and paths of the program. *)
LEMMA ItemsAreNamed ==
  ASSUME MessageInv, bundle # None
  PROVE  /\ DOMAIN bundle.items = 1..Len(bundle.items) /\ Len(bundle.items) \in Nat
         /\ \A i \in 1..Len(bundle.items) :
              bundle.items[i].msg \in Handles /\ bundle.items[i].path \in Paths
<1> DEFINE items == bundle.items
           S == [path : Paths, msg : Handles]
<1>1. items \in Seq(S)
  BY DEF MessageInv, BundleSound
<1> HIDE DEF items, S
<1>2. DOMAIN items = 1..Len(items) /\ Len(items) \in Nat /\ \A i \in 1..Len(items) : items[i] \in S
  BY <1>1, ElementOfSeq
<1>3. \A i \in 1..Len(items) : items[i].msg \in Handles /\ items[i].path \in Paths
  BY <1>2 DEF S
<1>4. QED
  BY <1>2, <1>3 DEF items

(* It stays so. *)
LEMMA LiveStep ==
  ASSUME Good, NoneIsNoMessage, MessageInv, ItemsLive, [Next]_vars
  PROVE  ItemsLive'
<1>1. CASE UNCHANGED vars
  BY <1>1 DEF vars, ItemsLive
<1>2. ASSUME bundle' = None PROVE ItemsLive'
  BY <1>2 DEF ItemsLive
<1>3. ASSUME NEW h \in Handles, GetArgv(h) PROVE ItemsLive'
  <2> DEFINE m == [heap[h] EXCEPT !.argv = ArgvOf(h, heap[h])]
  <2>1. Sound(h, heap[h]) /\ heap \in [Handles -> MessageSet \cup {None}]
    BY <1>3 DEF GetArgv, Live, MessageInv, MessagesSound
  <2>2. m # None
    BY <2>1, ArgvSound, SoundIsMessage DEF NoneIsNoMessage
  <2>3. heap' = [heap EXCEPT ![h] = m] /\ bundle' = bundle
    BY <1>3 DEF GetArgv
  <2> HIDE DEF m
  <2>4. \A g \in Handles : heap'[g] = IF g = h THEN m ELSE heap[g]
    BY <2>1, <2>3
  <2>5. bundle # None => \A i \in 1..Len(bundle.items) : bundle.items[i].msg \in Handles
    BY ItemsAreNamed
  <2>6. QED
    BY <2>2, <2>3, <2>4, <2>5 DEF ItemsLive
<1>4. CASE BundleNew
  BY <1>4 DEF BundleNew, ItemsLive
<1>5. ASSUME NEW h \in Handles, NEW path \in Paths, BundleAdd(h, path) PROVE ItemsLive'
  <2> DEFINE S == [path : Paths, msg : Handles]
             items == bundle.items
             item == [path |-> path, msg |-> h]
             more == Append(items, item)
  <2>1. items \in Seq(S) /\ item \in S
    BY <1>5 DEF BundleAdd, MessageInv, BundleSound
  <2>2. heap[item.msg] # None
    BY <1>5 DEF BundleAdd, Live
  <2>3. \A i \in 1..Len(items) : heap[items[i].msg] # None
    BY <1>5 DEF BundleAdd, ItemsLive
  <2>4. heap' = heap /\ bundle'.items = more
    BY <1>5 DEF BundleAdd
  <2> HIDE DEF S, items, item
  <2>5. /\ Len(more) = Len(items) + 1
        /\ \A i \in 1..Len(items) : more[i] = items[i]
        /\ more[Len(items) + 1] = item
    BY <2>1, AppendProperties
  <2>6. Len(items) \in Nat
    BY <2>1
  <2> HIDE DEF more
  <2>7. \A i \in 1..Len(more) : i \in 1..Len(items) \/ i = Len(items) + 1
    <3> DEFINE n == Len(items)
    <3>1. n \in Nat /\ Len(more) = n + 1
      BY <2>5, <2>6
    <3> HIDE DEF n
    <3>2. \A i \in 1..n + 1 : i \in 1..n \/ i = n + 1
      BY <3>1
    <3>3. QED
      BY <3>1, <3>2 DEF n
  <2>8. \A i \in 1..Len(more) : heap[more[i].msg] # None
    BY <2>2, <2>3, <2>5, <2>7
  <2>9. QED
    BY <2>4, <2>8 DEF ItemsLive
<1>6. ASSUME NEW h \in Handles, New(h) \/ Free(h) PROVE bundle' = None
  BY <1>6 DEF New, Free, Unlisted
<1>7. ASSUME NEW h \in Handles, NEW a \in Arguments, Add(h, a) PROVE bundle' = None
  BY <1>7 DEF Add, Unlisted
<1>8. ASSUME NEW h \in Handles, NEW list \in Varargs, AddVarargs(h, list) PROVE bundle' = None
  BY <1>8 DEF AddVarargs, Unlisted
<1>9. ASSUME NEW from \in Handles, NEW to \in Handles, NEW path \in Paths, Receive(from, to, path)
      PROVE  bundle' = None
  BY <1>9 DEF Receive, Unlisted
<1>10. BundleFree \/ BundleFreeMessages => bundle' = None
  BY DEF BundleFree, BundleFreeMessages
<1>11. QED
  BY <1>1, <1>2, <1>3, <1>4, <1>5, <1>6, <1>7, <1>8, <1>9, <1>10 DEF Next

(* What is in a bundle can be sent. *)
LEMMA ItemsAreSendable ==
  ASSUME Good, GoodPaths, MessageInv, MessagesFit, ItemsLive, bundle # None
  PROVE  Len(bundle.items) \in Nat /\ Sendable(bundle.items)
<1> DEFINE items == bundle.items
<1>1. \A i \in 1..Len(items) : heap[items[i].msg] # None
  BY DEF ItemsLive
<1>2. /\ Len(items) \in Nat
      /\ \A i \in 1..Len(items) : items[i].msg \in Handles /\ items[i].path \in Paths
  BY ItemsAreNamed
<1> HIDE DEF items
<1>3. \A h \in Handles : heap[h] # None => Sound(h, heap[h]) /\ Fit(h, heap[h])
  BY DEF MessageInv, MessagesSound, MessagesFit
<1>4. \A path \in Paths : path \in Seq(Nat) /\ NulFree(path)
  BY DEF Good, GoodBytes, GoodPaths
<1>5. Sendable(items)
  BY <1>1, <1>2, <1>3, <1>4 DEF Sendable
<1>6. QED
  BY <1>2, <1>5 DEF items

(* BundleArrives, for any messages that lo_validate_blob lets through and   *)
(* any paths: lo_bundle_serialise never fails for a bundle, its receiver    *)
(* finds it valid, and each of its elements is the message that was added,  *)
(* with the same arguments.                                                 *)
THEOREM BundlesArrive ==
  ASSUME Good, SmallBlobs, GoodPaths, NoneIsNoMessage, NoneIsNoBuffer
  PROVE  Spec => []BundleArrives
<1> DEFINE Inv == MessageInv /\ MessagesFit /\ ItemsLive
<1>1. Init => Inv
  BY MessageStart DEF Init, MessagesFit, ItemsLive
<1>2. Inv /\ [Next]_vars => Inv'
  BY MessageStep, FitStep, LiveStep
<1>3. Inv => BundleArrives
  <2> SUFFICES ASSUME Inv, bundle # None
               PROVE  LET items == bundle.items  b == BundleSerialise(items) IN
                      /\ b # None /\ ValidBundle(b)
                      /\ \A i \in DOMAIN items :
                           LET at == ElementAt(b)[i - 1]
                               m == Deserialise(items[i].msg, SubSeq(b, at + 5, ElementAt(b)[i]))
                           IN  m # None /\ m.types = heap[items[i].msg].types
                                        /\ m.data = heap[items[i].msg].data
    BY DEF BundleArrives
  <2> DEFINE items == bundle.items
             b == BundleSerialise(items)
  <2>1. Len(items) \in Nat /\ Sendable(items)
    BY ItemsAreSendable
  <2>2. DOMAIN items = 1..Len(items)
    BY ItemsAreNamed
  <2> HIDE DEF items
  <2>3. /\ b # None /\ ValidBundle(b)
        /\ \A i \in 1..Len(items) :
             ItemIs(items[i], Deserialise(items[i].msg,
                      SubSeq(b, ElementAt(b)[i - 1] + 5, ElementAt(b)[i])))
    BY <2>1, BundleRead
  <2> HIDE DEF b
  <2>4. QED
    BY <2>2, <2>3 DEF ItemIs, b, items
<1>4. QED
  BY <1>1, <1>2, <1>3, PTL DEF Spec

-----------------------------------------------------------------------------
(* The value of an argument. *)

(* Buffers that begin alike have the same pieces there. *)
LEMMA PieceBegins ==
  ASSUME NEW p \in Seq(Nat), NEW c \in Seq(Nat), Begins(p, c), NEW v \in Nat, NEW w \in Nat,
         v + w <= Len(p)
  PROVE  SubSeq(c, v + 1, v + w) = SubSeq(p, v + 1, v + w)
<1> DEFINE x == SubSeq(p, v + 1, v + w)
           y == SubSeq(c, v + 1, v + w)
<1>1. Len(p) \in Nat /\ Len(c) \in Nat /\ Len(p) <= Len(c) /\ \A k \in 1..Len(p) : c[k] = p[k]
  BY DEF Begins
<1>2. v + w <= Len(c)
  BY <1>1
<1>3. x \in Seq(Nat) /\ Len(x) = w /\ \A k \in 1..w : x[k] = p[v + k]
  BY PieceIs
<1>4. y \in Seq(Nat) /\ Len(y) = w /\ \A k \in 1..w : y[k] = c[v + k]
  BY <1>2, PieceIs
<1> HIDE DEF x, y
<1>5. \A k \in 1..w : v + k \in 1..Len(p)
  <2> DEFINE n == Len(p)
  <2>1. n \in Nat /\ v + w <= n
    BY <1>1
  <2> HIDE DEF n
  <2>2. \A k \in 1..w : v + k \in 1..n
    BY <2>1
  <2>3. QED
    BY <2>2 DEF n
<1>6. \A k \in 1..w : y[k] = x[k]
  BY <1>1, <1>3, <1>4, <1>5
<1>7. x = y
  BY <1>3, <1>4, <1>6, SeqEqual
<1>8. QED
  BY <1>7 DEF x, y

(* Where strlen ends in a string with its padding. *)
LEMMA StringEnds ==
  ASSUME NEW b \in Seq(Nat), NEW s \in Nat, s <= Len(b), NEW n \in Nat, s = Padded(n),
         NoNul(b, 0, n), Nuls(b, 0, n, s)
  PROVE  StrLen(b) = n /\ n < s
<1>0. n < s /\ Len(b) \in Nat
  BY PaddedIs
<1>1. n < Len(b) /\ n \in 0..Len(b) /\ n + 1 \in n + 1..s
  BY <1>0
<1>2. (\A k \in 1..n : b[k] # 0) /\ (\A k \in n + 1..s : b[k] = 0)
  BY AtHead
<1>3. Ends(b, n)
  BY <1>1, <1>2 DEF Ends
<1>4. QED
  BY <1>0, <1>1, <1>3, StrLenIsOnly

(* The value, kind by kind. *)
LEMMA ValueIs ==
  ASSUME NEW h, NEW t \in Types, NEW b
  PROVE  /\ t \in NoData => Value(h, t, b) = << >>
         /\ t \in Strings => Value(h, t, b) = SubSeq(b, 1, StrLen(b))
         /\ t = LO_BLOB => Value(h, t, b) =
                             SubSeq(b, 5, 4 + BigEndian(Swap32(h \in Little, SubSeq(b, 1, 4))))
         /\ t \in {LO_MIDI, LO_CHAR} => Value(h, t, b) = SubSeq(b, 1, 4)
         /\ t \in {LO_INT32, LO_FLOAT} => Value(h, t, b) = InMemory(h \in Little, t, SubSeq(b, 1, 4))
         /\ t \in EightBytes => Value(h, t, b) = InMemory(h \in Little, t, SubSeq(b, 1, 8))
<1>1. /\ t \in FourBytes => ArgSize(h \in Little, t, b) = 4
      /\ t \in EightBytes => ArgSize(h \in Little, t, b) = 8
  BY ArgSizeIs
<1>2. /\ {LO_MIDI, LO_CHAR} \subseteq FourBytes /\ {LO_INT32, LO_FLOAT} \subseteq FourBytes
      /\ {LO_MIDI, LO_CHAR} \cap {LO_INT32, LO_FLOAT} = {}
  BY DEF FourBytes, LO_MIDI, LO_CHAR, LO_INT32, LO_FLOAT
<1>3. CASE t \in NoData
  BY <1>2, <1>3, Kinds DEF Value
<1>4. CASE t \in Strings
  BY <1>2, <1>4, Kinds DEF Value
<1>5. CASE t = LO_BLOB
  BY <1>2, <1>5, Kinds DEF Value
<1>6. CASE t \in {LO_MIDI, LO_CHAR}
  BY <1>2, <1>6, Kinds DEF Value
<1>7. CASE t \in {LO_INT32, LO_FLOAT}
  <2>1. t \in FourBytes /\ t \notin {LO_MIDI, LO_CHAR}
    BY <1>2, <1>7
  <2>2. t \notin NoData \cup EightBytes \cup Strings \cup {LO_BLOB}
    BY <2>1, Kinds
  <2>3. Value(h, t, b) = InMemory(h \in Little, t, SubSeq(b, 1, ArgSize(h \in Little, t, b)))
    BY <2>1, <2>2 DEF Value
  <2>4. QED
    BY <1>1, <2>1, <2>2, <2>3
<1>8. CASE t \in EightBytes
  <2>1. t \notin NoData \cup FourBytes \cup Strings \cup {LO_BLOB}
    BY <1>8, Kinds
  <2>2. Value(h, t, b) = InMemory(h \in Little, t, SubSeq(b, 1, ArgSize(h \in Little, t, b)))
    BY <1>2, <2>1 DEF Value
  <2>3. QED
    BY <1>1, <1>2, <1>8, <2>1, <2>2
<1>9. QED
  BY <1>3, <1>4, <1>5, <1>6, <1>7, <1>8 DEF Types, FourBytes

(* The value of an argument does not depend on what lies behind it. *)
LEMMA ValueBegins ==
  ASSUME NEW h, NEW t, NEW p \in Seq(Nat), NEW c \in Seq(Nat), Begins(p, c),
         Holds(HostOrder(h \in Little), t, p, 0, Len(p))
  PROVE  Value(h, t, c) = Value(h, t, p)
<1> DEFINE s == Len(p)
           order == HostOrder(h \in Little)
<1>1. /\ t \in Types /\ s \in Nat /\ s <= Len(c) /\ Len(c) \in Nat
      /\ t \in FourBytes => s = 4
      /\ t \in EightBytes => s = 8
      /\ t \in Strings => StringAt(p, 0, s)
      /\ t = LO_BLOB => BlobAt(order, p, 0, s)
  BY DEF Holds, Begins
<1>2. Copied(c, 0, p, 0, s)
  <2>1. 0 + s <= Len(p) /\ 0 \in Nat
    OBVIOUS
  <2>2. QED
    BY <1>1, <2>1, BeginsCopied
<1>3. CASE t \in NoData
  BY <1>1, <1>3, ValueIs
<1>4. CASE t \in Strings
  <2>1. PICK n \in Nat : s = Padded(n) /\ NoNul(p, 0, n) /\ Nuls(p, 0, n, s)
    BY <1>1, <1>4 DEF StringAt
  <2>2. n < s
    BY <2>1, PaddedIs
  <2>3. NoNul(c, 0, n) /\ Nuls(c, 0, n, s)
    <3>1. \A k \in 1..n : k \in 1..s
      BY <1>1, <2>2
    <3>2. \A k \in n + 1..s : k \in 1..s
      BY <1>1, <2>2
    <3> HIDE DEF s
    <3>3. QED
      BY <1>2, <2>1, <3>1, <3>2 DEF Copied, NoNul, Nuls
  <2>4. StrLen(p) = n
    BY <1>1, <2>1, StringEnds
  <2>5. StrLen(c) = n
    <3> HIDE DEF s
    <3>1. QED
      BY <1>1, <2>1, <2>3, StringEnds
  <2>6. n \in 0..Len(p)
    BY <1>1, <2>2
  <2>7. SubSeq(c, 1, n) = SubSeq(p, 1, n)
    BY <2>6, SamePiece
  <2>8. QED
    BY <1>1, <1>4, <2>4, <2>5, <2>7, ValueIs
<1>5. CASE t = LO_BLOB
  <2> DEFINE n == WordAt(order, p, 0)
             l == BigEndian(Swap32(h \in Little, SubSeq(p, 1, 4)))
  <2>1. s >= 4 /\ n \in Nat /\ s = Padded(4 + n)
    BY <1>1, <1>5 DEF BlobAt
  <2>2. l = n
    <3> DEFINE little == h \in Little
    <3>1. little \in BOOLEAN /\ Len(p) >= 4
      BY <2>1
    <3> HIDE DEF little
    <3>2. BigEndian(Swap32(little, SubSeq(p, 1, 4))) = WordAt(HostOrder(little), p, 0)
      BY <3>1, WordIs
    <3>3. QED
      BY <3>2 DEF little
  <2>3. SubSeq(c, 1, 4) = SubSeq(p, 1, 4)
    <3>1. 4 \in 0..Len(p)
      BY <1>1, <2>1
    <3>2. QED
      BY <3>1, SamePiece
  <2> HIDE DEF n, l
  <2>4. 4 + n <= Len(p)
    BY <2>1, PaddedIs
  <2>5. SubSeq(c, 5, 4 + n) = SubSeq(p, 5, 4 + n)
    <3> DEFINE v == 4
    <3>1. v \in Nat /\ v + n <= Len(p) /\ v + 1 = 5
      BY <2>4
    <3> HIDE DEF v
    <3>2. SubSeq(c, v + 1, v + n) = SubSeq(p, v + 1, v + n)
      BY <2>1, <3>1, PieceBegins
    <3>3. QED
      BY <3>1, <3>2 DEF v
  <2>6. Value(h, t, c) = SubSeq(c, 5, 4 + l) /\ Value(h, t, p) = SubSeq(p, 5, 4 + l)
    <3>1. /\ Value(h, t, c) = SubSeq(c, 5, 4 + BigEndian(Swap32(h \in Little, SubSeq(c, 1, 4))))
          /\ Value(h, t, p) = SubSeq(p, 5, 4 + BigEndian(Swap32(h \in Little, SubSeq(p, 1, 4))))
      BY <1>1, <1>5, ValueIs
    <3>2. QED
      BY <2>3, <3>1 DEF l
  <2>7. QED
    BY <2>2, <2>5, <2>6
<1>6. CASE t \in FourBytes
  <2>1. Len(p) = 4 /\ 4 \in 0..4
    BY <1>1, <1>6
  <2>2. SubSeq(c, 1, 4) = SubSeq(p, 1, 4)
    BY <2>1, SamePiece
  <2>3. t \in {LO_MIDI, LO_CHAR} \/ t \in {LO_INT32, LO_FLOAT}
    BY <1>6 DEF FourBytes
  <2>4. CASE t \in {LO_MIDI, LO_CHAR}
    <3>1. Value(h, t, c) = SubSeq(c, 1, 4) /\ Value(h, t, p) = SubSeq(p, 1, 4)
      BY <1>1, <2>4, ValueIs
    <3>2. QED
      BY <2>2, <3>1
  <2>5. CASE t \in {LO_INT32, LO_FLOAT}
    BY <1>1, <2>2, <2>5, ValueIs
  <2>6. QED
    BY <2>3, <2>4, <2>5
<1>7. CASE t \in EightBytes
  <2>1. Len(p) = 8 /\ 8 \in 0..8
    BY <1>1, <1>7
  <2>2. SubSeq(c, 1, 8) = SubSeq(p, 1, 8)
    BY <2>1, SamePiece
  <2>3. QED
    BY <1>1, <1>7, <2>2, ValueIs
<1>8. QED
  BY <1>1, <1>3, <1>4, <1>5, <1>6, <1>7 DEF Types

\* p is the argument of type t at offset v of b
IsOwn(h, t, p, b, v, s) ==
  /\ p \in Seq(Nat) /\ Len(p) = s
  /\ Holds(HostOrder(h \in Little), t, p, 0, s)
  /\ Value(h, t, From(b, v)) = Value(h, t, p)

(* It is the value of its own bytes. *)
LEMMA ValueOwn ==
  ASSUME NEW h, NEW t, NEW b \in Seq(Nat), NEW v \in Nat, NEW s,
         Holds(HostOrder(h \in Little), t, b, v, s)
  PROVE  IsOwn(h, t, SubSeq(b, v + 1, v + s), b, v, s)
<1> DEFINE order == HostOrder(h \in Little)
           p == SubSeq(b, v + 1, v + s)
           c == From(b, v)
<1>1. s \in Nat /\ v + s <= Len(b) /\ Len(b) \in Nat
  BY DEF Holds
<1>2. p \in Seq(Nat) /\ Len(p) = s /\ \A k \in 1..s : p[k] = b[v + k]
  BY <1>1, PieceIs
<1>3. Rest(c, b, v)
  <2>1. v \in 0..Len(b)
    BY <1>1
  <2>2. QED
    BY <2>1, FromIs
<1>4. Holds(order, t, b, v, s)
  OBVIOUS
<1> HIDE DEF p, c
<1>5. c \in Seq(Nat) /\ Len(b) = v + Len(c) /\ Len(c) \in Nat /\ \A k \in 1..Len(c) : c[k] = b[v + k]
  BY <1>3 DEF Rest
<1>6. Copied(p, 0, b, v, s)
  <2>1. \A k \in 1..s : 0 + k = k
    OBVIOUS
  <2>2. QED
    BY <1>2, <2>1 DEF Copied
<1>7. Holds(order, t, p, 0, s)
  <2> HIDE DEF order
  <2>1. 0 + s <= Len(p) /\ 0 \in Nat
    BY <1>1, <1>2
  <2>2. QED
    BY <1>4, <1>6, <2>1, HoldsCopied
<1>8. Begins(p, c)
  <2>1. Len(p) <= Len(c) /\ \A k \in 1..s : k \in 1..Len(c)
    BY <1>1, <1>2, <1>5
  <2>2. QED
    BY <1>2, <1>5, <2>1 DEF Begins
<1>9. Value(h, t, c) = Value(h, t, p)
  BY <1>2, <1>5, <1>7, <1>8, ValueBegins
<1>10. QED
  BY <1>2, <1>7, <1>9 DEF p, c, IsOwn

(* Reversed twice, bytes are as they were. *)
LEMMA ReversedTwice ==
  ASSUME NEW b \in Seq(Nat)
  PROVE  Reversed(Reversed(b)) = b
<1> DEFINE r == Reversed(b)
           q == Reversed(r)
           n == Len(b)
<1>1. r \in Seq(Nat) /\ Len(r) = n /\ n \in Nat /\ \A k \in 1..n : r[k] = b[n + 1 - k]
  BY ReversedIs
<1> HIDE DEF r
<1>2. q \in Seq(Nat) /\ Len(q) = Len(r) /\ \A k \in 1..Len(r) : q[k] = r[Len(r) + 1 - k]
  BY <1>1, ReversedIs
<1> HIDE DEF q, n
<1>3. ASSUME NEW k \in 1..n PROVE q[k] = b[k]
  <2> DEFINE l == n + 1 - k
  <2>1. l \in 1..n /\ n + 1 - l = k
    BY <1>1
  <2>2. q[k] = r[l]
    BY <1>1, <1>2
  <2> HIDE DEF l
  <2>3. r[l] = b[n + 1 - l]
    BY <1>1, <2>1
  <2>4. QED
    BY <2>1, <2>2, <2>3
<1>4. q = b
  BY <1>1, <1>2, <1>3, SeqEqual DEF n
<1>5. QED
  BY <1>4 DEF q, r

\* x is the number b of eight bytes, each word from behind
IsTime(x, b) == \A k \in 1..4 : x[k] = b[5 - k] /\ x[4 + k] = b[4 + (5 - k)]

\* x is it from behind
IsBehind(x, b) == \A k \in 1..4 : x[k] = b[4 + (5 - k)] /\ x[4 + k] = b[5 - k]

(* What a number in memory looks like. *)
LEMMA NumberIs ==
  ASSUME NEW little, NEW t, NEW b \in Seq(Nat), Len(b) \in {4, 8}, t = LO_TIMETAG => Len(b) = 8
  PROVE  /\ InMemory(little, t, b) \in Seq(Nat) /\ Len(InMemory(little, t, b)) = Len(b)
         /\ ~ little => InMemory(little, t, b) = b
         /\ little /\ t # LO_TIMETAG => InMemory(little, t, b) = Reversed(b)
         /\ little /\ Len(b) = 4 => \A k \in 1..4 : InMemory(little, t, b)[k] = b[5 - k]
         /\ little /\ Len(b) = 8 =>
              IF t = LO_TIMETAG THEN IsTime(InMemory(little, t, b), b)
              ELSE IsBehind(InMemory(little, t, b), b)
<1> DEFINE c == InMemory(little, t, b)
<1>1. c \in Seq(Nat) /\ Len(c) = Len(b)
  BY InMemoryIs
<1>2. /\ ~ little => c = b
      /\ little /\ t # LO_TIMETAG => c = Reversed(b)
  BY DEF InMemory
<1>3. ASSUME little, Len(b) = 4 PROVE \A k \in 1..4 : c[k] = b[5 - k]
  <2>0. t # LO_TIMETAG
    BY <1>3
  <2>1. c = Reversed(b)
    BY <1>2, <1>3, <2>0
  <2> HIDE DEF c
  <2>2. QED
    BY <1>3, <2>1, ReversedWord
<1>4. ASSUME little, Len(b) = 8, t # LO_TIMETAG PROVE IsBehind(c, b)
  <2>1. c = Reversed(b)
    BY <1>2, <1>4
  <2> HIDE DEF c
  <2>2. \A k \in 1..8 : c[k] = b[8 + 1 - k]
    BY <1>4, <2>1, ReversedIs
  <2>3. \A k \in 1..4 : k \in 1..8 /\ 4 + k \in 1..8 /\ 8 + 1 - k = 4 + (5 - k) /\ 8 + 1 - (4 + k) = 5 - k
    OBVIOUS
  <2>4. QED
    BY <2>2, <2>3 DEF IsBehind
<1>5. ASSUME little, t = LO_TIMETAG PROVE IsTime(c, b)
  <2> DEFINE x == SubSeq(b, 1, 4)
             y == SubSeq(b, 5, 8)
             p == Reversed(x)
             q == Reversed(y)
  <2>0. Len(b) = 8
    BY <1>5
  <2>1. c = p \o q
    BY <1>5 DEF InMemory
  <2>2. x \in Seq(Nat) /\ Len(x) = 4 /\ \A k \in 1..4 : x[k] = b[k]
    <3> DEFINE v == 0
               w == 4
    <3>1. v \in Nat /\ w \in Nat /\ v + w <= Len(b) /\ v + 1 = 1 /\ v + w = 4 /\ \A k \in Nat : v + k = k
      BY <2>0
    <3> HIDE DEF v, w
    <3> DEFINE z == SubSeq(b, v + 1, v + w)
    <3>2. z \in Seq(Nat) /\ Len(z) = w /\ \A k \in 1..w : z[k] = b[v + k]
      BY <3>1, PieceIs
    <3>3. x = z
      BY <3>1
    <3> HIDE DEF z, x
    <3>4. QED
      BY <3>1, <3>2, <3>3 DEF w
  <2>3. y \in Seq(Nat) /\ Len(y) = 4 /\ \A k \in 1..4 : y[k] = b[4 + k]
    <3> DEFINE v == 4
               w == 4
    <3>1. v \in Nat /\ w \in Nat /\ v + w <= Len(b) /\ v + 1 = 5 /\ v + w = 8
      BY <2>0
    <3> HIDE DEF v, w
    <3> DEFINE z == SubSeq(b, v + 1, v + w)
    <3>2. z \in Seq(Nat) /\ Len(z) = w /\ \A k \in 1..w : z[k] = b[v + k]
      BY <3>1, PieceIs
    <3>3. y = z
      BY <3>1
    <3> HIDE DEF z, y
    <3>4. QED
      BY <3>1, <3>2, <3>3 DEF v, w
  <2> HIDE DEF c, x, y
  <2>4. p \in Seq(Nat) /\ Len(p) = 4 /\ \A k \in 1..4 : p[k] = x[5 - k]
    BY <2>2, ReversedWord
  <2>5. q \in Seq(Nat) /\ Len(q) = 4 /\ \A k \in 1..4 : q[k] = y[5 - k]
    BY <2>3, ReversedWord
  <2> HIDE DEF p, q
  <2>6. (\A k \in 1..4 : c[k] = p[k]) /\ \A k \in 1..4 : c[4 + k] = q[k]
    <3>1. Begins(p, p \o q) /\ \A k \in 1..Len(q) : (p \o q)[Len(p) + k] = q[k]
      BY <2>4, <2>5, JoinIs
    <3>2. QED
      BY <2>1, <2>4, <2>5, <3>1 DEF Begins
  <2>7. \A k \in 1..4 : 5 - k \in 1..4
    OBVIOUS
  <2>8. \A k \in 1..4 : x[5 - k] = b[5 - k] /\ y[5 - k] = b[4 + (5 - k)]
    BY <2>2, <2>3, <2>7
  <2>9. QED
    BY <2>4, <2>5, <2>6, <2>8 DEF IsTime
<1> HIDE DEF c
<1>6. QED
  BY <1>1, <1>2, <1>3, <1>4, <1>5 DEF c

(* Eight bytes that agree word by word are the same. *)
LEMMA EightEqual ==
  ASSUME NEW x \in Seq(Nat), NEW y \in Seq(Nat), Len(x) = 8, Len(y) = 8,
         \A k \in 1..4 : x[k] = y[k] /\ x[4 + k] = y[4 + k]
  PROVE  x = y
<1>1. \A k \in 1..8 : k \in 1..4 \/ (k - 4 \in 1..4 /\ 4 + (k - 4) = k)
  OBVIOUS
<1>2. \A k \in 1..8 : x[k] = y[k]
  BY <1>1
<1>3. QED
  BY <1>2, SeqEqual

(* A number that was put in memory is read as it was. *)
LEMMA InMemoryTwice ==
  ASSUME NEW little, NEW t, NEW b \in Seq(Nat), Len(b) \in {4, 8}, t = LO_TIMETAG => Len(b) = 8
  PROVE  InMemory(little, t, InMemory(little, t, b)) = b
<1> DEFINE c == InMemory(little, t, b)
           d == InMemory(little, t, c)
<1>1. c \in Seq(Nat) /\ Len(c) = Len(b) /\ (~ little => c = b)
      /\ (little /\ t # LO_TIMETAG => c = Reversed(b))
      /\ (little /\ t = LO_TIMETAG => IsTime(c, b))
  BY NumberIs
<1> HIDE DEF c
<1>2. d \in Seq(Nat) /\ Len(d) = Len(c) /\ (~ little => d = c)
      /\ (little /\ t # LO_TIMETAG => d = Reversed(c))
      /\ (little /\ t = LO_TIMETAG => IsTime(d, c))
  <2>1. Len(c) \in {4, 8} /\ (t = LO_TIMETAG => Len(c) = 8)
    BY <1>1
  <2>2. c \in Seq(Nat)
    BY <1>1
  <2>3. QED
    BY <2>1, <2>2, NumberIs
<1> HIDE DEF d
<1>3. CASE ~ little
  BY <1>1, <1>2, <1>3 DEF c, d
<1>4. CASE little /\ t # LO_TIMETAG
  <2>1. d = b
    BY <1>1, <1>2, <1>4, ReversedTwice
  <2>2. QED
    BY <2>1 DEF c, d
<1>5. CASE little /\ t = LO_TIMETAG
  <2>1. \A k \in 1..4 : 5 - k \in 1..4 /\ 5 - (5 - k) = k
    OBVIOUS
  <2>2. ASSUME NEW k \in 1..4 PROVE d[k] = b[k] /\ d[4 + k] = b[4 + k]
    <3> DEFINE l == 5 - k
    <3>1. l \in 1..4 /\ 5 - l = k
      BY <2>1
    <3>2. d[k] = c[l] /\ d[4 + k] = c[4 + l]
      BY <1>2, <1>5 DEF IsTime
    <3> HIDE DEF l
    <3>3. c[l] = b[5 - l] /\ c[4 + l] = b[4 + (5 - l)]
      BY <1>1, <1>5, <3>1 DEF IsTime
    <3>4. QED
      BY <3>1, <3>2, <3>3
  <2>3. Len(b) = 8 /\ Len(d) = 8
    BY <1>1, <1>2, <1>5
  <2>4. d = b
    BY <1>2, <2>2, <2>3, EightEqual
  <2>5. QED
    BY <2>4 DEF c, d
<1>6. QED
  BY <1>3, <1>4, <1>5

(* A whole buffer is itself. *)
LEMMA WholePiece ==
  ASSUME NEW b \in Seq(Nat)
  PROVE  SubSeq(b, 1, Len(b)) = b
  BY SubSeqFull

(* Four bytes are read as they are. *)
LEMMA FourAreRead ==
  ASSUME NEW h, NEW t \in {LO_MIDI, LO_CHAR}, NEW b
  PROVE  Value(h, t, b) = SubSeq(b, 1, 4)
<1>1. t \notin NoData \cup EightBytes \cup Strings \cup {LO_BLOB}
  BY Kinds DEF FourBytes
<1>2. QED
  BY <1>1 DEF Value

(* The value of an argument in memory is the one that was added. *)
LEMMA ValueArg ==
  ASSUME NEW h, NEW a, WellFormed(a), a.t \notin NoData
  PROVE  Value(h, a.t, ArgData(h, a)) = a.v
<1> DEFINE t == a.t
           v == a.v
           c == ArgData(h, a)
           little == h \in Little
<1>1. /\ v \in Seq(Nat) /\ t \in Types
      /\ t \in FourBytes => Len(v) = 4
      /\ t \in EightBytes => Len(v) = 8
      /\ t \in Strings => NulFree(v)
  BY DEF WellFormed
<1>2. t \in FourBytes \cup EightBytes \cup Strings \cup {LO_BLOB}
  BY <1>1 DEF Types
<1>3. CASE t \in Strings
  <2> DEFINE r == << >>
  <2>0. t # LO_BLOB /\ t \notin {LO_MIDI, LO_CHAR}
    BY <1>3, Kinds DEF FourBytes
  <2>1. c = CStr(v)
    BY <1>3, <2>0 DEF ArgData
  <2>2. c \in Seq(Nat)
    BY <1>1, <2>1, CStrIs DEF PaddedTo
  <2>3. CStr(v) \o r = CStr(v)
    <3> HIDE DEF v
    <3>1. CStr(v) \in Seq(Nat)
      BY <1>1, CStrIs DEF PaddedTo
    <3>2. QED
      BY <3>1, ConcatEmptySeq
  <2>4. StrLen(CStr(v) \o r) = Len(v) /\ SubSeq(CStr(v) \o r, 1, Len(v)) = v
    <3> HIDE DEF v
    <3>1. r \in Seq(Nat)
      OBVIOUS
    <3> HIDE DEF r
    <3>2. QED
      BY <1>1, <1>3, <3>1, StringFirst
  <2>5. StrLen(c) = Len(v) /\ SubSeq(c, 1, Len(v)) = v
    BY <2>1, <2>3, <2>4
  <2>6. Value(h, t, c) = SubSeq(c, 1, StrLen(c))
    BY <1>1, <1>3, ValueIs
  <2>7. QED
    BY <2>5, <2>6
<1>4. CASE t = LO_BLOB
  <2> DEFINE w == Swap32(little, Word(Len(v)))
             z == Zeros(Padded(4 + Len(v)) - 4 - Len(v))
             l == BigEndian(Swap32(little, SubSeq(c, 1, 4)))
             n == Len(v)
  <2>1. t \notin Strings /\ t \notin {LO_MIDI, LO_CHAR}
    BY <1>4, Kinds DEF FourBytes
  <2>2. c = BlobData(h, v)
    BY <1>4, <2>1 DEF ArgData
  <2>3. c = w \o v \o z
    BY <2>2 DEF BlobData
  <2>4. c \in Seq(Nat) /\ Holds(HostOrder(little), LO_BLOB, c, 0, Len(c))
        /\ WordAt(HostOrder(little), c, 0) = n
    BY <1>1, <2>2, HoldsBlob
  <2>5. little \in BOOLEAN /\ n \in Nat
    BY <1>1
  <2>6. w \in Seq(Nat) /\ Len(w) = 4
    <3> HIDE DEF little
    <3>1. QED
      BY <2>5, SizeWord DEF n
  <2>7. z \in Seq(Nat)
    <3> DEFINE s == Padded(4 + n)
    <3>1. 4 + n \in Nat
      BY <2>5
    <3>2. s \in Nat /\ 4 + n < s
      BY <3>1, PaddedIs
    <3>3. z = Zeros(s - 4 - n)
      OBVIOUS
    <3> HIDE DEF s, n, z
    <3>4. s - 4 - n \in Nat
      BY <2>5, <3>2
    <3>5. QED
      BY <3>3, <3>4, ZerosIs
  <2>8. Len(c) >= 4
    BY <2>4 DEF Holds, BlobAt
  <2>9. l = n
    <3> HIDE DEF c, little, n
    <3>1. BigEndian(Swap32(little, SubSeq(c, 1, 4))) = WordAt(HostOrder(little), c, 0)
      BY <2>4, <2>5, <2>8, WordIs
    <3>2. QED
      BY <2>4, <3>1
  <2>10. Value(h, t, c) = SubSeq(c, 5, 4 + l)
    BY <1>1, <1>4, ValueIs
  <2>11. SubSeq(c, 5, 4 + n) = v
    <3> HIDE DEF c, w, z, l, v
    <3>1. w \o v \in Seq(Nat)
      BY <1>1, <2>6, ConcatProperties
    <3>2. Begins(w \o v, c)
      BY <2>3, <2>7, <3>1, JoinIs
    <3>3. SubSeq(c, Len(w) + 1, Len(w) + Len(v)) = v
      BY <1>1, <2>4, <2>6, <3>2, PieceBehind
    <3>4. Len(w) + 1 = 5
      BY <2>6
    <3>5. QED
      BY <2>6, <3>3, <3>4
  <2> HIDE DEF c, v, l, n
  <2>12. Value(h, t, c) = v
    BY <2>9, <2>10, <2>11
  <2>13. QED
    BY <2>12 DEF c, v
<1>5. CASE t \in {LO_MIDI, LO_CHAR}
  <2>1. t \in FourBytes
    BY <1>5 DEF FourBytes
  <2>2. t \notin Strings /\ t # LO_BLOB
    BY <2>1, Kinds
  <2>3. c = v
    BY <1>5, <2>2 DEF ArgData
  <2>4. Value(h, t, c) = SubSeq(c, 1, 4)
    <3> HIDE DEF t, c
    <3>1. QED
      BY <1>5, FourAreRead
  <2>5. SubSeq(v, 1, Len(v)) = v /\ Len(v) = 4
    BY <1>1, <2>1, WholePiece
  <2> HIDE DEF c, v
  <2>6. Value(h, t, c) = v
    BY <2>3, <2>4, <2>5
  <2>7. QED
    BY <2>6 DEF c, v
<1>6. CASE t \in {LO_INT32, LO_FLOAT} \cup EightBytes
  <2>1. t \in FourBytes \cup EightBytes /\ t \notin {LO_MIDI, LO_CHAR}
    BY <1>6 DEF FourBytes, EightBytes, LO_MIDI, LO_CHAR, LO_INT32, LO_FLOAT, LO_INT64, LO_TIMETAG,
                LO_DOUBLE
  <2>2. t \notin Strings /\ t # LO_BLOB
    BY <2>1, Kinds
  <2>3. c = InMemory(little, t, v)
    BY <2>1, <2>2 DEF ArgData
  <2>4. Len(v) \in {4, 8} /\ (t = LO_TIMETAG => Len(v) = 8)
    BY <1>1, <2>1 DEF EightBytes
  <2>5. c \in Seq(Nat) /\ Len(c) = Len(v)
    BY <1>1, <2>3, <2>4, NumberIs
  <2>6. SubSeq(c, 1, Len(c)) = c
    BY <2>5, WholePiece
  <2>7. Value(h, t, c) = InMemory(little, t, c)
    <3>1. CASE t \in {LO_INT32, LO_FLOAT}
      <4>1. Len(v) = 4
        BY <1>1, <3>1 DEF FourBytes
      <4>2. Value(h, t, c) = InMemory(little, t, SubSeq(c, 1, 4))
        BY <1>1, <3>1, ValueIs
      <4> HIDE DEF c
      <4>3. QED
        BY <2>5, <2>6, <4>1, <4>2
    <3>2. CASE t \in EightBytes
      <4>1. Len(v) = 8
        BY <1>1, <3>2
      <4>2. Value(h, t, c) = InMemory(little, t, SubSeq(c, 1, 8))
        BY <1>1, <3>2, ValueIs
      <4> HIDE DEF c
      <4>3. QED
        BY <2>5, <2>6, <4>1, <4>2
    <3>3. QED
      BY <1>6, <3>1, <3>2
  <2>8. InMemory(little, t, InMemory(little, t, v)) = v
    BY <1>1, <2>4, InMemoryTwice
  <2>9. QED
    BY <2>3, <2>7, <2>8
<1>7. QED
  BY <1>2, <1>3, <1>4, <1>5, <1>6 DEF FourBytes

-----------------------------------------------------------------------------
(* A value that is read on a host of the other order. *)

\* q is p, of which the first w bytes, a word or two, are each from behind
Flips(q, p, w) ==
  /\ w = 4 => \A k \in 1..4 : q[k] = p[5 - k]
  /\ w = 8 => IsTime(q, p)
  /\ \A j \in w + 1..Len(p) : q[j] = p[j]

(* What a host swaps and one of the other order swaps again. *)
LEMMA TurnedOther ==
  ASSUME NEW here, NEW there, there <=> ~ here, NEW b \in Seq(Nat), Len(b) \in {4, 8}
  PROVE  /\ Turned(there, Turned(here, b)) \in Seq(Nat)
         /\ Len(Turned(there, Turned(here, b))) = Len(b)
         /\ Flips(Turned(there, Turned(here, b)), b, Len(b))
<1> DEFINE c == Turned(here, b)
           d == Turned(there, c)
<1>1. c \in Seq(Nat) /\ Len(c) = Len(b) /\ (Len(b) = 4 => IsWord(here, c, b))
  BY TurnedIs
<1>2. d \in Seq(Nat) /\ Len(d) = Len(c) /\ (Len(c) = 4 => IsWord(there, d, c))
  <2> HIDE DEF c
  <2>1. QED
    BY <1>1, TurnedIs
<1>3. \A k \in 1..4 : 5 - k \in 1..4 /\ 5 - (5 - k) = k
  OBVIOUS
<1>4. ASSUME Len(b) = 4, NEW k \in 1..4 PROVE d[k] = b[5 - k]
  <2> HIDE DEF c, d
  <2> DEFINE l == 5 - k
  <2>1. l \in 1..4
    BY <1>3
  <2>2. IsWord(here, c, b) /\ IsWord(there, d, c)
    BY <1>1, <1>2, <1>4
  <2>3. d[k] = (IF there THEN c[l] ELSE c[k]) /\ c[k] = (IF here THEN b[l] ELSE b[k])
    BY <2>2 DEF IsWord
  <2>4. c[l] = IF here THEN b[5 - l] ELSE b[l]
    BY <2>1, <2>2 DEF IsWord
  <2>5. QED
    BY <2>3, <2>4
<1>5. ASSUME Len(b) = 8 PROVE IsTime(d, b)
  <2>1. c = Swap64(here, b)
    BY <1>5 DEF Turned
  <2>2. d = Swap64(there, c)
    <3> HIDE DEF c
    <3>1. QED
      BY <1>1, <1>5 DEF Turned
  <2> HIDE DEF c, d
  <2>3. IsDouble(here, c, b)
    BY <1>5, <2>1, Swap64Bytes
  <2>4. IsDouble(there, d, c)
    BY <1>1, <1>5, <2>2, Swap64Bytes
  <2>5. ASSUME NEW k \in 1..4 PROVE d[k] = b[5 - k] /\ d[4 + k] = b[4 + (5 - k)]
    <3> DEFINE l == 5 - k
    <3>1. l \in 1..4
      BY <1>3
    <3>2. d[k] = (IF there THEN c[4 + l] ELSE c[4 + k]) /\ d[4 + k] = IF there THEN c[l] ELSE c[k]
      BY <2>4 DEF IsDouble
    <3>3. c[k] = (IF here THEN b[4 + l] ELSE b[4 + k]) /\ c[4 + k] = IF here THEN b[l] ELSE b[k]
      BY <2>3 DEF IsDouble
    <3> HIDE DEF l
    <3>4. ~ here => c[l] = b[4 + l] /\ c[4 + l] = b[l]
      BY <2>3, <3>1 DEF IsDouble
    <3>5. QED
      BY <3>2, <3>3, <3>4 DEF l
  <2>6. QED
    BY <2>5 DEF IsTime
<1>6. \A j \in Len(b) + 1..Len(b) : d[j] = b[j]
  OBVIOUS
<1> HIDE DEF c, d
<1>7. Flips(d, b, Len(b))
  BY <1>4, <1>5, <1>6 DEF Flips
<1>8. QED
  BY <1>1, <1>2, <1>7 DEF c, d

(* An argument that was swapped on a host and again on one of the other     *)
(* order.                                                                   *)
LEMMA ArgFlips ==
  ASSUME NEW here, NEW there, there <=> ~ here,
         NEW b \in Seq(Nat), NEW c \in Seq(Nat), NEW d \in Seq(Nat),
         Len(c) = Len(b), Len(d) = Len(b), NEW v \in Nat, NEW u \in Nat, v <= u, u <= Len(b),
         NEW w \in {0, 4, 8}, w <= u - v,
         IsSwapped(here, c, b, v, w, u), IsSwapped(there, d, c, v, w, u)
  PROVE  Flips(SubSeq(d, v + 1, u), SubSeq(b, v + 1, u), w)
<1> DEFINE p == SubSeq(b, v + 1, u)
           q == SubSeq(d, v + 1, u)
           s == u - v
<1>1. s \in Nat /\ v + s = u /\ Len(b) \in Nat
  OBVIOUS
<1>2. p \in Seq(Nat) /\ Len(p) = s /\ \A k \in 1..s : p[k] = b[v + k]
  <2> DEFINE z == SubSeq(b, v + 1, v + s)
  <2> HIDE DEF s
  <2>1. z \in Seq(Nat) /\ Len(z) = s /\ \A k \in 1..s : z[k] = b[v + k]
    BY <1>1, PieceIs
  <2>2. z = p
    BY <1>1
  <2> HIDE DEF z, p
  <2>3. QED
    BY <2>1, <2>2
<1>3. q \in Seq(Nat) /\ Len(q) = s /\ \A k \in 1..s : q[k] = d[v + k]
  <2> DEFINE z == SubSeq(d, v + 1, v + s)
  <2> HIDE DEF s
  <2>1. z \in Seq(Nat) /\ Len(z) = s /\ \A k \in 1..s : z[k] = d[v + k]
    BY <1>1, PieceIs
  <2>2. z = q
    BY <1>1
  <2> HIDE DEF z, q
  <2>3. QED
    BY <2>1, <2>2
<1> HIDE DEF p, q
<1>4. ASSUME NEW j \in w + 1..s PROVE q[j] = p[j]
  <2> DEFINE k == v + j
  <2>1. k \in v + w + 1..u /\ j \in 1..s
    BY <1>1
  <2> HIDE DEF k, s
  <2>2. d[k] = c[k] /\ c[k] = b[k]
    BY <2>1 DEF IsSwapped
  <2>3. q[j] = d[k] /\ p[j] = b[k]
    BY <1>2, <1>3, <2>1 DEF k
  <2>4. QED
    BY <2>2, <2>3
<1>5. ASSUME w # 0 PROVE (w = 4 => \A k \in 1..4 : q[k] = p[5 - k]) /\ (w = 8 => IsTime(q, p))
  <2> DEFINE x == SubSeq(b, v + 1, v + w)
             y == SubSeq(d, v + 1, v + w)
  <2>1. w \in {4, 8} /\ w \in Nat /\ v + w <= Len(b) /\ v + w <= Len(d) /\ w <= s
    BY <1>1, <1>5
  <2>2. x \in Seq(Nat) /\ Len(x) = w /\ \A k \in 1..w : x[k] = b[v + k]
    BY <2>1, PieceIs
  <2>3. y \in Seq(Nat) /\ Len(y) = w /\ \A k \in 1..w : y[k] = d[v + k]
    BY <2>1, PieceIs
  <2>4. y = Turned(there, Turned(here, x))
    BY <1>5 DEF IsSwapped
  <2> HIDE DEF x, y, s
  <2>5. Flips(y, x, w)
    BY <2>1, <2>2, <2>4, TurnedOther
  <2>6. \A k \in 1..w : k \in 1..s
    BY <1>1, <2>1
  <2>7. \A k \in 1..w : q[k] = y[k] /\ p[k] = x[k]
    BY <1>2, <1>3, <2>2, <2>3, <2>6
  <2>8. ASSUME w = 4, NEW k \in 1..4 PROVE q[k] = p[5 - k]
    <3>1. k \in 1..w /\ 5 - k \in 1..w
      BY <2>8
    <3>2. y[k] = x[5 - k]
      BY <2>5, <2>8 DEF Flips
    <3>3. QED
      BY <2>7, <3>1, <3>2
  <2>9. ASSUME w = 8 PROVE IsTime(q, p)
    <3>1. \A k \in 1..4 : k \in 1..w /\ 4 + k \in 1..w /\ 5 - k \in 1..w /\ 4 + (5 - k) \in 1..w
      BY <2>9
    <3>2. IsTime(y, x)
      BY <2>5, <2>9 DEF Flips
    <3>3. QED
      BY <2>7, <3>1, <3>2 DEF IsTime
  <2>10. QED
    BY <2>8, <2>9
<1>6. (w = 4 => \A k \in 1..4 : q[k] = p[5 - k]) /\ (w = 8 => IsTime(q, p))
  BY <1>5
<1>7. Flips(q, p, w)
  BY <1>2, <1>4, <1>6 DEF Flips
<1>8. QED
  BY <1>3, <1>7 DEF p, q

(* A word that was turned round is read as the same number. *)
LEMMA WordFlips ==
  ASSUME NEW here, NEW there, there <=> ~ here, NEW p, NEW q, \A k \in 1..4 : q[k] = p[5 - k]
  PROVE  WordAt(HostOrder(there), q, 0) = WordAt(HostOrder(here), p, 0)
<1>1. q[1] = p[4] /\ q[2] = p[3] /\ q[3] = p[2] /\ q[4] = p[1]
  <2>1. q[1] = p[5 - 1] /\ q[2] = p[5 - 2] /\ q[3] = p[5 - 3] /\ q[4] = p[5 - 4]
    <3>1. 1 \in 1..4 /\ 2 \in 1..4 /\ 3 \in 1..4 /\ 4 \in 1..4
      OBVIOUS
    <3>2. QED
      BY <3>1
  <2>2. QED
    BY <2>1
<1>2. /\ LittleEndianAt(q, 0) = BigEndianAt(p, 0)
      /\ BigEndianAt(q, 0) = LittleEndianAt(p, 0)
  BY <1>1 DEF LittleEndianAt, BigEndianAt
<1>3. QED
  BY <1>2 DEF WordAt, HostOrder

(* A number of four bytes that was turned round is that number. *)
LEMMA FourFlip ==
  ASSUME NEW here, NEW there, there <=> ~ here, NEW t, t # LO_TIMETAG,
         NEW p \in Seq(Nat), NEW q \in Seq(Nat), Len(p) = 4, Len(q) = 4,
         \A k \in 1..4 : q[k] = p[5 - k]
  PROVE  q = Reversed(p) /\ InMemory(there, t, q) = InMemory(here, t, p)
<1>1. Reversed(p) \in Seq(Nat) /\ Len(Reversed(p)) = 4 /\ \A k \in 1..4 : Reversed(p)[k] = p[5 - k]
  BY ReversedWord
<1>2. q = Reversed(p)
  <2> DEFINE r == Reversed(p)
  <2> HIDE DEF r
  <2>1. r \in Seq(Nat) /\ Len(r) = Len(q) /\ \A k \in 1..Len(q) : r[k] = q[k]
    BY <1>1 DEF r
  <2>2. q = r
    BY <2>1, SeqEqual
  <2>3. QED
    BY <2>2 DEF r
<1>3. Reversed(q) = p
  BY <1>2, ReversedTwice
<1>4. CASE here
  BY <1>2, <1>4 DEF InMemory
<1>5. CASE there
  <2>1. InMemory(there, t, q) = Reversed(q)
    BY <1>5 DEF InMemory
  <2>2. InMemory(here, t, p) = p
    BY <1>5 DEF InMemory
  <2>3. QED
    BY <1>2, <1>3, <2>1, <2>2
<1>6. QED
  BY <1>2, <1>4, <1>5

\* y is the number x of eight bytes with the words exchanged
Exchanged(y, x) == \A k \in 1..4 : y[k] = x[4 + k] /\ y[4 + k] = x[k]

(* A time tag that was turned round is that time; of another number of      *)
(* eight bytes the words are exchanged.                                     *)
LEMMA EightFlip ==
  ASSUME NEW here, NEW there, there <=> ~ here, NEW t,
         NEW p \in Seq(Nat), NEW q \in Seq(Nat), Len(p) = 8, Len(q) = 8, IsTime(q, p)
  PROVE  /\ t = LO_TIMETAG => InMemory(there, t, q) = InMemory(here, t, p)
         /\ t # LO_TIMETAG => Exchanged(InMemory(there, t, q), InMemory(here, t, p))
<1> DEFINE x == InMemory(here, t, p)
           y == InMemory(there, t, q)
<1>1. /\ x \in Seq(Nat) /\ Len(x) = 8 /\ (~ here => x = p)
      /\ here => IF t = LO_TIMETAG THEN IsTime(x, p) ELSE IsBehind(x, p)
  BY NumberIs
<1>2. /\ y \in Seq(Nat) /\ Len(y) = 8 /\ (~ there => y = q)
      /\ there => IF t = LO_TIMETAG THEN IsTime(y, q) ELSE IsBehind(y, q)
  BY NumberIs
<1> HIDE DEF x, y
<1>3. \A k \in 1..4 : 5 - k \in 1..4 /\ 5 - (5 - k) = k
  OBVIOUS
<1>4. ASSUME t = LO_TIMETAG PROVE y = x
  <2>1. CASE here
    <3>1. IsTime(x, p) /\ y = q
      BY <1>1, <1>2, <1>4, <2>1
    <3>2. \A k \in 1..4 : y[k] = x[k] /\ y[4 + k] = x[4 + k]
      BY <3>1 DEF IsTime
    <3>3. QED
      BY <1>1, <1>2, <3>2, EightEqual
  <2>2. CASE there
    <3>1. IsTime(y, q) /\ x = p
      BY <1>1, <1>2, <1>4, <2>2
    <3>2. ASSUME NEW k \in 1..4 PROVE y[k] = x[k] /\ y[4 + k] = x[4 + k]
      <4> DEFINE l == 5 - k
      <4>1. l \in 1..4 /\ 5 - l = k
        BY <1>3
      <4>2. y[k] = q[l] /\ y[4 + k] = q[4 + l]
        BY <3>1 DEF IsTime
      <4> HIDE DEF l
      <4>3. q[l] = p[5 - l] /\ q[4 + l] = p[4 + (5 - l)]
        BY <4>1 DEF IsTime
      <4>4. QED
        BY <3>1, <4>1, <4>2, <4>3
    <3>3. QED
      BY <1>1, <1>2, <3>2, EightEqual
  <2>3. QED
    BY <2>1, <2>2
<1>5. ASSUME t # LO_TIMETAG PROVE Exchanged(y, x)
  <2>1. CASE here
    <3>1. IsBehind(x, p) /\ y = q
      BY <1>1, <1>2, <1>5, <2>1
    <3>2. QED
      BY <3>1 DEF IsTime, IsBehind, Exchanged
  <2>2. CASE there
    <3>1. IsBehind(y, q) /\ x = p
      BY <1>1, <1>2, <1>5, <2>2
    <3>2. ASSUME NEW k \in 1..4 PROVE y[k] = x[4 + k] /\ y[4 + k] = x[k]
      <4> DEFINE l == 5 - k
      <4>1. l \in 1..4 /\ 5 - l = k
        BY <1>3
      <4>2. y[k] = q[4 + l] /\ y[4 + k] = q[l]
        BY <3>1 DEF IsBehind
      <4> HIDE DEF l
      <4>3. q[l] = p[5 - l] /\ q[4 + l] = p[4 + (5 - l)]
        BY <4>1 DEF IsTime
      <4>4. QED
        BY <3>1, <4>1, <4>2, <4>3
    <3>3. QED
      BY <3>2 DEF Exchanged
  <2>3. QED
    BY <2>1, <2>2
<1>6. QED
  BY <1>4, <1>5 DEF x, y

(* Numbers with their words exchanged have the same words. *)
LEMMA SameWords ==
  ASSUME NEW x \in Seq(Nat), NEW y \in Seq(Nat), Len(x) = 8, Len(y) = 8, Exchanged(y, x)
  PROVE  SubSeq(y, 1, 4) = SubSeq(x, 5, 8) /\ SubSeq(y, 5, 8) = SubSeq(x, 1, 4)
<1> DEFINE Words(b, c, d) ==
             /\ c \in Seq(Nat) /\ Len(c) = 4 /\ \A k \in 1..4 : c[k] = b[k]
             /\ d \in Seq(Nat) /\ Len(d) = 4 /\ \A k \in 1..4 : d[k] = b[4 + k]
<1>1. ASSUME NEW b \in Seq(Nat), Len(b) = 8 PROVE Words(b, SubSeq(b, 1, 4), SubSeq(b, 5, 8))
  <2> DEFINE v == 0
             w == 4
             c == SubSeq(b, 1, 4)
             d == SubSeq(b, 5, 8)
  <2>1. v \in Nat /\ w \in Nat /\ v + w <= Len(b) /\ w + w <= Len(b)
        /\ v + 1 = 1 /\ v + w = 4 /\ w + 1 = 5 /\ w + w = 8 /\ \A k \in Nat : v + k = k
    BY <1>1
  <2> HIDE DEF v, w
  <2> DEFINE e == SubSeq(b, v + 1, v + w)
             f == SubSeq(b, w + 1, w + w)
  <2>2. e \in Seq(Nat) /\ Len(e) = w /\ \A k \in 1..w : e[k] = b[v + k]
    BY <2>1, PieceIs
  <2>3. f \in Seq(Nat) /\ Len(f) = w /\ \A k \in 1..w : f[k] = b[w + k]
    BY <2>1, PieceIs
  <2>4. e = c /\ f = d
    BY <2>1
  <2> HIDE DEF e, f, c, d
  <2>5. c \in Seq(Nat) /\ Len(c) = 4 /\ \A k \in 1..4 : c[k] = b[k]
    BY <2>1, <2>2, <2>4 DEF w
  <2>6. d \in Seq(Nat) /\ Len(d) = 4 /\ \A k \in 1..4 : d[k] = b[4 + k]
    BY <2>1, <2>3, <2>4 DEF w
  <2>7. QED
    BY <2>5, <2>6 DEF c, d
<1> DEFINE x1 == SubSeq(x, 1, 4)
           x2 == SubSeq(x, 5, 8)
           y1 == SubSeq(y, 1, 4)
           y2 == SubSeq(y, 5, 8)
<1>2. Words(x, x1, x2) /\ Words(y, y1, y2)
  BY <1>1
<1> HIDE DEF x1, x2, y1, y2
<1>3. \A k \in 1..4 : y1[k] = x2[k] /\ y2[k] = x1[k]
  BY <1>2 DEF Exchanged
<1>4. y1 = x2
  BY <1>2, <1>3, SeqEqual
<1>5. y2 = x1
  <2>1. y2 \in Seq(Nat) /\ x1 \in Seq(Nat) /\ Len(y2) = 4 /\ Len(x1) = 4
    BY <1>2
  <2>2. \A k \in 1..4 : y2[k] = x1[k]
    BY <1>3
  <2>3. QED
    BY <2>1, <2>2, SeqEqual
<1>6. QED
  BY <1>4, <1>5 DEF x1, x2, y1, y2

\* the values that a reader sees of two arguments are the same, as far as Portable says
Agree(t, x, y) == Portable([t |-> t, v |-> y]) = Portable([t |-> t, v |-> x])

(* Some differ. *)
LEMMA Agreement ==
  ASSUME NEW t, NEW x \in Seq(Nat), NEW y \in Seq(Nat)
  PROVE  /\ x = y => Agree(t, x, y)
         /\ t \in {LO_INT64, LO_DOUBLE} /\ Len(x) = 8 /\ Len(y) = 8 /\ Exchanged(y, x) => Agree(t, x, y)
         /\ t = LO_CHAR /\ y = Reversed(x) => Agree(t, x, y)
<1>1. x = y => Agree(t, x, y)
  BY DEF Agree
<1>2. ASSUME t \in {LO_INT64, LO_DOUBLE}, Len(x) = 8, Len(y) = 8, Exchanged(y, x) PROVE Agree(t, x, y)
  <2>1. SubSeq(y, 1, 4) = SubSeq(x, 5, 8) /\ SubSeq(y, 5, 8) = SubSeq(x, 1, 4)
    BY <1>2, SameWords
  <2> DEFINE a == SubSeq(x, 1, 4)
             b == SubSeq(x, 5, 8)
  <2>2. t # LO_CHAR
    BY <1>2 DEF LO_INT64, LO_DOUBLE, LO_CHAR
  <2>3. /\ Portable([t |-> t, v |-> y]) = [t |-> t, v |-> {SubSeq(y, 1, 4), SubSeq(y, 5, 8)}]
        /\ Portable([t |-> t, v |-> x]) = [t |-> t, v |-> {a, b}]
    BY <1>2, <2>2 DEF Portable
  <2>4. {SubSeq(y, 1, 4), SubSeq(y, 5, 8)} = {a, b}
    BY <2>1
  <2>5. QED
    BY <2>3, <2>4 DEF Agree
<1>3. ASSUME t = LO_CHAR, y = Reversed(x) PROVE Agree(t, x, y)
  <2>1. Reversed(y) = x
    BY <1>3, ReversedTwice
  <2>2. t \notin {LO_INT64, LO_DOUBLE}
    BY <1>3 DEF LO_INT64, LO_DOUBLE, LO_CHAR
  <2>3. /\ Portable([t |-> t, v |-> y]) = [t |-> t, v |-> {y, Reversed(y)}]
        /\ Portable([t |-> t, v |-> x]) = [t |-> t, v |-> {x, Reversed(x)}]
    BY <1>3, <2>2 DEF Portable
  <2>4. {y, Reversed(y)} = {x, Reversed(x)}
    BY <1>3, <2>1
  <2>5. QED
    BY <2>3, <2>4 DEF Agree
<1>4. QED
  BY <1>1, <1>2, <1>3

(* What arrives of an argument on a host of the other order is the value    *)
(* that was sent, as far as Portable says.                                  *)
LEMMA FlippedValue ==
  ASSUME NEW from, NEW to, (to \in Little) <=> ~ (from \in Little), NEW t,
         NEW p \in Seq(Nat), NEW q \in Seq(Nat), Len(q) = Len(p),
         Holds(HostOrder(from \in Little), t, p, 0, Len(p)), Flips(q, p, Swapped(t))
  PROVE  Agree(t, Value(from, t, p), Value(to, t, q))
<1> DEFINE s == Len(p)
           here == from \in Little
           there == to \in Little
           x == Value(from, t, p)
           y == Value(to, t, q)
<1>1. /\ t \in Types /\ s \in Nat
      /\ t \in FourBytes => s = 4
      /\ t \in EightBytes => s = 8
      /\ t = LO_BLOB => BlobAt(HostOrder(here), p, 0, s)
  BY DEF Holds
<1>2. (there <=> ~ here) /\ here \in BOOLEAN /\ there \in BOOLEAN
  OBVIOUS
<1>3. ASSUME Swapped(t) = 0 PROVE q = p
  <2>1. \A j \in 1..Len(p) : q[j] = p[j]
    BY <1>3 DEF Flips
  <2>2. QED
    BY <2>1, SeqEqual
<1>4. CASE t \in NoData
  <2>1. x = << >> /\ y = << >>
    BY <1>1, <1>4, ValueIs
  <2>2. QED
    BY <2>1 DEF Agree
<1>5. CASE t \in Strings
  <2>1. Swapped(t) = 0
    BY <1>5 DEF Swapped, Strings, EightBytes, LO_STRING, LO_SYMBOL, LO_INT32, LO_FLOAT, LO_BLOB,
                LO_CHAR, LO_INT64, LO_TIMETAG, LO_DOUBLE
  <2>2. q = p
    BY <1>3, <2>1
  <2>3. x = SubSeq(p, 1, StrLen(p)) /\ y = SubSeq(q, 1, StrLen(q))
    BY <1>1, <1>5, ValueIs
  <2>4. QED
    BY <2>2, <2>3 DEF Agree
<1>6. CASE t = LO_MIDI
  <2>1. Swapped(t) = 0
    BY <1>6 DEF Swapped, EightBytes, LO_MIDI, LO_INT32, LO_FLOAT, LO_BLOB, LO_CHAR, LO_INT64,
                LO_TIMETAG, LO_DOUBLE
  <2>2. q = p
    BY <1>3, <2>1
  <2>3. x = SubSeq(p, 1, 4) /\ y = SubSeq(q, 1, 4)
    BY <1>6, FourAreRead
  <2>4. QED
    BY <2>2, <2>3 DEF Agree
<1>7. CASE t = LO_CHAR
  <2>1. Swapped(t) = 4
    BY <1>7 DEF Swapped, EightBytes, LO_INT32, LO_FLOAT, LO_BLOB, LO_CHAR, LO_INT64, LO_TIMETAG,
                LO_DOUBLE
  <2>2. \A k \in 1..4 : q[k] = p[5 - k]
    BY <2>1 DEF Flips
  <2>3. t \in FourBytes /\ t # LO_TIMETAG
    BY <1>7 DEF FourBytes, LO_CHAR, LO_TIMETAG
  <2>4. q = Reversed(p) /\ Len(p) = 4 /\ Len(q) = 4
    <3>1. Len(p) = 4 /\ Len(q) = 4
      BY <1>1, <2>3
    <3> DEFINE r == Reversed(p)
    <3>2. r \in Seq(Nat) /\ Len(r) = 4 /\ \A k \in 1..4 : r[k] = p[5 - k]
      BY <3>1, ReversedWord
    <3> HIDE DEF r
    <3>3. \A k \in 1..Len(q) : q[k] = r[k]
      BY <2>2, <3>1, <3>2
    <3>4. q = r
      BY <3>1, <3>2, <3>3, SeqEqual
    <3>5. QED
      BY <3>1, <3>4 DEF r
  <2>5. x = SubSeq(p, 1, 4) /\ y = SubSeq(q, 1, 4)
    BY <1>7, FourAreRead
  <2>6. SubSeq(p, 1, Len(p)) = p /\ SubSeq(q, 1, Len(q)) = q
    BY WholePiece
  <2>7. x = p /\ y = q
    BY <2>4, <2>5, <2>6
  <2> HIDE DEF x, y
  <2>8. Agree(t, x, y)
    BY <1>7, <2>4, <2>7, Agreement
  <2>9. QED
    BY <2>8 DEF x, y
<1>8. CASE t \in {LO_INT32, LO_FLOAT}
  <2>1. Swapped(t) = 4
    BY <1>8 DEF Swapped, EightBytes, LO_INT32, LO_FLOAT, LO_BLOB, LO_CHAR, LO_INT64, LO_TIMETAG,
                LO_DOUBLE
  <2>2. \A k \in 1..4 : q[k] = p[5 - k]
    BY <2>1 DEF Flips
  <2>3. s = 4 /\ t # LO_TIMETAG
    BY <1>1, <1>8 DEF FourBytes, LO_INT32, LO_FLOAT, LO_TIMETAG
  <2>4. InMemory(there, t, q) = InMemory(here, t, p)
    <3> HIDE DEF here, there
    <3>1. QED
      BY <1>2, <2>2, <2>3, FourFlip
  <2>5. SubSeq(p, 1, Len(p)) = p /\ SubSeq(q, 1, Len(q)) = q
    BY WholePiece
  <2>6. x = InMemory(here, t, SubSeq(p, 1, 4)) /\ y = InMemory(there, t, SubSeq(q, 1, 4))
    BY <1>1, <1>8, ValueIs
  <2> HIDE DEF x, y
  <2>7. x = y
    BY <2>3, <2>4, <2>5, <2>6
  <2>8. QED
    BY <2>7 DEF Agree, x, y
<1>9. CASE t \in EightBytes
  <2>1. Swapped(t) = 8
    BY <1>9, Kinds DEF Swapped, FourBytes
  <2>2. IsTime(q, p)
    BY <2>1 DEF Flips
  <2>3. s = 8
    BY <1>1, <1>9
  <2>4. /\ t = LO_TIMETAG => InMemory(there, t, q) = InMemory(here, t, p)
        /\ t # LO_TIMETAG => Exchanged(InMemory(there, t, q), InMemory(here, t, p))
    <3> HIDE DEF here, there
    <3>1. QED
      BY <1>2, <2>2, <2>3, EightFlip
  <2>5. SubSeq(p, 1, Len(p)) = p /\ SubSeq(q, 1, Len(q)) = q
    BY WholePiece
  <2>6. x = InMemory(here, t, SubSeq(p, 1, 8)) /\ y = InMemory(there, t, SubSeq(q, 1, 8))
    BY <1>1, <1>9, ValueIs
  <2> HIDE DEF x, y
  <2>7. x = InMemory(here, t, p) /\ y = InMemory(there, t, q)
    BY <2>3, <2>5, <2>6
  <2>8. x \in Seq(Nat) /\ y \in Seq(Nat) /\ Len(x) = 8 /\ Len(y) = 8
    <3> HIDE DEF here, there
    <3>1. QED
      BY <2>3, <2>7, NumberIs
  <2>9. CASE t = LO_TIMETAG
    <3>1. x = y
      BY <2>4, <2>7, <2>9
    <3>2. QED
      BY <3>1 DEF Agree, x, y
  <2>10. CASE t # LO_TIMETAG
    <3>1. t \in {LO_INT64, LO_DOUBLE}
      BY <1>9, <2>10 DEF EightBytes
    <3>2. Exchanged(y, x)
      BY <2>4, <2>7, <2>10
    <3>3. Agree(t, x, y)
      BY <2>8, <3>1, <3>2, Agreement
    <3>4. QED
      BY <3>3 DEF x, y
  <2>11. QED
    BY <2>9, <2>10
<1>10. CASE t = LO_BLOB
  <2> DEFINE n == WordAt(HostOrder(here), p, 0)
             k == BigEndian(Swap32(here, SubSeq(p, 1, 4)))
             l == BigEndian(Swap32(there, SubSeq(q, 1, 4)))
  <2>1. Swapped(t) = 4
    BY <1>10 DEF Swapped, EightBytes, LO_INT32, LO_FLOAT, LO_BLOB, LO_CHAR, LO_INT64, LO_TIMETAG,
                 LO_DOUBLE
  <2>2. \A j \in 4 + 1..s : q[j] = p[j]
    BY <2>1 DEF Flips
  <2>3. s >= 4 /\ n \in Nat /\ s = Padded(4 + n)
    BY <1>1, <1>10 DEF BlobAt
  <2>4. WordAt(HostOrder(there), q, 0) = n
    <3>1. \A i \in 1..4 : q[i] = p[5 - i]
      BY <2>1 DEF Flips
    <3> HIDE DEF here, there
    <3>2. QED
      BY <1>2, <3>1, WordFlips
  <2>5. k = n /\ l = n
    <3> HIDE DEF here, there
    <3>1. k = n
      BY <1>2, <2>3, WordIs
    <3>2. Len(q) >= 4
      BY <2>3
    <3>3. l = WordAt(HostOrder(there), q, 0)
      BY <1>2, <3>2, WordIs
    <3>4. QED
      BY <2>4, <3>1, <3>3
  <2>6. x = SubSeq(p, 5, 4 + k) /\ y = SubSeq(q, 5, 4 + l)
    BY <1>1, <1>10, ValueIs
  <2> HIDE DEF k, l, n, x, y
  <2>7. 4 + n <= s /\ s \in Nat
    BY <1>1, <2>3, PaddedIs
  <2>8. SubSeq(p, 5, 4 + n) = SubSeq(q, 5, 4 + n)
    <3> DEFINE v == 4
               c == SubSeq(p, v + 1, v + n)
               d == SubSeq(q, v + 1, v + n)
    <3>1. v \in Nat /\ v + n <= Len(p) /\ v + n <= Len(q) /\ v + 1 = 5
          /\ \A i \in 1..n : v + i \in 4 + 1..s
      BY <2>3, <2>7
    <3> HIDE DEF v
    <3>2. c \in Seq(Nat) /\ Len(c) = n /\ \A i \in 1..n : c[i] = p[v + i]
      BY <2>3, <3>1, PieceIs
    <3>3. d \in Seq(Nat) /\ Len(d) = n /\ \A i \in 1..n : d[i] = q[v + i]
      BY <2>3, <3>1, PieceIs
    <3> HIDE DEF c, d
    <3>4. \A i \in 1..n : c[i] = d[i]
      BY <2>2, <3>1, <3>2, <3>3
    <3>5. c = d
      BY <3>2, <3>3, <3>4, SeqEqual
    <3>6. QED
      BY <3>1, <3>5 DEF c, d, v
  <2>9. x = y
    BY <2>5, <2>6, <2>8
  <2>10. QED
    BY <2>9 DEF Agree, x, y
<1>11. QED
  BY <1>1, <1>4, <1>5, <1>6, <1>7, <1>8, <1>9, <1>10 DEF Types, FourBytes

-----------------------------------------------------------------------------
(* The values a reader sees. *)

\* what the reader at address h sees of an argument of type t whose bytes are b
Seen(h, t, b) == Portable([t |-> t, v |-> Value(h, t, b)])

\* the bytes of the i-th argument
Piece(h, m, i) == SubSeq(m.data, HostOffsets(h, m)[i] + 1, HostOffsets(h, m)[i + 1])

(* Each argument is read from its own bytes. *)
LEMMA ReadsPieces ==
  ASSUME NEW h, NEW m, Sound(h, m)
  PROVE  /\ Reads(h, m) = [i \in 1..Len(m.types) |-> Seen(h, m.types[i], Piece(h, m, i))]
         /\ \A i \in 1..Len(m.types) :
              /\ Piece(h, m, i) \in Seq(Nat)
              /\ Len(Piece(h, m, i)) = HostOffsets(h, m)[i + 1] - HostOffsets(h, m)[i]
              /\ Holds(HostOrder(h \in Little), m.types[i], Piece(h, m, i), 0, Len(Piece(h, m, i)))
<1> DEFINE types == m.types
           data == m.data
           off == HostOffsets(h, m)
           n == Len(types)
<1>1. /\ types \in Seq(Types) /\ n \in Nat /\ data \in Seq(Nat) /\ Len(data) \in Nat
      /\ DOMAIN types = 1..n
  BY DEF Sound, MessageSet
<1>2. ASSUME NEW i \in 1..n
      PROVE  /\ Piece(h, m, i) \in Seq(Nat) /\ Len(Piece(h, m, i)) = off[i + 1] - off[i]
             /\ Holds(HostOrder(h \in Little), types[i], Piece(h, m, i), 0, Len(Piece(h, m, i)))
             /\ Value(h, types[i], From(data, off[i])) = Value(h, types[i], Piece(h, m, i))
  <2> DEFINE v == off[i]
             u == off[i + 1]
             s == u - v
             t == types[i]
             p == SubSeq(data, v + 1, v + s)
  <2>1. i \in 1..n + 1 /\ i + 1 \in 1..n + 1
    BY <1>1
  <2>2. v \in Nat /\ u \in Nat /\ Holds(HostOrder(h \in Little), t, data, v, s)
    BY <1>1, <2>1 DEF Sound, Run
  <2>3. Piece(h, m, i) = SubSeq(data, v + 1, u)
    BY DEF Piece
  <2> HIDE DEF v, u, t, data
  <2>4. v + s = u
    BY <2>2
  <2> HIDE DEF s
  <2>5. /\ p \in Seq(Nat) /\ Len(p) = s
        /\ Holds(HostOrder(h \in Little), t, p, 0, s)
        /\ Value(h, t, From(data, v)) = Value(h, t, p)
    <3>1. data \in Seq(Nat) /\ v \in Nat
      BY <1>1, <2>2 DEF data
    <3>2. Holds(HostOrder(h \in Little), t, data, v, s)
      BY <2>2
    <3>3. IsOwn(h, t, p, data, v, s)
      BY <3>1, <3>2, ValueOwn
    <3>4. QED
      BY <3>3 DEF IsOwn
  <2>6. Piece(h, m, i) = p
    BY <2>3, <2>4
  <2> HIDE DEF p
  <2>7. QED
    BY <2>5, <2>6 DEF v, u, s, t, data
<1>3. Reads(h, m) =
        [i \in DOMAIN types |-> Portable([t |-> types[i], v |-> Value(h, types[i], From(data, off[i]))])]
  BY DEF Reads
<1> HIDE DEF types, data, off, n
<1>4. Reads(h, m) = [i \in 1..n |-> Seen(h, types[i], Piece(h, m, i))]
  BY <1>1, <1>2, <1>3 DEF Seen
<1>5. QED
  BY <1>2, <1>4 DEF types, off, n

(* What is behind an argument that is added is read as before, and the     *)
(* argument from the bytes that were added.                                *)
LEMMA ReadsOneMore ==
  ASSUME NEW h, NEW m, Sound(h, m), NEW t \in Types, NEW c, Adds(h, t, m.data, c),
         NEW r, Sound(h, r), r.types = Append(m.types, t), r.data = c
  PROVE  /\ Len(r.types) = Len(m.types) + 1
         /\ \A i \in 1..Len(m.types) : Reads(h, r)[i] = Reads(h, m)[i]
         /\ Reads(h, r)[Len(m.types) + 1] = Seen(h, t, SubSeq(c, Len(m.data) + 1, Len(c)))
<1> DEFINE types == m.types
           data == m.data
           more == Append(types, t)
           order == HostOrder(h \in Little)
           off == HostOffsets(h, m)
           new == HostOffsets(h, r)
           n == Len(types)
<1>1. /\ types \in Seq(Types) /\ n \in Nat /\ data \in Seq(Nat) /\ Len(data) \in Nat
      /\ Run(order, types, data, off)
  BY DEF Sound, MessageSet
<1>2. c \in Seq(Nat) /\ Begins(data, c) /\ Holds(order, t, c, Len(data), Len(c) - Len(data))
  BY DEF Adds
<1>3. more \in Seq(Types) /\ Len(more) = n + 1 /\ more[n + 1] = t /\ \A i \in 1..n : more[i] = types[i]
  BY <1>1, AppendProperties
<1>4. order \in Orders
  <2>1. (h \in Little) \in BOOLEAN
    OBVIOUS
  <2>2. QED
    BY <2>1, OrdersAre
<1>5. off = Offsets(types, data, order) /\ new = Offsets(more, c, order)
  BY DEF HostOffsets
<1> HIDE DEF types, data, more, order, off, new, n
<1>6. Run(order, more, c, new) /\ \A i \in 1..n + 1 : new[i] = off[i]
  <2>1. /\ Run(order, Append(types, t), c, Offsets(Append(types, t), c, order))
        /\ \A i \in 1..Len(types) + 1 :
             Offsets(Append(types, t), c, order)[i] = Offsets(types, data, order)[i]
    BY <1>1, <1>2, <1>4, <1>5, RunExtends
  <2>2. QED
    BY <1>5, <2>1 DEF more, n
<1>7. new[n + 1] = Len(data) /\ new[n + 2] = Len(c)
  <2>1. off[n + 1] = Len(data)
    BY <1>1 DEF Run, n
  <2>2. new[Len(more) + 1] = Len(c)
    BY <1>6 DEF Run
  <2>3. n + 1 \in 1..n + 1 /\ Len(more) + 1 = n + 2
    BY <1>1, <1>3
  <2>4. QED
    BY <1>6, <2>1, <2>2, <2>3
<1>8. ASSUME NEW i \in 1..n PROVE Piece(h, r, i) = Piece(h, m, i)
  <2> DEFINE v == off[i]
             u == off[i + 1]
             w == u - v
  <2>1. i \in 1..Len(types) /\ i \in 1..Len(types) + 1 /\ i + 1 \in 1..Len(types) + 1
        /\ i \in 1..n + 1 /\ i + 1 \in 1..n + 1
    BY <1>1 DEF n
  <2>2. v \in Nat /\ u \in Nat /\ v <= u /\ u <= Len(data)
    BY <1>1, <2>1 DEF Run
  <2>3. new[i] = v /\ new[i + 1] = u
    BY <1>6, <2>1
  <2> HIDE DEF v, u
  <2>4. w \in Nat /\ v + w = u /\ v + w <= Len(data)
    BY <2>2
  <2> HIDE DEF w
  <2>5. SubSeq(c, v + 1, v + w) = SubSeq(data, v + 1, v + w)
    <3>1. c \in Seq(Nat) /\ data \in Seq(Nat) /\ Begins(data, c)
      BY <1>1, <1>2
    <3>2. v \in Nat /\ w \in Nat /\ v + w <= Len(data)
      BY <2>2, <2>4
    <3>3. QED
      BY <3>1, <3>2, PieceBegins
  <2>6. Piece(h, r, i) = SubSeq(c, v + 1, u) /\ Piece(h, m, i) = SubSeq(data, v + 1, u)
    BY <2>3 DEF Piece, new, off, data, v, u
  <2>7. QED
    BY <2>4, <2>5, <2>6
<1>9. Piece(h, r, n + 1) = SubSeq(c, Len(data) + 1, Len(c))
  <2>1. Piece(h, r, n + 1) = SubSeq(c, new[n + 1] + 1, new[n + 1 + 1])
    BY DEF Piece, new
  <2>2. n + 1 + 1 = n + 2
    BY <1>1
  <2>3. QED
    BY <1>7, <2>1, <2>2
<1>10. /\ Reads(h, m) = [i \in 1..n |-> Seen(h, types[i], Piece(h, m, i))]
       /\ Reads(h, r) = [i \in 1..Len(more) |-> Seen(h, more[i], Piece(h, r, i))]
  BY ReadsPieces DEF types, more, n
<1>11. \A i \in 1..n : i \in 1..Len(more)
  BY <1>1, <1>3
<1>12. n + 1 \in 1..Len(more)
  BY <1>1, <1>3
<1>13. \A i \in 1..n : Reads(h, r)[i] = Reads(h, m)[i]
  BY <1>3, <1>8, <1>10, <1>11
<1>14. Reads(h, r)[n + 1] = Seen(h, t, SubSeq(c, Len(data) + 1, Len(c)))
  BY <1>3, <1>9, <1>10, <1>12
<1>15. Len(r.types) = n + 1
  BY <1>3 DEF more, types
<1>16. QED
  BY <1>13, <1>14, <1>15 DEF n, types, data

(* What is added is seen as it was given. *)
LEMMA SeenArg ==
  ASSUME NEW h, NEW a, WellFormed(a)
  PROVE  /\ a.t \notin NoData => Seen(h, a.t, ArgData(h, a)) = Portable(a)
         /\ a.t \in NoData => \A b : Seen(h, a.t, b) = Portable(a)
<1>1. a.t \in Types /\ a.v \in Seq(Nat)
  BY DEF WellFormed
<1>2. Portable([t |-> a.t, v |-> a.v]) = Portable(a)
  BY DEF Portable
<1>3. ASSUME a.t \notin NoData PROVE Value(h, a.t, ArgData(h, a)) = a.v
  BY <1>3, ValueArg
<1>4. ASSUME a.t \in NoData, NEW b PROVE Value(h, a.t, b) = a.v
  <2>1. Len(a.v) = 0
    BY <1>4 DEF WellFormed
  <2>2. a.v = << >>
    BY <1>1, <2>1, EmptySeq
  <2>3. Value(h, a.t, b) = << >>
    BY <1>1, <1>4, ValueIs
  <2>4. QED
    BY <2>2, <2>3
<1>5. QED
  BY <1>2, <1>3, <1>4 DEF Seen

\* r is m, at address h, and an argument behind it that is read as y
OneMoreRead(h, m, r, y) ==
  /\ Len(r.types) = Len(m.types) + 1
  /\ \A i \in 1..Len(m.types) : Reads(h, r)[i] = Reads(h, m)[i]
  /\ Reads(h, r)[Len(m.types) + 1] = y

(* lo_message_add_int32, ..., lo_message_add_infinitum add what they were  *)
(* given.                                                                  *)
LEMMA AddedIsRead ==
  ASSUME NEW h, NEW m, Sound(h, m), NEW a, WellFormed(a)
  PROVE  OneMoreRead(h, m, Added(h, m, a), Portable(a))
<1> DEFINE t == a.t
           r == Added(h, m, a)
<1>1. m \in MessageSet /\ t \in Types
  BY DEF Sound, WellFormed
<1>2. m.data \in Seq(Nat) /\ m.types \in Seq(Types) /\ Len(m.data) \in Nat
      /\ TypeRoom(m) \in Nat
  <2>1. Len(m.types) + 2 <= m.typesize
    BY DEF Sound
  <2>2. QED
    BY <1>1, <2>1, TypeRoomIs DEF MessageSet
<1>3. Sound(h, r)
  BY AddedSound
<1>4. CASE t \in NoData
  <2>1. r = AddTypechar(m, t)
    BY <1>4 DEF Added
  <2>2. Adds(h, t, m.data, m.data)
    BY <1>2, <1>4, NothingAdded
  <2>3. \A b : Seen(h, t, b) = Portable(a)
    BY <1>4, SeenArg
  <2> HIDE DEF t, r
  <2>4. r.types = Append(m.types, t) /\ r.data = m.data
    BY <1>1, <1>2, <2>1, AddTypecharIs
  <2>5. /\ Len(r.types) = Len(m.types) + 1
        /\ \A i \in 1..Len(m.types) : Reads(h, r)[i] = Reads(h, m)[i]
        /\ Reads(h, r)[Len(m.types) + 1] = Seen(h, t, SubSeq(m.data, Len(m.data) + 1, Len(m.data)))
    BY <1>1, <1>3, <2>2, <2>4, ReadsOneMore
  <2>6. OneMoreRead(h, m, r, Portable(a))
    BY <2>3, <2>5 DEF OneMoreRead
  <2>7. QED
    BY <2>6 DEF r
<1>5. CASE t \notin NoData
  <2> DEFINE bytes == ArgData(h, a)
             b == m.data \o bytes
             d == AddData(m, bytes)
  <2>1. bytes \in Seq(Nat) /\ Holds(HostOrder(h \in Little), t, bytes, 0, Len(bytes))
    BY <1>5, HoldsArg
  <2>2. r = AddTypechar(d, t)
    BY <1>5 DEF Added
  <2>3. Seen(h, t, bytes) = Portable(a)
    BY <1>5, SeenArg
  <2> HIDE DEF bytes, t, r
  <2>4. Adds(h, t, m.data, b)
    BY <1>2, <2>1, ExtendedBy
  <2>5. d \in MessageSet /\ d.types = m.types /\ d.typesize = m.typesize /\ d.data = b
    BY <1>1, <2>1, AddDataIs
  <2>6. b \in Seq(Nat) /\ Len(b) = Len(m.data) + Len(bytes)
        /\ \A k \in 1..Len(m.data) + Len(bytes) :
             b[k] = IF k <= Len(m.data) THEN m.data[k] ELSE bytes[k - Len(m.data)]
    BY <1>2, <2>1, ConcatProperties
  <2> HIDE DEF d, b
  <2>7. TypeRoom(d) \in Nat
    BY <1>2, <2>5 DEF TypeRoom
  <2>8. r.types = Append(m.types, t) /\ r.data = b
    BY <1>1, <2>2, <2>5, <2>7, AddTypecharIs
  <2>9. SubSeq(b, Len(m.data) + 1, Len(b)) = bytes
    <3> DEFINE v == Len(m.data)
               w == Len(bytes)
               p == SubSeq(b, v + 1, v + w)
    <3>1. v \in Nat /\ w \in Nat /\ v + w <= Len(b) /\ v + w = Len(b)
      BY <1>2, <2>1, <2>6
    <3>2. \A k \in 1..v + w : b[k] = IF k <= v THEN m.data[k] ELSE bytes[k - v]
      BY <2>6
    <3>3. bytes \in Seq(Nat) /\ Len(bytes) = w
      BY <2>1
    <3> HIDE DEF v, w
    <3>4. p \in Seq(Nat) /\ Len(p) = w /\ \A k \in 1..w : p[k] = b[v + k]
      BY <2>6, <3>1, PieceIs
    <3> HIDE DEF p
    <3>5. ASSUME NEW k \in 1..w PROVE p[k] = bytes[k]
      <4> DEFINE j == v + k
      <4>1. j \in 1..v + w /\ ~ (j <= v) /\ j - v = k
        BY <3>1
      <4>2. p[k] = b[j]
        BY <3>4
      <4> HIDE DEF j
      <4>3. b[j] = bytes[j - v]
        BY <3>2, <4>1
      <4>4. QED
        BY <4>1, <4>2, <4>3
    <3>6. p = bytes
      BY <3>3, <3>4, <3>5, SeqEqual
    <3>7. QED
      BY <3>1, <3>6 DEF p, v
  <2>10. /\ Len(r.types) = Len(m.types) + 1
         /\ \A i \in 1..Len(m.types) : Reads(h, r)[i] = Reads(h, m)[i]
         /\ Reads(h, r)[Len(m.types) + 1] = Seen(h, t, SubSeq(b, Len(m.data) + 1, Len(b)))
    BY <1>1, <1>3, <2>4, <2>8, ReadsOneMore
  <2>11. OneMoreRead(h, m, r, Portable(a))
    BY <2>3, <2>9, <2>10 DEF OneMoreRead
  <2>12. QED
    BY <2>11 DEF r
<1>6. QED
  BY <1>4, <1>5

\* r is m, at address h, with arguments behind it that may be added
Grows(h, m, r) ==
  /\ Len(m.types) <= Len(r.types)
  /\ \A i \in 1..Len(m.types) : Reads(h, r)[i] = Reads(h, m)[i]
  /\ \A i \in Len(m.types) + 1..Len(r.types) : Reads(h, r)[i] \in Sent

(* An argument behind those that were added is another one. *)
LEMMA GrowsOn ==
  ASSUME NEW h, NEW m, Sound(h, m), NEW x, Sound(h, x), Grows(h, m, x),
         NEW a, WellFormed(a), Portable(a) \in Sent
  PROVE  Grows(h, m, Added(h, x, a))
<1> DEFINE r == Added(h, x, a)
           n == Len(m.types)
           k == Len(x.types)
           l == Len(r.types)
<1>1. n \in Nat /\ k \in Nat
  BY DEF Sound, MessageSet
<1>2. /\ l = k + 1 /\ \A i \in 1..k : Reads(h, r)[i] = Reads(h, x)[i]
      /\ Reads(h, r)[k + 1] = Portable(a)
  BY AddedIsRead DEF OneMoreRead
<1>3. /\ n <= k /\ \A i \in 1..n : Reads(h, x)[i] = Reads(h, m)[i]
      /\ \A i \in n + 1..k : Reads(h, x)[i] \in Sent
  BY DEF Grows
<1> HIDE DEF r, n, k, l
<1>4. n <= l /\ \A i \in 1..n : i \in 1..k
  BY <1>1, <1>2, <1>3
<1>5. \A i \in n + 1..l : (i \in n + 1..k /\ i \in 1..k) \/ i = k + 1
  BY <1>1, <1>2
<1>6. \A i \in 1..n : Reads(h, r)[i] = Reads(h, m)[i]
  BY <1>2, <1>3, <1>4
<1>7. \A i \in n + 1..l : Reads(h, r)[i] \in Sent
  BY <1>2, <1>3, <1>5
<1>8. QED
  BY <1>4, <1>6, <1>7 DEF Grows, r, n, l

(* It has grown by nothing. *)
LEMMA GrowsNot ==
  ASSUME NEW h, NEW m, Sound(h, m)
  PROVE  Grows(h, m, m)
<1> DEFINE n == Len(m.types)
<1>1. n \in Nat
  BY DEF Sound, MessageSet
<1>2. n <= n /\ n + 1..n = {}
  BY <1>1
<1>3. QED
  BY <1>2 DEF Grows

(* lo_message_add adds the arguments of its list. *)
LEMMA AddedAllGrows ==
  ASSUME Good, NEW h, NEW m, Sound(h, m), NEW list \in Varargs
  PROVE  Grows(h, m, AddedAll(h, m, list))
<1> DEFINE V == {x \in MessageSet : Sound(h, x) /\ Grows(h, m, x)}
<1>1. m \in V
  BY SoundIsMessage, GrowsNot
<1>2. Len(list) \in Nat /\ \A i \in 1..Len(list) : Taken(list, i) => WellFormed(list[i])
  BY DEF Good, GoodArguments
<1>3. \A i \in 1..Len(list) : Taken(list, i) => Portable(list[i]) \in Sent
  BY DEF Sent
<1>4. \A i \in 1..Len(list) : Taken(list, i) => \A x \in V : Added(h, x, list[i]) \in V
  <2> SUFFICES ASSUME NEW i \in 1..Len(list), Taken(list, i), NEW x \in V
               PROVE  Added(h, x, list[i]) \in V
    OBVIOUS
  <2> DEFINE a == list[i]
  <2>1. WellFormed(a) /\ Sound(h, x) /\ Grows(h, m, x) /\ Portable(a) \in Sent
    BY <1>2, <1>3
  <2> HIDE DEF a
  <2>2. Sound(h, Added(h, x, a))
    BY <2>1, AddedSound
  <2>3. Grows(h, m, Added(h, x, a))
    BY <2>1, GrowsOn
  <2>4. QED
    BY <2>2, <2>3, SoundIsMessage DEF a
<1> HIDE DEF V
<1>5. AddedAll(h, m, list) \in V
  BY <1>1, <1>2, <1>4, AddedAllIn
<1>6. QED
  BY <1>5 DEF V

-----------------------------------------------------------------------------
(* A message as a list of values. *)

\* None is no list of arguments
NoneIsNoList == \A n \in Nat : None # [i \in 1..n |-> None[i]]

(* What is read of a message is a list, as long as its types. *)
LEMMA ReadsIsList ==
  ASSUME NoneIsNoList, NEW h, NEW m, Sound(h, m)
  PROVE  /\ Reads(h, m) # None
         /\ DOMAIN Reads(h, m) = 1..Len(m.types)
         /\ Reads(h, m) = [i \in 1..Len(m.types) |-> Reads(h, m)[i]]
         /\ Len(m.types) \in Nat /\ Len(Reads(h, m)) = Len(m.types)
<1> DEFINE n == Len(m.types)
           x == Reads(h, m)
<1>1. n \in Nat
  BY DEF Sound, MessageSet
<1>2. x = [i \in 1..n |-> Seen(h, m.types[i], Piece(h, m, i))]
  BY ReadsPieces
<1> HIDE DEF n, x
<1>3. DOMAIN x = 1..n /\ x = [i \in 1..n |-> x[i]]
  BY <1>2
<1>4. x # None
  BY <1>1, <1>3 DEF NoneIsNoList
<1>5. Len(x) = n
  BY <1>1, <1>3
<1>6. QED
  BY <1>1, <1>3, <1>4, <1>5 DEF n, x

(* The list of a message that grows begins with what it was. *)
LEMMA GrownList ==
  ASSUME NoneIsNoList, NEW h, NEW m, Sound(h, m), NEW r, Sound(h, r), Grows(h, m, r)
  PROVE  /\ Len(Reads(h, r)) >= Len(Reads(h, m))
         /\ SubSeq(Reads(h, r), 1, Len(Reads(h, m))) = Reads(h, m)
         /\ \A i \in Len(Reads(h, m)) + 1..Len(Reads(h, r)) : Reads(h, r)[i] \in Sent
<1> DEFINE n == Len(m.types)
           k == Len(r.types)
           x == Reads(h, m)
           y == Reads(h, r)
           S == {y[i] : i \in 1..k}
           z == SubSeq(y, 1, n)
<1>1. /\ DOMAIN x = 1..n /\ x = [i \in 1..n |-> x[i]] /\ n \in Nat /\ Len(x) = n
      /\ DOMAIN y = 1..k /\ y = [i \in 1..k |-> y[i]] /\ k \in Nat /\ Len(y) = k
  BY ReadsIsList
<1>2. n <= k /\ (\A i \in 1..n : y[i] = x[i]) /\ \A i \in n + 1..k : y[i] \in Sent
  BY DEF Grows
<1> HIDE DEF n, k, x, y
<1>3. \A i \in 1..n : i \in 1..k
  BY <1>1, <1>2
<1>4. \A i \in 1..n : y[i] \in S
  BY <1>3
<1> HIDE DEF S
<1>5. z \in Seq(S) /\ Len(z) = (IF 1 <= n THEN n - 1 + 1 ELSE 0)
      /\ \A i \in 1..n - 1 + 1 : z[i] = y[1 + i - 1]
  BY <1>1, <1>4, SubSeqProperties
<1> HIDE DEF z
<1>6. x \in Seq(S)
  <2>1. \A i \in 1..n : x[i] \in S
    BY <1>2, <1>4
  <2>2. QED
    BY <1>1, <2>1
<1>7. Len(z) = Len(x)
  BY <1>1, <1>5
<1>8. \A i \in 1..Len(z) : z[i] = x[i]
  <2>1. \A i \in 1..n : i \in 1..n - 1 + 1 /\ 1 + i - 1 = i
    BY <1>1
  <2>2. \A i \in 1..n : z[i] = x[i]
    BY <1>2, <1>5, <2>1
  <2>3. QED
    BY <1>1, <1>7, <2>2
<1>9. z = x
  BY <1>5, <1>6, <1>7, <1>8, SeqEqual
<1>10. Len(y) >= Len(x)
  BY <1>1, <1>2
<1>11. QED
  BY <1>1, <1>2, <1>9, <1>10 DEF x, y, z

\* d is what becomes of m at another address: the same types, and data swapped twice
Reswapped(h, m, to, d) ==
  /\ Sound(to, d) /\ d.types = m.types
  /\ HostOffsets(to, d) = HostOffsets(h, m)
  /\ Len(d.data) = Len(m.data)
  /\ \E c \in Seq(Nat) :
       /\ Len(c) = Len(m.data)
       /\ \A i \in 1..Len(m.types) :
            LET v == HostOffsets(h, m)[i]
                u == HostOffsets(h, m)[i + 1]
                w == Swapped(m.types[i])
            IN  /\ IsSwapped(h \in Little, c, m.data, v, w, u)
                /\ IsSwapped(to \in Little, d.data, c, v, w, u)

(* That is what arrives. *)
LEMMA ArrivesReswapped ==
  ASSUME NEW h, NEW m, Sound(h, m), Fit(h, m), NEW path \in Seq(Nat), NulFree(path), NEW to
  PROVE  Reswapped(h, m, to, Deserialise(to, Serialise(h, m, path)))
<1> DEFINE types == m.types
           data == m.data
           off == HostOffsets(h, m)
           here == h \in Little
           there == to \in Little
           r == Swap(here, types, data, off)
           b == Serialise(h, m, path)
           d == Deserialise(to, b)
           x == Swap(there, types, r, off)
<1>1. b \in Seq(Nat) /\ Accepted(b) /\ Tail(TagsOf(b)) = types /\ DataOf(b) = r
      /\ Offsets(types, DataOf(b), Wire) = off
  BY WholeAccepted
<1>2. /\ d.types = Tail(TagsOf(b))
      /\ d.data = Swap(there, Tail(TagsOf(b)), DataOf(b), Offsets(Tail(TagsOf(b)), DataOf(b), Wire))
      /\ Sound(to, d)
  <2> HIDE DEF b
  <2>1. QED
    BY <1>1, AcceptedIs, ArrivesSound
<1>3. d.types = types /\ d.data = x
  <2> HIDE DEF b, d, r, off, types, there
  <2>1. QED
    BY <1>1, <1>2
<1>4. data \in Seq(Nat) /\ Len(types) \in Nat /\ Run(HostOrder(here), types, data, off)
  BY DEF Sound, MessageSet
<1>5. here \in BOOLEAN /\ there \in BOOLEAN
  OBVIOUS
<1>6. \A i \in 1..Len(types) : Receivable(HostOrder(here), types[i], data, off[i])
  BY DEF Fit
<1>7. off = [i \in DOMAIN off |-> off[i]]
  BY OffsetsIsFunction DEF HostOffsets
<1>8. HostOffsets(to, d) = Offsets(d.types, d.data, HostOrder(there))
  BY DEF HostOffsets
<1> HIDE DEF types, data, off, here, there, b, d
<1>9. Run(Wire, types, r, off)
  <2>1. Swaps(here, HostOrder(here), Wire)
    BY <1>5, OrdersAre
  <2>2. QED
    BY <1>4, <1>5, <1>6, <2>1, SwapRun
<1>10. r \in Seq(Nat) /\ Len(r) = Len(data)
  BY <1>4, SwapIsBytes
<1>11. \A i \in 1..Len(types) : IsSwapped(here, r, data, off[i], Swapped(types[i]), off[i + 1])
  BY <1>4, SwapsEach
<1> HIDE DEF r
<1>12. x \in Seq(Nat) /\ Len(x) = Len(r)
  BY <1>4, <1>9, <1>10, SwapIsBytes
<1>13. \A i \in 1..Len(types) : IsSwapped(there, x, r, off[i], Swapped(types[i]), off[i + 1])
  BY <1>4, <1>9, <1>10, SwapsEach
<1>14. Run(HostOrder(there), types, x, off)
  <2>1. Swaps(there, Wire, HostOrder(there)) /\ HostOrder(there) # Wire
    BY <1>5, OrdersAre DEF HostOrder, Wire
  <2>2. QED
    BY <1>4, <1>5, <1>9, <1>10, <2>1, SwapRun
<1> HIDE DEF x
<1>15. Offsets(types, x, HostOrder(there)) = off
  <2>1. HostOrder(there) \in Orders
    BY <1>5, OrdersAre
  <2>2. QED
    BY <1>4, <1>7, <1>12, <1>14, <2>1, RunIsOffsets
<1>16. HostOffsets(to, d) = off
  BY <1>3, <1>8, <1>15
<1>17. Len(d.data) = Len(data)
  BY <1>3, <1>10, <1>12
<1>18. \A i \in 1..Len(types) :
         /\ IsSwapped(here, r, data, off[i], Swapped(types[i]), off[i + 1])
         /\ IsSwapped(there, d.data, r, off[i], Swapped(types[i]), off[i + 1])
  BY <1>3, <1>11, <1>13
<1>19. Reswapped(h, m, to, d)
  BY <1>2, <1>3, <1>10, <1>16, <1>17, <1>18 DEF Reswapped, types, data, off, here, there
<1>20. QED
  BY <1>19 DEF d, b

(* On a host of the other order each argument is read as it was sent.      *)
LEMMA OtherReads ==
  ASSUME NEW h, NEW m, Sound(h, m), NEW to, NEW d, Reswapped(h, m, to, d),
         (to \in Little) <=> ~ (h \in Little)
  PROVE  Reads(to, d) = Reads(h, m)
<1> DEFINE types == m.types
           data == m.data
           off == HostOffsets(h, m)
           here == h \in Little
           there == to \in Little
           n == Len(types)
           e == d.data
<1>1. types \in Seq(Types) /\ n \in Nat /\ data \in Seq(Nat) /\ Len(data) \in Nat
      /\ Run(HostOrder(here), types, data, off)
  BY DEF Sound, MessageSet
<1>2. Sound(to, d) /\ d.types = types /\ HostOffsets(to, d) = off /\ Len(e) = Len(data)
  BY DEF Reswapped
<1>3. PICK c \in Seq(Nat) :
        /\ Len(c) = Len(data)
        /\ \A i \in 1..n : /\ IsSwapped(here, c, data, off[i], Swapped(types[i]), off[i + 1])
                           /\ IsSwapped(there, e, c, off[i], Swapped(types[i]), off[i + 1])
  BY DEF Reswapped
<1>4. e \in Seq(Nat)
  BY <1>2 DEF Sound, MessageSet
<1>5. there <=> ~ here
  OBVIOUS
<1>6. /\ Reads(h, m) = [i \in 1..n |-> Seen(h, types[i], Piece(h, m, i))]
      /\ Reads(to, d) = [i \in 1..n |-> Seen(to, types[i], Piece(to, d, i))]
  BY <1>2, ReadsPieces
<1>7. ASSUME NEW i \in 1..n
      PROVE  Seen(to, types[i], Piece(to, d, i)) = Seen(h, types[i], Piece(h, m, i))
  <2> DEFINE v == off[i]
             u == off[i + 1]
             t == types[i]
             w == Swapped(t)
             p == Piece(h, m, i)
             q == Piece(to, d, i)
  <2>1. i \in 1..n + 1 /\ i + 1 \in 1..n + 1
    BY <1>1
  <2>2. v \in Nat /\ u \in Nat /\ v <= u /\ u <= Len(data)
        /\ Holds(HostOrder(here), t, data, v, u - v)
    BY <1>1, <2>1 DEF Run
  <2>3. w \in {0, 4, 8} /\ w <= u - v
    BY <2>2, SwappedFits
  <2>4. IsSwapped(here, c, data, v, w, u) /\ IsSwapped(there, e, c, v, w, u)
    BY <1>3
  <2>5. p = SubSeq(data, v + 1, u) /\ q = SubSeq(e, v + 1, u)
    BY <1>2 DEF Piece
  <2>6. /\ p \in Seq(Nat) /\ Len(p) = u - v /\ Holds(HostOrder(here), t, p, 0, Len(p))
        /\ q \in Seq(Nat) /\ Len(q) = u - v
    BY <1>2, ReadsPieces
  <2> HIDE DEF p, q, v, u, t, w, data, e, n, types, off
  <2>7. Flips(SubSeq(e, v + 1, u), SubSeq(data, v + 1, u), w)
    <3> HIDE DEF here, there
    <3>1. data \in Seq(Nat) /\ e \in Seq(Nat) /\ Len(c) = Len(data) /\ Len(e) = Len(data)
      BY <1>1, <1>2, <1>3, <1>4
    <3>2. v \in Nat /\ u \in Nat /\ v <= u /\ u <= Len(data)
      BY <2>2
    <3>3. QED
      BY <1>5, <2>3, <2>4, <3>1, <3>2, ArgFlips
  <2>8. q \in Seq(Nat) /\ Len(q) = Len(p) /\ Flips(q, p, Swapped(t))
    BY <2>5, <2>6, <2>7 DEF w
  <2>9. Agree(t, Value(h, t, p), Value(to, t, q))
    BY <2>6, <2>8, FlippedValue
  <2>10. Seen(to, t, q) = Seen(h, t, p)
    BY <2>9 DEF Agree, Seen
  <2>11. QED
    BY <2>10 DEF t, q, p
<1>8. QED
  BY <1>6, <1>7

(* lo_message_deserialise makes of what lo_message_serialise wrote a       *)
(* message of the same values.                                             *)
LEMMA ReadsArrive ==
  ASSUME NEW h, NEW m, Sound(h, m), Fit(h, m), NEW path \in Seq(Nat), NulFree(path), NEW to
  PROVE  /\ Sound(to, Deserialise(to, Serialise(h, m, path)))
         /\ Reads(to, Deserialise(to, Serialise(h, m, path))) = Reads(h, m)
<1> DEFINE d == Deserialise(to, Serialise(h, m, path))
<1>1. Reswapped(h, m, to, d)
  BY ArrivesReswapped
<1>2. Sound(to, d)
  BY <1>1 DEF Reswapped
<1>3. CASE (to \in Little) <=> ~ (h \in Little)
  <2> HIDE DEF d
  <2>1. Reads(to, d) = Reads(h, m)
    BY <1>1, <1>3, OtherReads
  <2>2. QED
    BY <1>2, <2>1 DEF d
<1>4. CASE (to \in Little) <=> (h \in Little)
  <2>1. d.types = m.types /\ d.data = m.data
    BY <1>4, RoundTrip
  <2> HIDE DEF d
  <2>2. (to \in Little) = (h \in Little)
    BY <1>4
  <2>3. HostOffsets(to, d) = HostOffsets(h, m)
    BY <2>1, <2>2 DEF HostOffsets
  <2>4. \A t, b : Value(to, t, b) = Value(h, t, b)
    BY <2>2 DEF Value
  <2>5. Reads(to, d) = Reads(h, m)
    BY <2>1, <2>3, <2>4 DEF Reads
  <2>6. QED
    BY <1>2, <2>5 DEF d
<1>5. QED
  BY <1>3, <1>4

(* What setting, or freeing, a message does to what is read.               *)
LEMMA ContentsSet ==
  ASSUME MessagesSound, NEW g \in Handles, NEW m, heap' = [heap EXCEPT ![g] = m]
  PROVE  Contents' = [Contents EXCEPT ![g] = IF m = None THEN None ELSE Reads(g, m)]
<1>1. heap \in [Handles -> MessageSet \cup {None}]
  BY DEF MessagesSound
<1>2. \A h \in Handles : heap'[h] = IF h = g THEN m ELSE heap[h]
  BY <1>1
<1>3. \A h \in Handles :
        Contents'[h] = IF h = g THEN IF m = None THEN None ELSE Reads(g, m) ELSE Contents[h]
  BY <1>2 DEF Contents
<1>4. QED
  BY <1>3 DEF Contents

(* lo_message_new makes an empty one. *)
LEMMA NewReads ==
  ASSUME NEW h
  PROVE  Reads(h, NewMessage) = << >>
<1> DEFINE m == NewMessage
           x == Reads(h, m)
<1>1. m.types = << >>
  BY DEF NewMessage
<1>2. Len(<< >>) = 0
  OBVIOUS
<1>3. x = [i \in 1..Len(m.types) |-> Seen(h, m.types[i], Piece(h, m, i))]
  BY NewSound, ReadsPieces
<1> HIDE DEF m, x
<1>4. x = [i \in 1..0 |-> Seen(h, m.types[i], Piece(h, m, i))]
  BY <1>1, <1>2, <1>3
<1>5. x = << >>
  BY <1>4
<1>6. QED
  BY <1>5 DEF x, m

(* A message to which arguments are added: the list is appended to.        *)
LEMMA AppendStep ==
  ASSUME NoneIsNoList, NoneIsNoMessage, MessagesSound, NEW h \in Handles, heap[h] # None,
         NEW r, Sound(h, r), Grows(h, heap[h], r), heap' = [heap EXCEPT ![h] = r]
  PROVE  A!AppendArgs(h)
<1> DEFINE m == heap[h]
           x == Reads(h, m)
           y == Reads(h, r)
<1>1. Sound(h, m) /\ r # None
  BY SoundIsMessage DEF MessagesSound, NoneIsNoMessage
<1>2. Contents' = [Contents EXCEPT ![h] = y]
  BY <1>1, ContentsSet
<1>3. Contents[h] = x /\ Contents'[h] = y
  <2>1. Contents[h] = x
    BY DEF Contents
  <2>2. h \in DOMAIN Contents
    BY DEF Contents
  <2>3. QED
    BY <1>2, <2>1, <2>2
<1>4. x # None /\ y # None
  BY <1>1, ReadsIsList
<1>5. Grows(h, m, r)
  OBVIOUS
<1> HIDE DEF m
<1>6. /\ Len(y) >= Len(x) /\ SubSeq(y, 1, Len(x)) = x
      /\ \A i \in Len(x) + 1..Len(y) : y[i] \in Sent
  BY <1>1, <1>5, GrownList
<1> HIDE DEF x, y
<1>7. QED
  BY <1>2, <1>3, <1>4, <1>6 DEF A!AppendArgs

(* A message that is received: its list is the sender's.                   *)
LEMMA ArriveStep ==
  ASSUME NoneIsNoList, NoneIsNoMessage, MessagesSound, NEW from \in Handles, NEW to \in Handles,
         heap[from] # None, heap[to] = None, NEW d, Sound(to, d), Reads(to, d) = Reads(from, heap[from]),
         heap' = [heap EXCEPT ![to] = d]
  PROVE  A!Arrives(from, to)
<1>1. Sound(from, heap[from]) /\ d # None
  BY SoundIsMessage DEF MessagesSound, NoneIsNoMessage
<1>2. Contents' = [Contents EXCEPT ![to] = Reads(to, d)]
  BY <1>1, ContentsSet
<1>3. Contents[from] = Reads(from, heap[from]) /\ Contents[to] = None
  BY DEF Contents
<1>4. Reads(from, heap[from]) # None
  BY <1>1, ReadsIsList
<1>5. QED
  BY <1>2, <1>3, <1>4 DEF A!Arrives

(* Messages that are freed.                                                *)
LEMMA FreeStep ==
  ASSUME MessagesSound, NEW gone \in SUBSET Handles,
         heap' = [h \in Handles |-> IF h \in gone THEN None ELSE heap[h]]
  PROVE  A!Freed
<1>1. Contents' = [h \in Handles |-> IF h \in gone THEN None ELSE Contents[h]]
  BY DEF Contents
<1>2. QED
  BY <1>1 DEF A!Freed

(* Every step of a program is a step of the lists, or changes none.        *)
LEMMA ListsStep ==
  ASSUME Good, GoodPaths, NoneIsNoMessage, NoneIsNoList, MessageInv, MessagesFit, [Next]_vars
  PROVE  [A!ArgsNext]_Contents
<1>0. MessagesSound
  BY DEF MessageInv
<1>1. ASSUME heap' = heap PROVE Contents' = Contents
  BY <1>1 DEF Contents
<1>2. ASSUME NEW h \in Handles, New(h) PROVE A!NewArgs(h)
  <2>1. heap[h] = None /\ heap' = [heap EXCEPT ![h] = NewMessage]
    BY <1>2 DEF New
  <2>2. NewMessage # None
    BY NewSound, SoundIsMessage DEF NoneIsNoMessage
  <2>3. Contents' = [Contents EXCEPT ![h] = << >>]
    <3>1. Reads(h, NewMessage) = << >>
      BY NewReads
    <3>2. Contents' = [Contents EXCEPT ![h] = IF NewMessage = None THEN None ELSE Reads(h, NewMessage)]
      BY <1>0, <2>1, ContentsSet
    <3>3. QED
      BY <2>2, <3>1, <3>2
  <2>4. Contents[h] = None
    BY <2>1 DEF Contents
  <2>5. QED
    BY <2>3, <2>4 DEF A!NewArgs
<1>3. ASSUME NEW h \in Handles, GetArgv(h) PROVE Contents' = Contents
  <2> DEFINE m == heap[h]
             r == [m EXCEPT !.argv = ArgvOf(h, m)]
  <2>1. m # None /\ Sound(h, m)
    BY <1>0, <1>3 DEF GetArgv, Live, MessagesSound
  <2>2. heap' = [heap EXCEPT ![h] = r]
    BY <1>3 DEF GetArgv
  <2>3. Sound(h, r)
    BY <2>1, ArgvSound
  <2>4. r.types = m.types /\ r.data = m.data
    BY <2>1 DEF Sound, MessageSet
  <2>5. Contents[h] = Reads(h, m)
    BY <2>1 DEF Contents
  <2> HIDE DEF r, m
  <2>6. Reads(h, r) = Reads(h, m)
    BY <2>4 DEF Reads, HostOffsets
  <2>7. r # None
    BY <2>3, SoundIsMessage DEF NoneIsNoMessage
  <2>8. Contents' = [Contents EXCEPT ![h] = Contents[h]]
    BY <1>0, <2>2, <2>5, <2>6, <2>7, ContentsSet
  <2>9. QED
    BY <2>8 DEF Contents
<1>4. ASSUME NEW h \in Handles, Free(h) PROVE A!Freed
  <2>1. heap' = [heap EXCEPT ![h] = None]
    BY <1>4 DEF Free
  <2>2. heap' = [g \in Handles |-> IF g \in {h} THEN None ELSE heap[g]]
    BY <1>0, <2>1 DEF MessagesSound
  <2>3. {h} \in SUBSET Handles
    OBVIOUS
  <2>4. QED
    BY <1>0, <2>2, <2>3, FreeStep
<1>5. ASSUME NEW h \in Handles, NEW a \in Arguments, Add(h, a) PROVE A!AppendArgs(h)
  <2> DEFINE m == heap[h]
             r == Added(h, m, a)
  <2>1. m # None /\ Sound(h, m) /\ WellFormed(a)
    BY <1>0, <1>5 DEF Add, Live, MessagesSound, Good, GoodArguments
  <2>2. heap' = [heap EXCEPT ![h] = r]
    BY <1>5 DEF Add
  <2>3. Portable(a) \in Sent
    BY DEF Sent
  <2> HIDE DEF m
  <2>4. Sound(h, r)
    BY <2>1, AddedSound
  <2>5. Grows(h, m, r)
    BY <2>1, <2>3, GrowsNot, GrowsOn
  <2> HIDE DEF r
  <2>6. QED
    BY <1>0, <2>1, <2>2, <2>4, <2>5, AppendStep DEF m
<1>6. ASSUME NEW h \in Handles, NEW list \in Varargs, AddVarargs(h, list) PROVE A!AppendArgs(h)
  <2> DEFINE m == heap[h]
             r == AddedAll(h, m, list)
  <2>1. m # None /\ Sound(h, m)
    BY <1>0, <1>6 DEF AddVarargs, Live, MessagesSound
  <2>2. heap' = [heap EXCEPT ![h] = r]
    BY <1>6 DEF AddVarargs
  <2> HIDE DEF m
  <2>3. Sound(h, r) /\ Grows(h, m, r)
    BY <2>1, AddedAllSound, AddedAllGrows
  <2> HIDE DEF r
  <2>4. QED
    BY <1>0, <2>1, <2>2, <2>3, AppendStep DEF m
<1>7. ASSUME NEW from \in Handles, NEW to \in Handles, NEW path \in Paths, Receive(from, to, path)
      PROVE  A!Arrives(from, to)
  <2> DEFINE m == heap[from]
             d == Deserialise(to, Serialise(from, m, path))
  <2>1. m # None /\ heap[to] = None /\ Sound(from, m) /\ Fit(from, m) /\ path \in Seq(Nat)
        /\ NulFree(path)
    BY <1>0, <1>7 DEF Receive, Live, MessagesSound, MessagesFit, Good, GoodBytes, GoodPaths
  <2>2. heap' = [heap EXCEPT ![to] = d]
    BY <1>7 DEF Receive
  <2> HIDE DEF m
  <2>3. Sound(to, d) /\ Reads(to, d) = Reads(from, m)
    BY <2>1, ReadsArrive
  <2> HIDE DEF d
  <2>4. QED
    BY <1>0, <2>1, <2>2, <2>3, ArriveStep DEF m
<1>8. ASSUME BundleFreeMessages PROVE A!Freed
  <2> DEFINE gone == {h \in Handles : \E i \in Frees(bundle.items) : Listed(bundle.items)[i] = h}
  <2>1. heap' = [h \in Handles |-> IF h \in gone THEN None ELSE heap[h]]
    BY <1>8 DEF BundleFreeMessages
  <2>2. gone \in SUBSET Handles
    OBVIOUS
  <2> HIDE DEF gone
  <2>3. QED
    BY <1>0, <2>1, <2>2, FreeStep
<1>9. ASSUME BundleNew \/ BundleFree \/ UNCHANGED vars \/
             \E h \in Handles, path \in Paths : BundleAdd(h, path)
      PROVE  heap' = heap
  BY <1>9 DEF BundleNew, BundleFree, BundleAdd, vars
<1>10. QED
  BY <1>1, <1>2, <1>3, <1>4, <1>5, <1>6, <1>7, <1>8, <1>9 DEF Next, A!ArgsNext

(* ImplementsArgs, for any arguments whose blobs lo_validate_blob lets     *)
(* through, any paths and hosts of either byte order: a message is the     *)
(* list of the values that lo_message_add was given; reading it, or        *)
(* serialising it, changes none, and lo_message_deserialise makes of it a  *)
(* message of the same values, as far as Portable says.                    *)
THEOREM MessagesAreLists ==
  ASSUME Good, SmallBlobs, GoodPaths, NoneIsNoMessage, NoneIsNoList
  PROVE  Spec => ImplementsArgs
<1>1. Init => MessageInv /\ MessagesFit
  BY MessageStart DEF Init, MessagesFit
<1>2. MessageInv /\ MessagesFit /\ [Next]_vars => (MessageInv /\ MessagesFit)'
  BY MessageStep, FitStep
<1>3. Init => A!ArgsInit
  BY DEF Init, A!ArgsInit, Contents
<1>4. MessageInv /\ MessagesFit /\ [Next]_vars => [A!ArgsNext]_Contents
  BY ListsStep
<1>5. QED
  BY <1>1, <1>2, <1>3, <1>4, PTL DEF Spec, ImplementsArgs, A!ArgLists
=============================================================================
