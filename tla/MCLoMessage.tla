---------------------------- MODULE MCLoMessage ----------------------------
(***************************************************************************)
(* An instance of LoMessage for TLC: two messages on an i386 host and one  *)
(* on a ppc host, arguments of every class, of lengths around a multiple   *)
(* of four.                                                                *)
(***************************************************************************)
EXTENDS LoMessage

Arg(t, v) == [t |-> t, v |-> v]

AllArguments ==
  {Arg(LO_INT32, <<0, 0, 1, 2>>), Arg(LO_DOUBLE, <<1, 2, 3, 4, 5, 6, 7, 8>>),
   Arg(LO_SYMBOL, <<97, 98, 99, 100>>), Arg(LO_BLOB, <<0, 97, 0, 1>>), Arg(LO_TRUE, << >>)}

\* an unknown type and an empty string; a char, with what its union held, and a time; a
\* symbol that is missing
Lists == {<<Arg(63, << >>), Arg(LO_STRING, << >>)>>,
          <<Arg(LO_CHAR, <<97, 1, 2, 3>>), Arg(LO_TIMETAG, <<0, 0, 0, 1, 0, 0, 0, 2>>)>>,
          <<Arg(LO_SYMBOL, LO_MARKER_A), Arg(LO_NIL, << >>)>>}

\* "/abc"
OnePath == {<<47, 97, 98, 99>>}

\* NUL, and the tag of a blob
Bytes == {0, 98}
============================================================================
