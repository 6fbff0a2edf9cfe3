------------------------------ MODULE OscArgs ------------------------------
(***************************************************************************)
(* What lo_lowlevel.h says of messages: a message is a list of typed       *)
(* values.  Adding appends to it; what arrives is the list that was sent,  *)
(* on whatever host it is read, or no message at all.                      *)
(***************************************************************************)
EXTENDS Integers, Sequences

CONSTANTS
  Handles,   \* the messages a program may hold
  Arguments, \* the arguments that may be added
  NoArgs     \* the list of a message that is not there

VARIABLE args   \* for each message, its arguments

ArgsInit == args = [m \in Handles |-> NoArgs]

NewArgs(m) == args[m] = NoArgs /\ args' = [args EXCEPT ![m] = << >>]

AppendArgs(m) ==
  /\ args[m] # NoArgs /\ args'[m] # NoArgs
  /\ args' = [args EXCEPT ![m] = args'[m]]
  /\ Len(args'[m]) >= Len(args[m]) /\ SubSeq(args'[m], 1, Len(args[m])) = args[m]
  /\ \A i \in Len(args[m]) + 1..Len(args'[m]) : args'[m][i] \in Arguments

Arrives(from, to) ==
  /\ args[from] # NoArgs /\ args[to] = NoArgs
  /\ args' = [args EXCEPT ![to] = args[from]]

Freed == \E gone \in SUBSET Handles : args' = [m \in Handles |-> IF m \in gone THEN NoArgs ELSE args[m]]

ArgsNext ==
  \/ \E m \in Handles : NewArgs(m) \/ AppendArgs(m)
  \/ \E from, to \in Handles : Arrives(from, to)
  \/ Freed

ArgLists == ArgsInit /\ [][ArgsNext]_args
============================================================================
