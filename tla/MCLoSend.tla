------------------------------ MODULE MCLoSend ------------------------------
(***************************************************************************)
(* An instance of LoSend for TLC.  The objects of each kind are            *)
(* interchangeable; descriptors are numbers, and are not.                  *)
(***************************************************************************)
EXTENDS LoSend, TLC

Symmetry == Permutations(Addresses) \cup Permutations(Servers)
=============================================================================
