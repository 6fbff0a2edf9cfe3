----------------------------- MODULE Automaton -----------------------------
(***************************************************************************)
(* What the world promises: a synchronous cellular automaton.  All cells   *)
(* step at once, every one from the generation before; a restart replaces  *)
(* the whole generation and its neighbourhoods at once.  FxView, which     *)
(* computes a generation cell by cell over a frame, implements this.       *)
(***************************************************************************)
CONSTANTS Rule(_, _, _, _), \* Rule(neighbours, generation, weights, add)
          Cells,    \* the cells
          Weights,  \* the weight lists a performer may send
          Adds,     \* the values of add a performer may send
          Worlds    \* the worlds a restart may build: neighbourhoods and cells

VARIABLES gen,      \* the current generation: [Cells -> values]
          habitat   \* the neighbours of each cell, in order

AInit == \E w \in Worlds : gen = w.cells /\ habitat = w.habitat

Generation ==
  \E w \in Weights, a \in Adds :
    /\ gen' = [c \in Cells |-> Rule(habitat[c], gen, w, a)]
    /\ UNCHANGED habitat

Restart ==
  \E w \in Worlds : gen' = w.cells /\ habitat' = w.habitat

ANext == Generation \/ Restart

ASpec == AInit /\ [][ANext]_<<gen, habitat>>
===========================================================================
