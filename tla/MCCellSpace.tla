---------------------------- MODULE MCCellSpace ----------------------------
(***************************************************************************)
(* Instances of CellSpace for TLC: a world of 4 * 4 * 4, into which a      *)
(* Moore neighbourhood of radius 1 fits and one of radius 2 does not.      *)
(***************************************************************************)
EXTENDS CellSpace

Area(l, b, f, w, h, d) ==
  [left |-> l, bottom |-> b, front |-> f, width |-> w, height |-> h, depth |-> d]

\* thin, flat, cubic, empty and partly out of the world
SomeAreas == {Area(1, 1, 1, w, h, d) : w \in {1, 3}, h \in {1, 3}, d \in {0, 3}}
               \cup {Area(-1, 2, 0, 3, 4, 4)}
MCFirstArea == Area(1, 1, 1, 2, 2, 2)
SomeRadii == {-1, 0, 1, 2}
============================================================================
