------------------------------ MODULE MCFxView ------------------------------
(***************************************************************************)
(* Instances of FxView for TLC: three cells on a ring.                     *)
(***************************************************************************)
EXTENDS FxView

MCCells == 1..3

\* every cell sees the two others: Moore on a ring of three
Both == [c \in MCCells |-> <<1 + ((c + 1) % 3), 1 + (c % 3)>>]
\* every cell sees its left neighbour only: a shorter habitat
LeftOf == [c \in MCCells |-> <<1 + ((c + 1) % 3)>>]

Seed(S, v) == [c \in S |-> v]

MCFirstWorld == [habitat |-> Both, seed |-> Seed({2}, 2)]
GoodWorldSet == {MCFirstWorld, [habitat |-> LeftOf, seed |-> Seed({1, 3}, 1)]}
OutsideWorld == [habitat |-> Both, seed |-> Seed({3, 4}, 2)]
HostileWorlds == {[habitat |-> LeftOf, seed |-> Seed({1}, 2)], OutsideWorld}

MCFirstWeights == <<1, 1>>
OneWeights == {<<1, 1>>}
SomeWeights == {<<1, 1>>, <<2, 1>>}
ZeroWeights == {<<1, 1>>, <<1, -1>>}

SortedLists == {<<1, 3>>, <<2>>}
HostileLists == {<<1, 3>>, <<3, 1>>, <<2, 5>>, << >>}
MCDefaultPolls == <<2, 3>>

HostileRates == {-1, 0, 2}

NoReach == [c \in MCCells |-> 0]
MiddleReach == [c \in MCCells |-> IF c = 2 THEN 2 ELSE 0]
============================================================================
