----------------------------- MODULE MCLoServer -----------------------------
(***************************************************************************)
(* Instances of LoServer for TLC: three ticks to a second.  Tick 2 is      *)
(* Value 8 and tick 4 is Value 7: the scaled fractions change their order. *)
(***************************************************************************)
EXTENDS LoServer

Plain(f, m) == [from |-> f, due |-> Immediate, elems |-> <<m>>]
Bundle(f, t, e) == [from |-> f, due |-> t, elems |-> e]

\* two bundles for one time, one of them with a bad element, and one for a
\* time that crosses theirs
BundlePackets == {Bundle("sc", 2, <<"a", "b">>), Bundle("pd", 2, <<"c", "d", Bad, "e">>),
                  Bundle("sc", 4, <<"f">>)}
FewPackets == {Bundle("sc", 2, <<"a", "b">>), Bundle("pd", 4, <<"f">>), Plain("pd", "m")}
AllMessages == {"a", "b", "c", "d", "e", "f", "m"}
MCSenders == {"sc", "pd"}
=============================================================================
