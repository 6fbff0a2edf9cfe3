---------------------------- MODULE MCLoDispatch ----------------------------
(***************************************************************************)
(* Instances of LoDispatch for TLC: paths of up to four characters, and    *)
(* one pattern of each kind.                                               *)
(***************************************************************************)
EXTENDS LoDispatch

MCAlphabet == <<"!", "#", "*", ",", "-", "/", "?", "[", "]", "a", "b", "c", "{", "}">>

Slash == <<"/">>
A  == <<"/", "a">>
AB == <<"/", "a", "/", "b">>
B  == <<"/", "b">>

\* parts of patterns
Lit(s) == [text |-> s, means |-> {s}]
Letters == {<<"a">>, <<"b">>, <<"c">>}
One == [text |-> <<"?">>, means |-> Letters \cup {Slash}]
Anything == [text |-> <<"*">>, means |-> UNION {[1..n -> {"/", "a", "b", "c"}] : n \in 0..4}]
AToC == [text |-> <<"[", "a", "-", "c", "]">>, means |-> Letters]
BToC == [text |-> <<"[", "b", "-", "c", "]">>, means |-> {<<"b">>, <<"c">>}]
NotA == [text |-> <<"[", "!", "a", "]">>, means |-> {<<"b">>, <<"c">>, Slash}]
AOrB == [text |-> <<"{", "a", ",", "b", "}">>, means |-> {<<"a">>, <<"b">>}]

\* patterns and their parts
InAC == Slash \o AToC.text
InAB == Slash \o AOrB.text
EndB == <<"/", "*", "b">>
EndBC == <<"*">> \o BToC.text
All == <<"/", "?", "*">>
OtherThanA == Slash \o NotA.text \o <<"*">>
Below == <<"/", "*">>
Inside == <<"/", "?", "/">>
MCPatterns == [p \in {InAC, InAB, EndB, EndBC, All, OtherThanA, Below, Inside} |->
  CASE p = InAC -> <<Lit(Slash), AToC>>
    [] p = InAB -> <<Lit(Slash), AOrB>>
    [] p = EndB -> <<Lit(Slash), Anything, Lit(<<"b">>)>>
    [] p = EndBC -> <<Anything, BToC>>
    [] p = All -> <<Lit(Slash), One, Anything>>
    [] p = OtherThanA -> <<Lit(Slash), NotA, Anything>>
    [] p = Below -> <<Lit(Slash), Anything>>
    [] p = Inside -> <<Lit(Slash), One, Lit(Slash)>>]

Msg(p, t) == [path |-> p, types |-> t]
I == <<"i">>
F == <<"f">>
S == <<"s">>

MCPaths == {NoPath, A, AB, B}
MCSpecs == {AnyTypes, F}
MCDeletions == {NoPath, A, Below}
MCMessages ==
  {Msg(A, I), Msg(Slash, I), Msg(A \o Slash, S), Msg(InAC, F), Msg(InAB, I), Msg(EndB, S),
   Msg(EndBC, F), Msg(All, I), Msg(OtherThanA, I),
   Msg(Inside, S)}
=============================================================================
