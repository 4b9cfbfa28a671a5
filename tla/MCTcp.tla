------------------------------- MODULE MCTcp -------------------------------
(***************************************************************************)
(* Instances of Tcp for TLC.                                               *)
(***************************************************************************)
EXTENDS Tcp

\* The first number drawn wraps around after two bytes.
OneIss == <<30>>
TwoIss == <<30, 10>>
OnePeerIss == [p \in Port |-> 29]

\* A reader, a writer whose peer may reset, a writer that also sends LenMod bytes in one
\* call, and a program that opens connections in both roles on two ports.
MCScenes == {
    Scene({1}, OneIss, 1, 2, 0, {"unresolved", "connect", "recv", "close"}, FALSE),
    Scene({1}, OneIss, 1, 0, 2, {"connect", "send", "close"}, TRUE),
    Scene({1}, OneIss, 1, 0, 3, {"connect", "send"}, FALSE),
    Scene({1, 2}, TwoIss, 2, 0, 0, {"connect", "listen", "close"}, FALSE) }
FinScenes == { Scene({1}, OneIss, 1, 2, 0, {"connect", "recv", "close"}, FALSE) }
=============================================================================
