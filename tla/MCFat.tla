------------------------------- MODULE MCFat -------------------------------
(* Fat on a small volume: a long name in the root, and a file                 *)
(* in the one directory.                                                     *)
EXTENDS Fat
TwoFiles == {<<"long name">>, <<"d", "a">>}
Dirs == {<<"d">>}
Long == {"long name"}
=============================================================================
