------------------------------- MODULE MCExec -------------------------------
(* The process runtime with a table of two or three slots.                   *)
EXTENDS Exec
=============================================================================
