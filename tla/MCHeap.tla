------------------------------- MODULE MCHeap -------------------------------
(* The heap on a small arena, in units of 8 bytes: a header of 40 bytes is 5 *)
(* units and the alignment of 16 bytes is 2, as in the kernel.               *)
EXTENDS Heap
=============================================================================
