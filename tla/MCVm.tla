------------------------------- MODULE MCVm -------------------------------
(* Instances of Vm: an aligned map, and one with a reserved hole, unaligned *)
(* ends and more pages than the free stack tracks.                          *)
EXTENDS Vm, TLC

MCMemMaps ==
    {<<[usable |-> TRUE, base |-> 0, length |-> 13]>>,
     <<[usable |-> TRUE, base |-> 1, length |-> 6], [usable |-> FALSE, base |-> 7, length |-> 3],
       [usable |-> TRUE, base |-> 9, length |-> 17]>>}
MCSymmetry == Permutations(Procs)
=============================================================================
