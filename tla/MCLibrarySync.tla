---------------------------- MODULE MCLibrarySync ----------------------------
(* LibrarySync for TLC: the devices are alike. *)
EXTENDS LibrarySync, TLC

Symmetry == Permutations(Devices)
=============================================================================
