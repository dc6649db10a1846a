---------------------------- MODULE MCImportInbox ----------------------------
(* ImportInbox for TLC: one session, its whole log, the same log cut short, *)
(* and a file that is no log.                                               *)
EXTENDS ImportInbox, TLC

CONSTANTS n1, n2, full, cut, junk, ride

ParsesTo == [c \in {full, cut, junk} |-> IF c = junk THEN None ELSE ride]
Symmetry == Permutations(Names)
=============================================================================
