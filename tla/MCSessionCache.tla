--------------------------- MODULE MCSessionCache ---------------------------
(***************************************************************************)
(* A small ledger: two channels of one source, both of which fit only      *)
(* without an evaluation beside them.                                      *)
(***************************************************************************)
EXTENDS SessionCache

CONSTANT SecondSource   \* a channel another source recorded, if there is one

SourceOf == [x \in Channels |-> IF x = SecondSource THEN "gps" ELSE "imu"]

\* Memory in plenty, and none but what this process already holds.
Readings == {[own |-> 9, available |-> 9], [own |-> 9, available |-> 0]}
=============================================================================
