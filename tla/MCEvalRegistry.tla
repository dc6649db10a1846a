--------------------------- MODULE MCEvalRegistry ---------------------------
(***************************************************************************)
(* EvalRegistry for TLC: two small evaluations fill the cap together, the  *)
(* third needs both to go.                                                 *)
(***************************************************************************)
EXTENDS EvalRegistry

CONSTANTS k1, k2, k3
SizeOf == [k \in Keys |-> CASE k = k1 -> 1 [] k = k2 -> 2 [] OTHER -> 3]
=============================================================================
