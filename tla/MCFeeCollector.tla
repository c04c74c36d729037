--------------------------- MODULE MCFeeCollector ---------------------------
(***************************************************************************)
(* Model-checking instances of FeeCollector.                               *)
(***************************************************************************)
EXTENDS FeeCollector

CONSTANTS n1, n2

TwoNodes == {n1, n2}
=============================================================================
