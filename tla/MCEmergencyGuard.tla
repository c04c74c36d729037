------------------------- MODULE MCEmergencyGuard -------------------------
(***************************************************************************)
(* Model-checking instances of EmergencyGuard.                             *)
(***************************************************************************)
EXTENDS EmergencyGuard

CONSTANTS a, b, c, d, swap, deposit

Four == {a, b, c, d}
TwoOps == {swap, deposit}

\* Deployers who name each admin once.
Distinct == {<<a>>, <<a, b>>, <<a, b, c>>}
=============================================================================
