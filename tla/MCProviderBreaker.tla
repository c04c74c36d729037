------------------------- MODULE MCProviderBreaker -------------------------
(***************************************************************************)
(* Model-checking instances of ProviderBreaker.                            *)
(***************************************************************************)
EXTENDS ProviderBreaker

CONSTANTS r1, r2

OneRequest == {r1}
TwoRequests == {r1, r2}
=============================================================================
