---------------------------- MODULE MCHybridBook ----------------------------
(***************************************************************************)
(* An instance of the order book for TLC whose prices do not divide the     *)
(* scale, as most prices do not.                                            *)
(***************************************************************************)
EXTENDS HybridBook

\* One and a half of B for one A.
BrokenPrices == {3}
=============================================================================
