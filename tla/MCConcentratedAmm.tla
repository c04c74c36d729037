------------------------- MODULE MCConcentratedAmm --------------------------
(***************************************************************************)
(* An instance of the concentrated pool for TLC: one provider and two       *)
(* ranges that overlap, over words of two ticks.                            *)
(***************************************************************************)
EXTENDS ConcentratedAmm

CONSTANT provider

TwoSpans == {<<-2, 2>>, <<0, 4>>}
=============================================================================
