----------------------------- MODULE MCFetchBus -----------------------------
(***************************************************************************)
(* FetchBus on two instruction addresses that follow each other in a circle *)
(* and a small data region.                                                *)
(***************************************************************************)
EXTENDS FetchBus, TLC

CONSTANTS c1, c2, d1, reset, w0, w1

MCCode == {c1, c2}
MCSnpcOf == (reset :> c1) @@ (c1 :> c2) @@ (c2 :> c1)

OneDatum == {d1}
TwoWords == {w0, w1}
=============================================================================
