----------------------------- MODULE MCGrowList -----------------------------
(* GrowList on two elements, short enough that every resize happens. *)
EXTENDS GrowList
=============================================================================
