---------------------------- MODULE MCWorldPacks ----------------------------
(***************************************************************************)
(* WorldPacks with values for TLC: one vault, which is in the settings from *)
(* the start, and one pack.                                                *)
(***************************************************************************)
EXTENDS WorldPacks

CONSTANTS p1, v1, k1

MCFirstVaults == <<v1>>
=============================================================================
