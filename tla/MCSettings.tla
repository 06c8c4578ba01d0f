------------------------------ MODULE MCSettings ------------------------------
(* Settings with values for TLC: a source, a switch that version 3 turns on  *)
(* for everyone, and one that version 2 brings.                              *)
EXTENDS Settings

CONSTANTS source, automatic, display

MCDefault == [s \in Setting |-> TRUE]
MCSince == [s \in Setting |-> IF s = display THEN 2 ELSE 1]
MCTurns == [n \in 1 .. 3 |-> IF n = 3 THEN {automatic} ELSE {}]
=============================================================================
