--------------------------- MODULE MCHistoryStore ---------------------------
(* An instance of HistoryStore for TLC: an object seen twice in a partition *)
(* of positions, and another once in a partition kept for good.             *)
EXTENDS HistoryStore

CONSTANTS a1, a2, b1, a, b, tracks, records

MCObjectOf == [r \in Rows |-> IF r = b1 THEN b ELSE a]
MCPartitionOf == [r \in Rows |-> IF r = b1 THEN records ELSE tracks]
=============================================================================
