--------------------------- MODULE MCAsyncPipeline ---------------------------
(***************************************************************************)
(* Two calls of one event.  The records they ask for share a partition, so *)
(* that one waits for the other; the second copy of a resent one is on the *)
(* other partition.                                                        *)
(***************************************************************************)
EXTENDS AsyncPipeline

CONSTANTS e1, p1, p2

MCEventOf == [r \in Request |-> e1]
MCPartitionOf == [m \in Record |-> IF m[2] = 1 THEN p1 ELSE p2]
=============================================================================
