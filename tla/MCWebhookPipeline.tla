-------------------------- MODULE MCWebhookPipeline --------------------------
(***************************************************************************)
(* Calls of one write event, the original and its repetitions, and calls   *)
(* of one read event the connector answers natively.  The calls of one     *)
(* event are interchangeable.                                              *)
(***************************************************************************)
EXTENDS WebhookPipeline, TLC

CONSTANTS Writes, Reads, write, read

MCRequest == Writes \cup Reads
MCEvent == {write, read}
MCEventOf == [r \in MCRequest |-> IF r \in Writes THEN write ELSE read]
Symmetry == Permutations(Writes)
=============================================================================
