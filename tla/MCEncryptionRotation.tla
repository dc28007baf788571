------------------------ MODULE MCEncryptionRotation ------------------------
(***************************************************************************)
(* Two keys, a row of each table, two servers and the command.             *)
(***************************************************************************)
EXTENDS EncryptionRotation

CONSTANTS k1, k2, s1, s2, cmd, plain, absent, entry, item, system

MCTableOf == [r \in Row |-> CASE r = entry  -> Audit
                              [] r = item   -> Dlq
                              [] r = system -> Target]

(***************************************************************************)
(* Rows, messages and idempotency keys only meet in the guards of the      *)
(* operator, of the first start and of the command: a state that holds two *)
(* of them is not explored further, nor is one with both rows that are     *)
(* written once.  The second server is there for the idempotency keys and  *)
(* for the race of two first starts.                                       *)
(***************************************************************************)
OneConcern ==
    LET inCall == lock # {} \/ \E s \in Server : call[s].pc # "idle"
        noData == Present = {} /\ kafka = {} /\ crashes = 0
    IN  /\ Present = {} \/ kafka = {}
        /\ ~ ({entry, item} \subseteq Present)
        /\ inCall => noData
        /\ proc[s2].pc # "down" => noData /\ proc[Cli].pc = "down"
=============================================================================
