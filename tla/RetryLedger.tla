----------------------------- MODULE RetryLedger -----------------------------
(***************************************************************************)
(* What the DLQ promises of the retries of its items: an item is filed     *)
(* once; while it is open one attempt at a time may work on it; once it is *)
(* closed (resolved or skipped) no attempt starts on it, and only the      *)
(* attempt that was already working on it may open it again.               *)
(***************************************************************************)
CONSTANTS Item, Attempt

VARIABLES
    state,    \* "unfiled", "open" or "closed"
    workers   \* the attempts working on each item

vars == <<state, workers>>

Init ==
    /\ state = [i \in Item |-> "unfiled"]
    /\ workers = [i \in Item |-> {}]

File(i) ==
    /\ state[i] = "unfiled"
    /\ state' = [state EXCEPT ![i] = "open"]
    /\ UNCHANGED workers

Start(a, i) ==
    /\ state[i] = "open"
    /\ workers[i] = {}
    /\ workers' = [workers EXCEPT ![i] = {a}]
    /\ UNCHANGED state

\* An operator, or the attempt that succeeded, closes the item.
Close(i) ==
    /\ state[i] # "unfiled"
    /\ state' = [state EXCEPT ![i] = "closed"]
    /\ UNCHANGED workers

\* The attempt ends: the item stays as it is, or is open again.
End(a, i) ==
    /\ workers[i] = {a}
    /\ workers' = [workers EXCEPT ![i] = {}]
    /\ state' \in {state, [state EXCEPT ![i] = "open"]}

Next ==
    \E i \in Item :
        \/ File(i) \/ Close(i)
        \/ \E a \in Attempt : Start(a, i) \/ End(a, i)

Spec == Init /\ [][Next]_vars
=============================================================================
