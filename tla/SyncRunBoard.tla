---------------------------- MODULE SyncRunBoard ----------------------------
(***************************************************************************)
(* What the table of sync runs promises to those who only read it (GET     *)
(* /sync/runs, the overview of the portal, the cron's own selection): the  *)
(* steps by which the committed status of the runs may change.  No worker, *)
(* lock, session or connection appears here; SyncOrchestrator implements   *)
(* this module.                                                            *)
(***************************************************************************)
EXTENDS Naturals

CONSTANT Runs

VARIABLE status

Terminal == {"completed", "partial", "failed", "skipped"}

Init == status = [r \in Runs |-> "absent"]

\* Runs are queued in the order of their ids.
Queue(r) ==
    /\ status[r] = "absent"
    /\ \A q \in Runs : q < r => status[q] # "absent"
    /\ status' = [status EXCEPT ![r] = "queued"]

\* A run starts.  One that an overlapping worker has skipped in the meantime is
\* taken back, one that has completed, partly or not, or failed never is.
Publish(r) ==
    /\ status[r] \in {"queued", "skipped"}
    /\ status' = [status EXCEPT ![r] = "running"]

\* One commit settles at most one run in whatever status its worker arrived at,
\* and fails any number of others, each of which was running.
Settle(own, end, stale) ==
    /\ status[own] # "absent"
    /\ end \in Terminal \cup {status[own]}
    /\ \A r \in stale : status[r] = "running"
    /\ status' = [r \in Runs |-> IF r = own THEN end
                                ELSE IF r \in stale THEN "failed"
                                ELSE status[r]]

Next ==
    \/ \E r \in Runs : Queue(r) \/ Publish(r)
    \/ \E own \in Runs, stale \in SUBSET Runs :
         \E end \in Terminal \cup {status[own]} : Settle(own, end, stale)

Spec == Init /\ [][Next]_status
=============================================================================
