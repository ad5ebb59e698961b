---------------------------- MODULE StockRunBoard ----------------------------
(***************************************************************************)
(* What the table of stock control runs promises to those who read it (GET *)
(* /stock-control/runs, a run's rows and its export): the steps by which   *)
(* the committed runs change.  No job, pass, lock or request in flight     *)
(* appears here; StockRuns implements this module.                         *)
(***************************************************************************)
EXTENDS Naturals

CONSTANT Runs

VARIABLES
    shown,      \* the run as it is committed: status, and which execution made its
                \* rows and its export
    due         \* executions asked for and not yet published

Successes == {"completed", "partial"}

Init ==
    /\ shown = [r \in Runs |-> [status |-> "absent", rows |-> 0, export |-> 0]]
    /\ due = [r \in Runs |-> 0]

Mark(r, status) == shown' = [shown EXCEPT ![r].status = status]

\* Runs are created in the order of their ids.
Create(r) ==
    /\ shown[r].status = "absent"
    /\ \A q \in Runs : q < r => shown[q].status # "absent"
    /\ Mark(r, "queued") /\ due' = [due EXCEPT ![r] = @ + 1]

\* A retry, whatever has become of the run: it is queued, with the rows it had.
Retry(r) ==
    /\ shown[r].status # "absent"
    /\ Mark(r, "queued") /\ due' = [due EXCEPT ![r] = @ + 1]

\* A cancel takes back none of the executions asked for before it.
Cancel(r) ==
    /\ shown[r].status # "absent"
    /\ Mark(r, "cancelled") /\ UNCHANGED due

\* What an execution may make of a run: rows and export of its own, later than those
\* there were; or a failure, with an export that is the old one or none.
Result(old, new) ==
    \/ /\ new.status \in Successes
       /\ new.rows = new.export /\ new.rows > old.rows
    \/ /\ new.status = "failed"
       /\ new.rows >= old.rows /\ new.export \in {old.export, 0}

\* One commit publishes the results of any number of runs, of each only what was due.
Publish(done) ==
    /\ \A r \in done :
         /\ due[r] > 0 /\ shown[r].status \in {"queued", "cancelled"}
         /\ Result(shown[r], shown'[r])
    /\ DOMAIN shown' = Runs /\ \A r \in Runs \ done : shown'[r] = shown[r]
    /\ due' = [r \in Runs |-> IF r \in done THEN due[r] - 1 ELSE due[r]]

Next ==
    \/ \E r \in Runs : Create(r) \/ Retry(r) \/ Cancel(r)
    \/ \E done \in SUBSET Runs : Publish(done)

Spec == Init /\ [][Next]_<<shown, due>>
=============================================================================
