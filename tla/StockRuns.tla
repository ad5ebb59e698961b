----------------------------- MODULE StockRuns -----------------------------
(***************************************************************************)
(* The queue of stock control runs (app/services/stock_control/service.py) *)
(* and the job that empties it (process_queued_stock_control_runs).        *)
(*                                                                         *)
(* The scheduler's job is the only worker.  A pass of it is ONE            *)
(* transaction over up to max_runs runs in the order of their ids: each is *)
(* loaded, marked running, computed, its rows and its export replaced, and *)
(* nothing of this is visible before the commit at the end of the pass.    *)
(* From its first flush on, the row of a run is locked.                    *)
(*                                                                         *)
(* Users retry and cancel.  A request loads the run, decides on what it    *)
(* has read, and writes the status when the row's lock is free.            *)
(***************************************************************************)
EXTENDS Naturals, FiniteSets

CONSTANTS
    Runs,           \* ids of the rows of stock_control_runs
    Requests,       \* slots for retry and cancel requests in flight
    NoRun,
    MaxPerPass,     \* the job's max_runs
    MaxRequests,    \* bound: retries and cancels
    MaxFailures     \* bound: passes that are rolled back, restarts included

ASSUME RunsAssumption == Runs \subseteq Nat /\ NoRun \notin Runs
ASSUME BoundsAssumption ==
    /\ MaxPerPass \in Nat \ {0}
    /\ MaxRequests \in Nat /\ MaxFailures \in Nat

VARIABLES
    row,        \* committed run: status, and which execution made its rows
                \* (region rows and movements) and its export; 0 for none
    pc,         \* the job: idle, pass (between runs), begin, execute
    todo,       \* ids of the pass it has not come to
    cur,        \* the run it has loaded
    mem,        \* what its transaction holds of each run it has flushed
    started,    \* executions so far, which numbers them
    request,    \* the requests in flight: operation, run and status read
    asked,      \* how often each run has been queued
    executed,   \* how often its execution was committed
    raced,      \* runs cancelled since the job has loaded them
    used        \* how much of each bound is used

job == <<pc, todo, cur, mem>>
history == <<asked, executed, raced>>
vars == <<row, job, started, request, history, used>>

-----------------------------------------------------------------------------
Successes == {"completed", "partial"}
Statuses == {"absent", "queued", "cancelled", "failed"} \cup Successes

Row == [status : Statuses, rows : Nat, export : Nat]
Absent == [status |-> "absent", rows |-> 0, export |-> 0]
NotHeld == [status |-> "none", rows |-> 0, export |-> 0]

NoRequest == [op |-> "none", run |-> NoRun, view |-> "absent"]

Init ==
    /\ row = [r \in Runs |-> Absent]
    /\ pc = "idle" /\ todo = {} /\ cur = NoRun
    /\ mem = [r \in Runs |-> NotHeld]
    /\ started = 0
    /\ request = [q \in Requests |-> NoRequest]
    /\ asked = [r \in Runs |-> 0]
    /\ executed = [r \in Runs |-> 0]
    /\ raced = {}
    /\ used = [requests |-> 0, failures |-> 0]

Held(r) == mem[r].status # "none"

-----------------------------------------------------------------------------
(* The scheduler's job.                                                    *)

\* Failed runs are picked up again.
WaitingOrFailed == {r \in Runs : row[r].status \in {"queued", "failed"}}  \* mutant

\* The status running is never committed: a pass writes it and replaces it before
\* its commit.
Waiting == {r \in Runs : row[r].status = "queued"}

\* ORDER BY id LIMIT max_runs.
Selected == {r \in Waiting : Cardinality({q \in Waiting : q < r}) < MaxPerPass}

Select ==
    /\ pc = "idle" /\ Waiting # {}
    /\ todo' = Selected
    /\ pc' = "pass"
    /\ UNCHANGED <<row, cur, mem, started, request, history, used>>

Turn(r) == r \in todo /\ \A q \in todo : r <= q

NeverSkipped(r) == FALSE                                               \* mutant
\* A run that has its rows is taken for done.
DoneSkipped(r) == row[r].status = "cancelled" \/ row[r].rows # 0       \* mutant
Skipped(r) == row[r].status = "cancelled"

\* session.get: the row as committed now, not as it was when the ids were read.
Load(r) ==
    /\ pc = "pass" /\ Turn(r)
    /\ todo' = todo \ {r}
    /\ IF Skipped(r)
       THEN UNCHANGED <<pc, cur, raced>>
       ELSE /\ pc' = "begin" /\ cur' = r
            /\ raced' = raced \ {r}
    /\ UNCHANGED <<row, mem, started, request, asked, executed, used>>

\* status = running, flushed: from here on the transaction has the row's lock.
Begin ==
    /\ pc = "begin"
    /\ pc' = "execute"
    /\ mem' = [mem EXCEPT ![cur] = [row[cur] EXCEPT !.status = "running"]]
    /\ UNCHANGED <<row, todo, cur, started, request, history, used>>

\* What execution n may make of the run: rows and export; a failure before the
\* rows are replaced; one between the two, with the old export still there or
\* already deleted.
Computed(m, n) ==
    {[status |-> s, rows |-> n, export |-> n] : s \in Successes}
    \cup {[m EXCEPT !.status = "failed"]}
    \cup {[status |-> "failed", rows |-> n, export |-> e] : e \in {m.export, 0}}

\* The success is set before the export is made, and nothing takes it back.
ExportFailureIgnored(m, n) ==                                          \* mutant
    Computed(m, n) \cup {[status |-> "completed", rows |-> n, export |-> 0]}
Outcomes(m, n) == Computed(m, n)

Execute ==
    /\ pc = "execute"
    /\ started' = started + 1
    /\ \E o \in Outcomes(mem[cur], started + 1) : mem' = [mem EXCEPT ![cur] = o]
    /\ pc' = "pass" /\ cur' = NoRun
    /\ UNCHANGED <<row, todo, request, history, used>>

Merged(r) == IF Held(r) THEN mem[r] ELSE row[r]

CommitPass ==
    /\ pc = "pass" /\ todo = {}
    /\ row' = [r \in Runs |-> Merged(r)]
    /\ executed' = [r \in Runs |-> executed[r] + (IF Held(r) THEN 1 ELSE 0)]
    /\ mem' = [r \in Runs |-> NotHeld]
    /\ pc' = "idle"
    /\ UNCHANGED <<todo, cur, started, request, asked, raced, used>>

KeepsHeld ==                                                           \* mutant
    /\ pc # "idle" /\ used.failures < MaxFailures
    /\ used' = [used EXCEPT !.failures = @ + 1]
    /\ pc' = "idle" /\ todo' = {} /\ cur' = NoRun
    /\ UNCHANGED <<row, mem, started, request, history>>

\* An exception that leaves process_run (a statement of PostgreSQL failed, so
\* that the handler's own flush fails too, or the row is gone) and a restart: the
\* pass is rolled back, the runs it had finished included.
PassFails ==
    /\ pc # "idle" /\ used.failures < MaxFailures
    /\ used' = [used EXCEPT !.failures = @ + 1]
    /\ pc' = "idle" /\ todo' = {} /\ cur' = NoRun
    /\ mem' = [r \in Runs |-> NotHeld]
    /\ UNCHANGED <<row, started, request, history>>

-----------------------------------------------------------------------------
(* Users.                                                                  *)

CreateRun(r) ==
    /\ row[r].status = "absent"
    /\ \A q \in Runs : q < r => row[q].status # "absent"
    /\ row' = [row EXCEPT ![r].status = "queued"]
    /\ asked' = [asked EXCEPT ![r] = @ + 1]
    /\ UNCHANGED <<job, started, request, executed, raced, used>>

Refused(op, status) == op = "cancel" /\ status \in Successes

AskFor(q, op, r) ==
    /\ request[q] = NoRequest /\ row[r].status # "absent"
    /\ ~Refused(op, row[r].status)
    /\ used.requests < MaxRequests
    /\ used' = [used EXCEPT !.requests = @ + 1]
    /\ request' = [request EXCEPT ![q] = [op |-> op, run |-> r, view |-> row[r].status]]
    /\ UNCHANGED <<row, job, started, history>>

Target(op) == IF op = "cancel" THEN "cancelled" ELSE "queued"

\* Flush and commit of the request.  An attribute that equals what was read is not
\* part of the UPDATE, whatever the row holds by now.
Write(q) ==
    LET r == request[q].run
        s == Target(request[q].op)
        writes == s # request[q].view
    IN  /\ request[q] # NoRequest /\ ~Held(r)
        /\ request' = [request EXCEPT ![q] = NoRequest]
        /\ IF writes
           THEN /\ row' = [row EXCEPT ![r].status = s]
                /\ asked' = [asked EXCEPT ![r] = @ + (IF s = "queued" THEN 1 ELSE 0)]
                /\ raced' = IF s = "cancelled" /\ cur = r THEN raced \cup {r} ELSE raced
           ELSE UNCHANGED <<row, asked, raced>>
        /\ UNCHANGED <<job, started, executed, used>>

\* lock_timeout while a pass holds the row, or a restart.
GiveUp(q) ==
    /\ request[q] # NoRequest
    /\ request' = [request EXCEPT ![q] = NoRequest]
    /\ UNCHANGED <<row, job, started, history, used>>

-----------------------------------------------------------------------------
Pass == Select \/ (\E r \in Runs : Load(r)) \/ Begin \/ Execute \/ CommitPass

User ==
    \/ \E r \in Runs : CreateRun(r)
    \/ \E q \in Requests, op \in {"retry", "cancel"}, r \in Runs : AskFor(q, op, r)
    \/ \E q \in Requests : Write(q) \/ GiveUp(q)

Next == Pass \/ PassFails \/ User

Spec == Init /\ [][Next]_vars

\* The job fires every five minutes; nothing is assumed of users or of failures.
FairSpec == Spec /\ WF_vars(Pass)

-----------------------------------------------------------------------------
(***************************************************************************)
(* Types; only what the pass has flushed is held, and nothing between two  *)
(* passes.                                                                 *)
(***************************************************************************)
TypeOK ==
    /\ row \in [Runs -> Row]
    /\ pc \in {"idle", "pass", "begin", "execute"}
    /\ todo \subseteq Runs
    /\ cur \in Runs \cup {NoRun}
    /\ mem \in [Runs -> [status : Statuses \cup {"none", "running"}, rows : Nat, export : Nat]]
    /\ started \in Nat
    /\ request \in [Requests -> [op : {"none", "retry", "cancel"},
                                 run : Runs \cup {NoRun}, view : Statuses]]
    /\ asked \in [Runs -> Nat] /\ executed \in [Runs -> Nat]
    /\ raced \subseteq Runs
    /\ used \in [requests : Nat, failures : Nat]
    /\ (pc = "idle") => \A r \in Runs : ~Held(r)

(***************************************************************************)
(* A run that is shown as a success has the rows and the export of one and *)
(* the same execution, although a failure may come between the two and the *)
(* status is set before the export is made (process_run 617-629).          *)
(***************************************************************************)
SuccessHasResult ==
    \A r \in Runs : row[r].status \in Successes =>
        row[r].rows = row[r].export /\ row[r].rows # 0

(***************************************************************************)
(* No run is executed more often than it was queued, however retries,      *)
(* cancels, rolled back passes and restarts overlap with the job: the      *)
(* number of committed executions stays below the number of requests.      *)
(***************************************************************************)
RunsAsAsked == \A r \in Runs : executed[r] <= asked[r]

(***************************************************************************)
(* A cancel that is committed before the job comes to the run wins, even   *)
(* when the run was selected before: the job overwrites it only if it had  *)
(* loaded the run already.                                                 *)
(***************************************************************************)
CancelInTimeWins ==
    [][\A r \in Runs :
         (row[r].status = "cancelled" /\ row'[r].status \in Successes \cup {"failed"})
           => r \in raced]_vars

(***************************************************************************)
(* A queued run is settled: finitely many rolled back passes and restarts, *)
(* and users who go on to cancel and retry, do not keep it in the queue.   *)
(***************************************************************************)
QueuedIsSettled ==
    \A r \in Runs : (row[r].status = "queued") ~> (row[r].status # "queued")

(***************************************************************************)
(* The committed runs change only as StockRunBoard says: a result is       *)
(* published whole, newer than the one before, of a run that is queued or  *)
(* was cancelled behind the job's back, and once for each time the run was *)
(* queued.                                                                 *)
(***************************************************************************)
RunBoard == INSTANCE StockRunBoard WITH Runs <- Runs, shown <- row,
                                        due <- [r \in Runs |-> asked[r] - executed[r]]
ImplementsRunBoard == RunBoard!Spec

\* "Completed stock control runs cannot be cancelled" (cancel_run): not so for a
\* cancel that has read the run before the pass which completes it commits.
CompletedNotCancelled ==
    [][\A r \in Runs :
         row[r].status \in Successes => row'[r].status # "cancelled"]_vars

=============================================================================
