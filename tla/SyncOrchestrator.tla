-------------------------- MODULE SyncOrchestrator --------------------------
(***************************************************************************)
(* The sync orchestrator of the backend (app/services/sync.py) and the     *)
(* jobs that drive it (app/jobs/sync_jobs.py), for ONE account:domain key. *)
(* Rows, cursor and advisory lock of two keys are disjoint, so one key     *)
(* shows everything that callers of the orchestrator do to each other.     *)
(*                                                                         *)
(* Three kinds of callers run concurrently in one uvicorn process:         *)
(*   - Cron: process_queued_wb_sync_runs, every minute, one run at a time; *)
(*   - Tasks: the background task the API starts for each queued run;      *)
(*   - Triggers: trigger(), called by the scheduled domain sync and by the *)
(*     "run now" route.                                                    *)
(* A worker owns one database session, hence one pooled connection, from   *)
(* its first statement to its commit or rollback.  The advisory lock is a  *)
(* SESSION-level lock of PostgreSQL: it belongs to the connection, counts  *)
(* re-acquisitions and survives a rollback and the return to the pool.     *)
(***************************************************************************)
EXTENDS Naturals, FiniteSets

CONSTANTS
    Runs,           \* ids of the rows of wb_sync_runs
    Tasks,          \* slots for the API's background tasks
    Triggers,       \* callers of trigger()
    Cron,           \* the minute job
    Conns,          \* connections of the pool (pool_size + max_overflow)
    NoConn, NoRun,
    CursorStates,   \* what the domain's service leaves in the cursor's status
    MayAge,         \* the runs that may outlive sync_running_cursor_stale_hours
    MaxRuns,        \* the minute job's max_runs
    MaxTriggers,    \* bound: calls of trigger()
    MaxCrashes,     \* bound: restarts of the process
    MaxKills,       \* bound: connections ended by the idle-in-transaction timeout
    MaxTimeouts     \* bound: lock_timeout and pool_timeout expiries

Workers == Tasks \cup Triggers \cup {Cron}

ASSUME RunsAssumption == Runs \subseteq Nat
ASSUME WorkersAssumption ==
    /\ Tasks \cap Triggers = {}
    /\ Cron \notin Tasks \cup Triggers
ASSUME AbsentAssumption == NoConn \notin Conns /\ NoRun \notin Runs
ASSUME CursorStatesAssumption ==
    CursorStates \subseteq {"completed", "running"}
ASSUME BoundsAssumption ==
    /\ MayAge \subseteq Runs
    /\ {MaxRuns, MaxTriggers, MaxCrashes, MaxKills, MaxTimeouts} \subseteq Nat

VARIABLES
    status,     \* committed status of each run; "absent" before it is queued
    old,        \* runs whose started_at is before the stale threshold
    cursor,     \* committed cursor: value, status, is updated_at stale?
    lock,       \* the advisory lock: owning connection and nesting depth
    free,       \* connections at rest in the pool
    tasks,      \* runs whose background task has not started
    todo,       \* the run ids the minute job has selected and not processed
    pc,         \* where each worker is (Steps)
    sess,       \* its session's connection
    cur,        \* the run it processes; NoRun for a trigger, whose own row is
                \* invisible until it is committed in a final status
    view,       \* that run's status in the session's identity map
    prep,       \* the cursor write it has prepared in memory, not yet flushed
    out,        \* the final status it has computed
    pend,       \* its transaction's uncommitted writes to the runs
    cpend,      \* its transaction's uncommitted write to the cursor
    pview,      \* the run's status as its progress session read it
    psess,      \* that session's connection
    fetched,    \* newest WB state a service has fetched (stamps the cursor)
    used        \* how much of each bound has been used

rows == <<status, old, cursor>>
queue == <<tasks, todo>>
orm == <<cur, view, prep, out>>
txn == <<pend, cpend>>
progress == <<pview, psess>>
bounds == <<fetched, used>>

vars == <<rows, lock, free, queue, pc, sess, orm, txn, progress, bounds>>

-----------------------------------------------------------------------------
Active == {"queued", "running"}
Terminal == {"completed", "partial", "failed", "skipped"}
Statuses == {"absent"} \cup Active \cup Terminal

\* Uncommitted content of a row: "none" when the transaction did not write it,
\* "touch" when it wrote other attributes only.  Either way but "none" the
\* transaction holds the row's lock.
Writes == {"none", "touch"} \cup Terminal

Cursors == [val : Nat, st : {"idle"} \cup CursorStates, old : BOOLEAN]
NoWrite == [val |-> 0, st |-> "none", old |-> FALSE]

\* What a service prepares that leaves the cursor as it is.
Nothing == [val |-> 0, st |-> "nothing", old |-> FALSE]

UsedBounds == [triggers : Nat, crashes : Nat, kills : Nat, timeouts : Nat]

Steps == {"idle", "load", "reset", "resetflush", "resetwrite", "lock", "publish",
          "pubwrite", "service", "store", "unlock", "flush", "commit"}

\* Between pg_try_advisory_lock and pg_advisory_unlock.
Locked == {"publish", "pubwrite", "service", "store", "unlock"}

Clear == [r \in Runs |-> "none"]

Idle(w) == pc[w] = "idle"

RowHolders(r) == {w \in Workers : pend[w][r] # "none"}
CursorHolders == {w \in Workers : cpend[w].st # "none"}

\* Another transaction has the lock on the row / the cursor row.
RowBusy(w, r) == RowHolders(r) \ {w} # {}
CursorBusy(w) == CursorHolders \ {w} # {}

Unlocked == [conn |-> NoConn, depth |-> 0]

\* A connection that is closed gives up its session-level lock.
LockAfterClose(c) == IF lock.conn = c THEN Unlocked ELSE lock

-----------------------------------------------------------------------------
Init ==
    /\ status = [r \in Runs |-> "absent"]
    /\ old = {}
    /\ cursor = [val |-> 0, st |-> "idle", old |-> FALSE]
    /\ lock = Unlocked
    /\ free = Conns
    /\ tasks = {} /\ todo = {}
    /\ pc = [w \in Workers |-> "idle"]
    /\ sess = [w \in Workers |-> NoConn]
    /\ cur = [w \in Workers |-> NoRun]
    /\ view = [w \in Workers |-> "absent"]
    /\ prep = [w \in Workers |-> NoWrite]
    /\ out = [w \in Workers |-> "none"]
    /\ pend = [w \in Workers |-> Clear]
    /\ cpend = [w \in Workers |-> NoWrite]
    /\ pview = [w \in Workers |-> "absent"]
    /\ psess = [w \in Workers |-> NoConn]
    /\ fetched = 0
    /\ used = [triggers |-> 0, crashes |-> 0, kills |-> 0, timeouts |-> 0]

\* What a restart of the process leaves of the volatile state.
NewProcess ==
    /\ lock' = Unlocked
    /\ free' = Conns
    /\ tasks' = {} /\ todo' = {}
    /\ pc' = [w \in Workers |-> "idle"]
    /\ sess' = [w \in Workers |-> NoConn]
    /\ cur' = [w \in Workers |-> NoRun]
    /\ view' = [w \in Workers |-> "absent"]
    /\ prep' = [w \in Workers |-> NoWrite]
    /\ out' = [w \in Workers |-> "none"]
    /\ pend' = [w \in Workers |-> Clear]
    /\ cpend' = [w \in Workers |-> NoWrite]
    /\ pview' = [w \in Workers |-> "absent"]
    /\ psess' = [w \in Workers |-> NoConn]

-----------------------------------------------------------------------------
(* The environment: API calls, the passing of time, the database server.   *)

\* POST /sync/trigger and /sync/backfill: enqueue, commit, add_task.
Enqueue(r) ==
    /\ status[r] = "absent"
    /\ \A q \in Runs : q < r => status[q] # "absent"
    /\ status' = [status EXCEPT ![r] = "queued"]
    /\ tasks' = tasks \cup {r}
    /\ UNCHANGED <<old, cursor, lock, free, todo, pc, sess, orm, txn, progress,
                   bounds>>

\* POST /sync/cursors/{id}/reset: the cursor starts over, in one transaction.
ResetCursor ==
    /\ CursorHolders = {} /\ cursor.val > 0
    /\ cursor' = [val |-> 0, st |-> "idle", old |-> FALSE]
    /\ UNCHANGED <<status, old, lock, free, queue, pc, sess, orm, txn, progress,
                   bounds>>

\* started_at, the time of the enqueue, falls behind the stale threshold.
Age(r) ==
    /\ r \in MayAge \ old /\ status[r] \in Active
    /\ old' = old \cup {r}
    /\ UNCHANGED <<status, cursor, lock, free, queue, pc, sess, orm, txn,
                   progress, bounds>>

AgeCursor ==
    /\ cursor.st = "running" /\ ~cursor.old
    /\ cursor' = [cursor EXCEPT !.old = TRUE]
    /\ UNCHANGED <<status, old, lock, free, queue, pc, sess, orm, txn, progress,
                   bounds>>

\* pool_recycle, a failed pre-ping, or an overflow connection that is closed.
Recycle(c) ==
    /\ c \in free /\ lock.conn = c
    /\ lock' = Unlocked
    /\ UNCHANGED <<rows, free, queue, pc, sess, orm, txn, progress, bounds>>

\* idle_in_transaction_session_timeout: the server ends the connection of a
\* worker that waits for the WB API, which finds out at its next statement.
Kill(w) ==
    /\ used.kills < MaxKills
    /\ pc[w] \in {"service", "store"} /\ sess[w] # NoConn
    /\ used' = [used EXCEPT !.kills = @ + 1]
    /\ sess' = [sess EXCEPT ![w] = NoConn]
    /\ free' = free \cup {sess[w]}
    /\ lock' = LockAfterClose(sess[w])
    /\ pend' = [pend EXCEPT ![w] = Clear]
    /\ cpend' = [cpend EXCEPT ![w] = NoWrite]
    /\ UNCHANGED <<rows, queue, pc, orm, progress, fetched>>

\* The process dies and systemd restarts it: connections close, transactions
\* roll back, background tasks are forgotten.
Crash ==
    /\ used.crashes < MaxCrashes
    /\ used' = [used EXCEPT !.crashes = @ + 1]
    /\ NewProcess
    /\ UNCHANGED <<rows, fetched>>

-----------------------------------------------------------------------------
(* How a worker's session begins and ends.                                 *)

CheckOut(w, c) ==
    /\ c \in free
    /\ free' = free \ {c}
    /\ sess' = [sess EXCEPT ![w] = c]

\* The session closes: connections go back to the pool, the identity map and
\* what was not committed are gone.  The advisory lock is not touched.
Close(w) ==
    /\ free' = free \cup ({sess[w], psess[w]} \ {NoConn})
    /\ pc' = [pc EXCEPT ![w] = "idle"]
    /\ sess' = [sess EXCEPT ![w] = NoConn]
    /\ cur' = [cur EXCEPT ![w] = NoRun]
    /\ view' = [view EXCEPT ![w] = "absent"]
    /\ prep' = [prep EXCEPT ![w] = NoWrite]
    /\ out' = [out EXCEPT ![w] = "none"]
    /\ pend' = [pend EXCEPT ![w] = Clear]
    /\ cpend' = [cpend EXCEPT ![w] = NoWrite]
    /\ pview' = [pview EXCEPT ![w] = "absent"]
    /\ psess' = [psess EXCEPT ![w] = NoConn]

\* An exception outside service.run: the job rolls back and gives up the run.
Abort(w) ==
    /\ Close(w)
    /\ UNCHANGED <<rows, lock, queue, fetched>>

Goto(w, step) == pc' = [pc EXCEPT ![w] = step]

\* A final status is flushed to the run's row; a trigger's own row is new.
WriteRun(w) == IF cur[w] = NoRun THEN "commit" ELSE "flush"

-----------------------------------------------------------------------------
(* Who starts work.                                                        *)

\* BackgroundTasks runs process_queued_wb_sync_run(r) after the response.
StartTask(w, r) ==
    /\ w \in Tasks /\ Idle(w)
    /\ r \in tasks
    /\ tasks' = tasks \ {r}
    /\ cur' = [cur EXCEPT ![w] = r]
    /\ Goto(w, "load")
    /\ UNCHANGED <<rows, lock, free, todo, sess, view, prep, out, txn,
                   progress, bounds>>

\* process_queued_wb_sync_runs: the MaxRuns lowest ids that are queued or
\* running, selected in a session of its own.
ActiveRuns == {r \in Runs : status[r] \in Active}
OnlyQueued == {r \in Runs : status[r] = "queued"}                   \* mutant
Batch == {r \in ActiveRuns : Cardinality({q \in ActiveRuns : q < r}) < MaxRuns}

CronSelect ==
    /\ Idle(Cron) /\ todo = {}
    /\ todo' = Batch
    /\ UNCHANGED <<rows, lock, free, tasks, pc, sess, orm, txn, progress, bounds>>

\* ... and processed one after the other, in the order of their ids.
CronNext(r) ==
    /\ Idle(Cron)
    /\ r \in todo /\ \A q \in todo : r <= q
    /\ todo' = todo \ {r}
    /\ cur' = [cur EXCEPT ![Cron] = r]
    /\ Goto(Cron, "load")
    /\ UNCHANGED <<rows, lock, free, tasks, sess, view, prep, out, txn,
                   progress, bounds>>

\* trigger(): by run_scheduled_domain_sync or run_cursor_now.
StartTrigger(w, c) ==
    /\ w \in Triggers /\ Idle(w)
    /\ used.triggers < MaxTriggers
    /\ used' = [used EXCEPT !.triggers = @ + 1]
    /\ CheckOut(w, c)
    /\ Goto(w, "reset")
    /\ UNCHANGED <<rows, lock, queue, orm, txn, progress, fetched>>

-----------------------------------------------------------------------------
(* process_queued_run and trigger, step by step.                           *)

\* session.get(WBSyncRun): a run that is neither queued nor running is left
\* alone, and the session closes.  A run without its account does not exist: the
\* foreign key deletes the runs with the account.
Load(w, c) ==
    /\ pc[w] = "load"
    /\ c \in free
    /\ \/ /\ status[cur[w]] \in Active
          /\ CheckOut(w, c)
          /\ view' = [view EXCEPT ![w] = status[cur[w]]]
          /\ Goto(w, "reset")
          /\ UNCHANGED <<cur, prep, out, txn, progress>>
       \/ /\ status[cur[w]] \notin Active
          /\ Close(w)
    /\ UNCHANGED <<rows, lock, queue, bounds>>

\* _reset_stale_running_state: SELECT the running cursors and prepare, in
\* memory, the reset of one not updated since the threshold ...
ResetRead(w) ==
    /\ pc[w] = "reset"
    /\ prep' = [prep EXCEPT ![w] =
                    IF cursor.st = "running" /\ cursor.old
                    THEN [val |-> cursor.val, st |-> "idle", old |-> FALSE]
                    ELSE NoWrite]
    /\ Goto(w, "resetflush")
    /\ UNCHANGED <<rows, lock, free, queue, sess, cur, view, out, txn, progress,
                   bounds>>

\* ... which autoflush writes before the next statement, whatever the row has
\* become by then, ...
ResetFlush(w) ==
    /\ pc[w] = "resetflush" /\ (prep[w] = NoWrite \/ ~CursorBusy(w))
    /\ cpend' = [cpend EXCEPT ![w] = prep[w]]
    /\ Goto(w, "resetwrite")
    /\ UNCHANGED <<rows, lock, free, queue, sess, orm, pend, progress, bounds>>

\* ... the UPDATE of the stale runs.  The in-memory run follows it by the
\* criteria evaluated on its own attributes.
AllStale == {r \in old : status[r] \in Active}                      \* mutant
AllOld == {r \in old : status[r] # "absent"}                        \* mutant
StaleRuns == {r \in old : status[r] = "running"}

ResetBlocked(w) == \E r \in StaleRuns : RowBusy(w, r)

ResetWrite(w) ==
    /\ pc[w] = "resetwrite" /\ ~ResetBlocked(w)
    /\ pend' = [pend EXCEPT ![w] =
                   [r \in Runs |-> IF r \in StaleRuns THEN "failed" ELSE "none"]]
    /\ view' = [view EXCEPT ![w] =
                   IF view[w] = "running" /\ cur[w] \in old THEN "failed" ELSE @]
    /\ Goto(w, "lock")
    /\ UNCHANGED <<rows, lock, free, queue, sess, cur, prep, out, cpend, progress,
                   bounds>>

\* pg_try_advisory_lock: granted when the lock is free or this very connection
\* has it already, for instance from an earlier worker that never unlocked.
LockUnchecked(w) == lock.conn \in {NoConn} \cup Conns              \* mutant
LockFree(w) == lock.conn \in {NoConn, sess[w]}

Acquire(w) ==
    /\ pc[w] = "lock" /\ LockFree(w)
    /\ lock' = [conn |-> sess[w], depth |-> lock.depth + 1]
    /\ Goto(w, IF cur[w] = NoRun THEN "service" ELSE "publish")
    /\ UNCHANGED <<rows, free, queue, sess, orm, txn, progress, bounds>>

\* Not granted.  A run seen as running is returned as it is; every other one,
\* and a trigger's own, becomes skipped.
Overlap(w) ==
    /\ pc[w] = "lock" /\ ~LockFree(w)
    /\ IF view[w] = "running"
       THEN Goto(w, "commit") /\ UNCHANGED out
       ELSE /\ out' = [out EXCEPT ![w] = "skipped"]
            /\ Goto(w, WriteRun(w))
    /\ UNCHANGED <<rows, lock, free, queue, sess, cur, view, prep, txn,
                   progress, bounds>>

\* _publish_run_progress reads the run in a second session ...
PublishRead(w, c) ==
    /\ pc[w] = "publish"
    /\ c \in free
    /\ IF status[cur[w]] \in Active
       THEN /\ free' = free \ {c}
            /\ psess' = [psess EXCEPT ![w] = c]
            /\ pview' = [pview EXCEPT ![w] = status[cur[w]]]
            /\ Goto(w, "pubwrite")
       ELSE /\ Goto(w, "service")
            /\ UNCHANGED <<free, progress>>
    /\ UNCHANGED <<rows, lock, queue, sess, orm, txn, bounds>>

\* ... and commits it as running.  The row lock it needs may be held by any
\* open transaction, the worker's own outer one included.  The status is
\* written only if it differs from the one that was read.
PublishBlocked(w) == RowHolders(cur[w]) # {}

Published(w) == IF pview[w] = "queued" THEN "running" ELSE status[cur[w]]

NotReturned(w) == free                                              \* mutant
Returned(w) == free \cup {psess[w]}

PublishWrite(w) ==
    /\ pc[w] = "pubwrite" /\ ~PublishBlocked(w)
    /\ status' = [status EXCEPT ![cur[w]] = Published(w)]
    /\ free' = Returned(w)
    /\ psess' = [psess EXCEPT ![w] = NoConn]
    /\ pview' = [pview EXCEPT ![w] = "absent"]
    /\ Goto(w, "service")
    /\ UNCHANGED <<old, cursor, lock, queue, sess, orm, txn, bounds>>

\* service.run in a savepoint: it fetches from WB what is there by now, or is
\* given nothing to move the cursor by ...
Fetch(w) ==
    /\ pc[w] = "service" /\ sess[w] # NoConn
    /\ \/ /\ fetched' = fetched + 1
          /\ \E st \in CursorStates :
               prep' = [prep EXCEPT ![w] = [val |-> fetched + 1, st |-> st, old |-> FALSE]]
       \/ /\ prep' = [prep EXCEPT ![w] = Nothing]
          /\ UNCHANGED fetched
    /\ Goto(w, "store")
    /\ UNCHANGED <<rows, lock, free, queue, sess, cur, view, out, txn, progress,
                   used>>

\* ... and flushes the data and the cursor, whose row it may have to wait for.
\* With nothing to write there it returns completed (orders, sales and cards
\* when WB lists no row) or, without an exception, failed (stocks without a
\* task id); partial always comes with a cursor.
Results(p) == IF p = Nothing THEN {"completed", "failed"} ELSE {"completed", "partial"}

Store(w) ==
    /\ pc[w] = "store" /\ sess[w] # NoConn
    /\ prep[w] = Nothing \/ ~CursorBusy(w)
    /\ cpend' = [cpend EXCEPT ![w] = IF prep[w] = Nothing THEN @ ELSE prep[w]]
    /\ \E s \in Results(prep[w]) : out' = [out EXCEPT ![w] = s]
    /\ Goto(w, "unlock")
    /\ UNCHANGED <<rows, lock, free, queue, sess, cur, view, prep, pend,
                   progress, bounds>>

\* An exception in the service rolls back to the savepoint: what the
\* transaction wrote before it, and the row locks of that, stay.
FailedAsPartial(w) ==                                               \* mutant
    /\ out' = [out EXCEPT ![w] = "partial"]
    /\ Goto(w, "unlock")
    /\ UNCHANGED <<rows, lock, free, queue, sess, cur, view, prep, txn, progress,
                   fetched>>

Fail(w) ==
    /\ out' = [out EXCEPT ![w] = "failed"]
    /\ Goto(w, "unlock")
    /\ UNCHANGED <<rows, lock, free, queue, sess, cur, view, prep, txn, progress,
                   fetched>>

ServiceFails(w) ==
    /\ pc[w] \in {"service", "store"} /\ sess[w] # NoConn
    /\ Fail(w)
    /\ UNCHANGED used

\* Without a connection the service fails, and so do the unlock, swallowed by
\* the finally block, and the commit of the job, which rolls back.
Disconnected(w) ==
    /\ pc[w] \in {"service", "store"} /\ sess[w] = NoConn
    /\ Abort(w)
    /\ UNCHANGED used

\* The finally block releases one level of the lock BEFORE the job commits.
KeptAtZero == [lock EXCEPT !.depth = @ - 1]                         \* mutant
LockAfterUnlock ==
    IF lock.depth = 1 THEN Unlocked ELSE [lock EXCEPT !.depth = @ - 1]

Unlock(w) ==
    /\ pc[w] = "unlock"
    /\ lock' = LockAfterUnlock
    /\ Goto(w, WriteRun(w))
    /\ UNCHANGED <<rows, free, queue, sess, orm, txn, progress, bounds>>

\* session.flush: the UPDATE of the run, its status only if it changed.
Flush(w) ==
    /\ pc[w] = "flush" /\ ~RowBusy(w, cur[w])
    /\ pend' = [pend EXCEPT ![w][cur[w]] =
                   IF out[w] # view[w] THEN out[w]
                   ELSE IF @ = "none" THEN "touch" ELSE @]
    /\ Goto(w, "commit")
    /\ UNCHANGED <<rows, lock, free, queue, sess, orm, cpend, progress, bounds>>

\* session.commit by the job or the route, and the end of its session.
Commit(w) ==
    /\ pc[w] = "commit"
    /\ status' = [r \in Runs |-> IF pend[w][r] \in Terminal THEN pend[w][r]
                                 ELSE status[r]]
    /\ cursor' = IF cpend[w] # NoWrite THEN cpend[w] ELSE cursor
    /\ Close(w)
    /\ UNCHANGED <<old, lock, queue, bounds>>

-----------------------------------------------------------------------------
(* Timeouts.  Those of the service become a failed run, the others escape.  *)

Blocked(w) ==
    \/ pc[w] = "resetflush" /\ prep[w] # NoWrite /\ CursorBusy(w)
    \/ pc[w] = "resetwrite" /\ ResetBlocked(w)
    \/ pc[w] = "pubwrite" /\ PublishBlocked(w)
    \/ pc[w] = "flush" /\ RowBusy(w, cur[w])

\* lock_timeout of PostgreSQL, its choice of a victim in a deadlock, or
\* pool_timeout when no connection is left.
Timeout(w) ==
    /\ used.timeouts < MaxTimeouts
    /\ \/ Blocked(w)
       \/ pc[w] \in {"load", "publish"} /\ free = {}
    /\ used' = [used EXCEPT !.timeouts = @ + 1]
    /\ Abort(w)

StoreTimeout(w) ==
    /\ used.timeouts < MaxTimeouts
    /\ pc[w] = "store" /\ sess[w] # NoConn /\ prep[w] # Nothing /\ CursorBusy(w)
    /\ used' = [used EXCEPT !.timeouts = @ + 1]
    /\ Fail(w)

-----------------------------------------------------------------------------
Environment ==
    \/ \E r \in Runs : Enqueue(r) \/ Age(r)
    \/ ResetCursor \/ AgeCursor \/ Crash
    \/ \E c \in Conns : Recycle(c)
    \/ \E w \in Workers : Kill(w)
    \/ \E w \in Triggers, c \in Conns : StartTrigger(w, c)

\* The steps of the process's event loop.
Step(w) ==
    \/ \E c \in Conns : Load(w, c) \/ PublishRead(w, c)
    \/ ResetRead(w) \/ ResetFlush(w) \/ ResetWrite(w)
    \/ Acquire(w) \/ Overlap(w)
    \/ PublishWrite(w)
    \/ Fetch(w) \/ Store(w) \/ ServiceFails(w) \/ Disconnected(w)
    \/ Unlock(w) \/ Flush(w) \/ Commit(w)
    \/ Timeout(w) \/ StoreTimeout(w)

Start == \E r \in Runs : CronNext(r) \/ \E w \in Tasks : StartTask(w, r)

Next ==
    \/ Environment
    \/ CronSelect \/ Start
    \/ \E w \in Workers : Step(w)

Spec == Init /\ [][Next]_vars

\* The event loop never starves a coroutine and the scheduler fires every minute.
\* A worker's step is strongly fair: those who wait for a connection of the pool
\* or for a row lock are served in the order in which they came.
Fairness ==
    /\ WF_vars(CronSelect) /\ WF_vars(Start)
    /\ \A w \in Workers : SF_vars(Step(w))

FairSpec == Spec /\ Fairness
-----------------------------------------------------------------------------
\* The types, and that the lock is owned exactly as long as it is nested.
TypeOK ==
    /\ status \in [Runs -> Statuses]
    /\ old \subseteq Runs
    /\ cursor \in Cursors
    /\ lock \in [conn : Conns \cup {NoConn}, depth : Nat]
    /\ lock.conn = NoConn <=> lock.depth = 0
    /\ free \subseteq Conns
    /\ tasks \subseteq Runs /\ todo \subseteq Runs
    /\ pc \in [Workers -> Steps]
    /\ sess \in [Workers -> Conns \cup {NoConn}]
    /\ cur \in [Workers -> Runs \cup {NoRun}]
    /\ view \in [Workers -> Statuses]
    /\ prep \in [Workers -> Cursors \cup {NoWrite, Nothing}]
    /\ out \in [Workers -> {"none"} \cup Terminal]
    /\ pend \in [Workers -> [Runs -> Writes]]
    /\ cpend \in [Workers -> Cursors \cup {NoWrite}]
    /\ pview \in [Workers -> Statuses]
    /\ psess \in [Workers -> Conns \cup {NoConn}]
    /\ fetched \in Nat
    /\ used \in UsedBounds

\* Between lock and unlock, on a connection that still works.
Live(w) == pc[w] \in Locked /\ sess[w] # NoConn

(***************************************************************************)
(* The advisory lock does what it is for: two workers are never both       *)
(* between lock and unlock with connections that still work, whatever      *)
(* connections were leaked with the lock, re-used, killed or recycled.  A  *)
(* worker whose connection was killed may still be talking to WB.          *)
(***************************************************************************)
ServiceExclusive == \A v, w \in Workers : Live(v) /\ Live(w) => v = w

(***************************************************************************)
(* A run that has completed, wholly or partly, or failed is never shown as *)
(* queued or running again, although a second worker may process it (the   *)
(* lock is released before the commit) and publishes progress from another *)
(* session.  A skipped run can be shown as running again.                  *)
(***************************************************************************)
FinishedNeverReopened ==
    [][\A r \in Runs : status[r] \in {"completed", "partial", "failed"}
                       => status'[r] \in Terminal]_vars

(***************************************************************************)
(* A terminal status is final once no worker has the run in hand: the      *)
(* minute job does not select it and no other worker's stale reset, decided*)
(* on an earlier reading of the row, can overwrite it.                     *)
(***************************************************************************)
SettledIsFinal ==
    [][\A r \in Runs : (status[r] \in Terminal /\ \A w \in Workers : cur[w] # r)
                       => status'[r] = status[r]]_vars

(***************************************************************************)
(* A run becomes completed or partial only in the commit of its own worker,*)
(* with what that worker's service has done: either the commit makes the   *)
(* cursor visible, hence the data, that the service fetched, or WB had     *)
(* nothing that moves it, the run is completed and the cursor is left as   *)
(* it was but for the worker's own stale reset.  Never after a failed      *)
(* service, a lost connection or a skip.                                   *)
(***************************************************************************)
CompletedWithData ==
    [][\A r \in Runs :
         (status'[r] \in {"completed", "partial"} /\ status'[r] # status[r])
           => \E w \in Workers :
                /\ pc[w] = "commit" /\ cur[w] = r
                /\ \/ cursor' = prep[w] /\ cursor'.val > 0
                   \/ /\ status'[r] = "completed" /\ prep[w] = Nothing
                      /\ cursor' = cursor \/ cursor'.st = "idle"]_vars

(***************************************************************************)
(* The cursor goes back only when the API resets it, although the advisory *)
(* lock is released before the commit.  It holds for the domains whose     *)
(* services never leave the cursor in status "running".                    *)
(***************************************************************************)
CursorMonotone == [][cursor'.val < cursor.val => ResetCursor]_vars

(***************************************************************************)
(* The statuses change only as SyncRunBoard says.                          *)
(***************************************************************************)
Board == INSTANCE SyncRunBoard WITH Runs <- Runs, status <- status
ImplementsBoard == Board!Spec

(***************************************************************************)
(* Claims of comments and documents that the code does not keep.           *)
(***************************************************************************)

\* "closing/rolling back the session will release the advisory lock"
\* (the comment in the finally block of trigger).
NoLockAtRest == lock.conn \notin free

\* "Stale running sync state is reset before a new attempt": an attempt that
\* has reset a stale run does not end with the run still running.
StaleResetIsKept ==
    [][\A w \in Workers, r \in Runs :
         (pend[w][r] = "failed" /\ pend'[w][r] = "none" /\ status'[r] = "running")
           => Crash \/ Kill(w)]_vars

(***************************************************************************)
(* The waits that only a timeout ends.  A worker that publishes its        *)
(* progress from a second session may need the lock on the run that its    *)
(* first session has taken by resetting the run as stale.  And one that    *)
(* holds, by such a reset, the row for which another waits may want what   *)
(* that other has: a second connection when none is left, or the lock on   *)
(* the cursor, which the other has written and not yet committed.          *)
(***************************************************************************)
WaitsForItself(w) == pc[w] = "pubwrite" /\ pend[w][cur[w]] # "none"

WaitsForRowOf(v, w) ==
    \/ pc[v] = "flush" /\ pend[w][cur[v]] # "none"
    \/ pc[v] = "resetwrite" /\ \E r \in StaleRuns : pend[w][r] # "none"

Stuck ==
    \/ \E w \in Workers : WaitsForItself(w)
    \/ \E v, w \in Workers :
         /\ v # w /\ WaitsForRowOf(v, w)
         /\ \/ pc[w] = "publish" /\ free = {}
            \/ pc[w] = "store" /\ prep[w] # Nothing /\ cpend[v] # NoWrite

(***************************************************************************)
(* Liveness: whatever restarts befall it, and with a minute job that takes *)
(* fewer runs than there are, a run that was accepted is settled -- unless *)
(* a stale reset gets a worker stuck.  The timeout then takes the reset    *)
(* back, the next minute's worker does it again, and the run that went     *)
(* stale is not settled and keeps its place in the batch.                  *)
(***************************************************************************)
AcceptedIsSettled ==
    \A r \in Runs : (status[r] \in Active) ~> (status[r] \in Terminal \/ Stuck)

(***************************************************************************)
(* ... and every worker comes back without the help of a timeout: of all   *)
(* the waits for row locks and connections among the workers of a key,     *)
(* those of Stuck are the only ones that do not end of their own.          *)
(***************************************************************************)
WorkerReturns == \A w \in Workers : (~Idle(w)) ~> (Idle(w) \/ Stuck)
=============================================================================
