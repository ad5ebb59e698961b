# A TLA+ verification of the avemod backend

avemod is a portal for sellers on Wildberries (WB).  Its backend
(`src/backend`, FastAPI, SQLAlchemy async, PostgreSQL, APScheduler, one uvicorn
process) copies a seller's data from the WB APIs, computes money, stock and
quality figures from it, finds problems, and lets users work on them.  Most of
its 174 000 lines are queries and arithmetic over wide tables.  What is hard to
get right, and what this project models, is the part where several activities
of the one process write the same rows: cron jobs, background tasks, API
requests, and the WB services behind them.

## 1. Inventory

| component | state | operations | hard part |
|---|---|---|---|
| **Sync orchestration** `services/sync.py`, `jobs/sync_jobs.py`, `modules/sync/router.py`, `core/wb_sync.py`, `core/db.py` | `wb_sync_runs`, `wb_sync_cursors`, a session-level advisory lock, the connection pool | enqueue, background task, minute job, scheduled trigger, stale reset, progress, service, commit, cursor reset | three kinds of workers on the same row, two sessions per worker, lock released before the commit, timeouts, restarts |
| **Problem engine** `services/problem_engine/*` | `problem_instances`, rules, history | evaluate (after a sync, an import, at night, by an admin), recheck | concurrent inserts, stale objects, swallowed failures |
| **Action Center** `services/portal.py` | status and task of a problem; the same of other sources | update by a user | optimistic reads without a version |
| Data-fix bridge, data quality | issues, the instances made of them | sync issues, recheck an issue | two owners of one status |
| Rules and formulas | rule versions | draft, validate, publish | versions, missing values |
| A/B photo tests `services/ab_tests.py` | companies, photos, statistics | create, start, poll, stop, finalize | side effects at WB between two commits |
| **Stock control** `services/stock_control/service.py`, `domain/stock_control/*` | `stock_control_runs`, their rows, movements and exports | create, retry, cancel, the pass of the job; allocation, movements, shipment, balance | one transaction over several runs; rounding |
| **Card quality** `services/card_quality.py` | batch runs with a cursor, snapshots and issues per card | request, retry, one batch per firing, analysis of a card | a long run over data that change, swallowed failures |
| **Reputation** `services/reputation.py` | reviews and questions, one draft each | generate, regenerate, approve, publish, reject, no reply, queue, synchronisation | WB's answer may be lost; two lists fetched one after the other; stale objects |
| **Money and operator snapshots** `services/money_snapshots.py`, `operator_snapshots.py`, `core/cache.py` | `api_response_snapshots`, a memory of responses per process | read, save, invalidate, nightly refresh | saves and reads racing an invalidation; memories nobody clears |
| Photo studio, experiments, claims, guided fixes, result tracking | jobs, drafts, measurement windows | workflow steps | retries of what WB may have done |
| WB HTTP client, token cache `core/http.py`, `core/cache.py` | next slot per key, cached tokens | request with spacing and retries | spacing across coroutines |
| **Agent scenarios** `services/agent/scenarios.py` | scenarios with a schedule, runs, previews | create, change, run, the pass over the due ones | two processes with the job, pauses that race a pass, one failure for all |
| **Manual costs** `services/manual_costs.py`, `repositories/manual_costs.py` | uploads, costs with an interval of days | upload, confirm, inline entry, change | statements of two imports interleaved, stale checks, a collision half-way |
| Grouping | groups | pure algorithms | none for a state machine |
| Finance, marts, dashboards, analytics | none of their own | queries | none for a state machine |
| Frontend `src/frontend` | - | requests | - |

How they interact: a sync run writes WB data and its cursor; when a queued run has
committed, the job invalidates the money and operator snapshots in a second
session and evaluates the problems in a third.  The synchronisations of the scheduler
and the refresh of the marts invalidate nothing.  The Action Center and the rechecks
write the same problem instances; the result tracking follows their status.

`PROJECT.json` lists the components with what is modelled of each, and under
`hazards` what is hard to test, with the line where it bites and the properties
that would catch it.

Known to be hard as well, and outside that list because no property of the models is
about them:

- `sync.py:398`: attributes a worker did not change are not written, so that a
  completed run may keep the error text of another worker's skip (the model has the
  status only).
- `problem_engine/evaluator.py:672`: `resolved_at`, `dismissed_at` and the status are
  written in different steps by different transactions (only status and task are
  modelled).
- `ab_tests.py:694` and `:769`: photos and campaigns at WB changed before, or left
  running after, what the database says.
- `manual_costs.py:302`: a row marked as a placeholder closes the real cost of its day;
  `manual_costs.py:830`: an inline entry with a date moves the first day of the current
  row.  Both are what the code does by itself, without a race.

## 2. Modules

| module | what it is |
|---|---|
| `SyncOrchestrator` | the orchestrator and its callers for one account and domain |
| `SyncRunBoard` | the abstract specification: how the committed status of a run may change |
| `SyncOrchestratorProofs` | theorems about `SyncOrchestrator` |
| `MCSync`, `Sync*.cfg` | its instances for TLC |
| `ProblemLifecycle` | one problem instance under evaluations, rechecks and user updates |
| `ProblemLifecycleProofs` | theorems about `ProblemLifecycle` |
| `MCProblems`, `Problem*.cfg` | its instances for TLC |
| `StockRuns`, `MCStock`, `StockRuns.cfg` | the queue of stock control runs and its instance |
| `StockRunBoard` | the abstract specification: how a committed stock control run may change |
| `StockPlan`, `MCPlan`, `StockPlan.cfg` | what a stock control run computes, for one size, and its instance |
| `StockControlProofs` | theorems about `StockRuns` and `StockPlan` |
| `CardBatch`, `CardBatchProofs`, `MCCards`, `CardBatch.cfg` | the batch analysis of an account's cards |
| `ReplyDraft`, `ReplyDraftProofs`, `MCReply`, `ReplyDraft.cfg`, `ReplyUnapproved.cfg` | one review or question, its local copy and its draft |
| `SnapshotCache`, `SnapshotCacheProofs`, `MCSnapshots`, `SnapshotCache.cfg` | snapshots, memories, invalidations and the nightly refresh |
| `AgentScenarios`, `AgentScenariosProofs`, `MCAgents`, `AgentScenarios.cfg` | the schedule of the agent's scenarios and the job that runs the due ones |
| `ManualCosts`, `ManualCostsProofs`, `MCCosts`, `ManualCosts.cfg` | the unit costs of one SKU under concurrent transactions |

How they compose: `SyncOrchestrator` has an `INSTANCE` of `SyncRunBoard`, `StockRuns`
one of `StockRunBoard`.  The other components meet in rows none of them writes
together, and are modelled by what one sees of the other: `SnapshotCache!SyncCommits`
is `SyncOrchestrator!Commit` for a queued run, seen from the invalidation that follows
it, and `QuietCommit` the same for a run of the scheduler; `ProblemLifecycle!Change` is
the data a synchronisation or a cost import has written; `CardBatch!NewCard` and
`ChangeCard` are the card synchronisation.

### SyncOrchestrator

One key `account:domain` is modelled: rows, cursor and lock of two keys are
disjoint.  (Two keys share the pool; `Conns` is therefore an arbitrary set.)
Workers are the minute job (`Cron`), the background tasks the API starts for
each queued run (`Tasks`) and the callers of `trigger()` (`Triggers`).  A worker
goes through the steps of `process_queued_run` or `trigger`, one action between
two awaits at which another coroutine or session may act:

    load -> reset -> resetflush -> resetwrite -> lock -> publish
         -> pubwrite -> service -> store -> unlock -> flush -> commit

- `sess` and `psess` are the connections of the worker's session and of the
  progress session it opens; `free` are those at rest.  The advisory lock
  belongs to a connection and counts re-acquisitions (`lock.conn`,
  `lock.depth`), and neither a rollback nor the return to the pool frees it.
- `pend` and `cpend` are a transaction's uncommitted writes.  Who has written a
  row has its row lock (`RowBusy`, `CursorBusy`); the others wait.
- `view` is the run in the session's identity map: what the code compares with
  and what the unit of work writes (`Flush` writes a status only if it
  differs from `view`).
- The reset decides on one reading (`ResetRead`), flushes the cursor when its row is
  free (`ResetFlush`), and then updates the stale runs, each of which it may have to
  wait for and looks at again (`ResetWrite`).
- A service ends with a cursor to write, with `Nothing` (it had nothing to fetch, and
  the run is completed all the same, or it says "failed" without an exception), or
  with an exception (`Results`, `ServiceFails`).
- Faults: `Kill` (PostgreSQL ends a connection idle in its transaction),
  `Timeout` (lock_timeout, pool_timeout), `ServiceFails`, `Crash` (systemd
  restarts the process), `Recycle` (a pooled connection is replaced).
- Data is abstracted to the number of the fetch that produced it: the cursor's
  `val` is the freshness of what was committed with it.  One cursor stands for the
  several that some domains have, which are written in the same transactions.

Left out: texts, statistics and times of a run other than "older than the stale
threshold" (`old`; `MayAge` are the runs it can happen to); the progress a service
publishes while it runs (the row has left `queued` by then, so it changes details,
never the status); the problem evaluation a trigger runs before its commit.  Of the
two sessions that follow the commit of a queued run, the invalidation is in
`SnapshotCache`, the evaluation one of those in `ProblemLifecycle`.

### ProblemLifecycle

One row of `problem_instances`: its status, and which of the updates users have
saved its snapshot still holds (`task`: assignee, deadline and comment are keys of
that one JSON column).  A transaction works on an object in memory (`mem`),
flushes the columns it changed (`dirty`, then `held`, which is also its row
lock) and commits; a commit overwrites just those columns (`Merged`).  A user's
update adds itself to the snapshot of the object it has loaded and writes the column
whole, so that it erases what another has saved since (`base`, what the object held
when it was loaded, is history).  What the metrics say of the product is `cond`, which
changes at will.
An evaluation reads `cond` (`Measure`), looks the instance up and applies the
payload in memory (`Find`), flushes, goes on to other products, and commits.  A
recheck does the same on the object its route has loaded earlier, then draws its
`Conclude`sion.  An exception in the evaluation rolls back to the savepoint and
is swallowed (`Fails`).  The unique constraint on the dedup key is `Collides`.
A recheck reopens a problem (`Reopens`) on what its request had read before the
evaluation (`first`) and on what the evaluation has left (`Refreshed`).

Left out: every other column (times, texts, amounts), history, notifications.

### StockRuns and StockPlan

`StockRuns`: the only worker is the job; a pass is one transaction over up to
`MaxPerPass` runs, and nothing of it is visible before `CommitPass`.  `mem` is
what it has flushed of each run and thereby locked; a request decides on the
status it has read (`view`) and writes when the row is free, and an attribute
equal to what was read is not written.  Rows and export are the number of the
execution that made them.  `asked`, `executed` and `raced` are history.

`StockRunBoard` is what the readers of the table see of it, without job, pass, lock or
request: the committed runs (`shown`, which is `row`) and the executions each is still
due (`due`, which is `asked` less `executed`).  It says more than `SuccessHasResult` and
`RunsAsAsked` together: no commit takes rows back to those of an earlier execution, a
failure leaves the old export or none, a cancel or a retry touches nothing but the
status, and only what was due is published.

`StockPlan`: one size of one product, since the sizes are independent in all
three algorithms, and one row at hand per behaviour, since the rows are processed
one by one (so that several rows of one size may ship more than is needed
together: the formula catalogue says the same).  Weights of the default profile
are exact fractions in the unit `Scale`; a sum of float shares that should be a
whole number may come out one less, which `Needs` allows.  Equal remainders are
dealt with in any order.  The balance of two accounts is modelled although the
catalogue calls it rejected, because the code computes it.

### CardBatch

One account; a card is its revision, a snapshot and the issues are the revision
they were made from.  A batch is one transaction (`mem`), a card in it one
action.  `FailsAt` has the five places where a card may raise, with what is flushed or
counted by then; the handler goes on with the batch.  Two of them count no failure:
an exception before the `try` of the analysis is taken for a success (`lost`), and a
skipped card that raises after it was counted is counted again (`twice`).
`Unchanged` is the skip of a card whose snapshot has its revision, and `force`
lasts for the first batch only, as in the code, where the cursor is replaced by
the card alone.

A run ends when it has counted as many cards as the account had when it was asked
for, and a retry keeps the number of the run it retries.  Cards come with any number,
since the synchronisation pages by the time of change.  So a completed run need not
have covered every card there was, and `CompletedIsCurrent` says by how many cards at
most it can fall short: as many as came later and were counted instead, and as many as
`lost` and `twice` have; besides those half made by a failure after the snapshot, which
every later run takes for unchanged.

### ReplyDraft

One item.  WB's side is whether it exists and which text answers it; a text is the
number of its generation.  Each request and job is a transaction that has loaded
the draft (`seen`), works, and writes what it has changed (`Written`); an
approval flushes before WB is called, so that it holds the row meanwhile
(`lock`).  WB may refuse a reply, or take it and the answer be lost
(`SendFails`).  The synchronisation fetches the unanswered and the answered items
one after the other and writes them in this order.  Of each list it fetches the newest
20 pages of 100: `pages` says which lists have the item among these, and changes with
the other items (`OthersMove`); an item that slips from one page to another while
they are fetched counts as not reached.  `scheduled` is whether the nightly job takes
the account (its settings, its token, and its place among the first 20).

What the model shows and no property excludes, because the code is made so: a
decision that no reply is needed is overwritten by the next synchronisation of an
unanswered item; a reply whose answer was lost may be sent again; the text of a
published draft may be replaced by a regeneration that had begun before; an old item,
or one of an account the job leaves out, may show a wrong status for good.  Left out: a
text given with the approval, and the Action Center's "done", which looks at the
item's status only.

### SnapshotCache

The data are their version; a row and an entry of a memory are the version they
were made from.  A read is `Load` and `Touch`, which waits for the row to count the
access and may find that the page does not pass its check, or, if there is no ready
row, `Compute`, `Save`; then `Remember`.  There are three ways in which data change:
edits invalidate in their own transaction (`EditBegins`), queued synchronisations
commit first and invalidate in a transaction of their own (`SyncCommits`), and the
synchronisations of the scheduler and the refresh of the marts do not invalidate
(`QuietCommit`).  An invalidation marks every row (`Marked`, which locks them), clears
the memory of its own process, and commits later.  `behind` is history: the keys left
behind by a change of the third kind, or by a save from data that were replaced
meanwhile, since an invalidation last looked at the rows.

`Specs` are the keys the nightly job computes again: the default ones (`defaults`, from
which a key drops out as the days pass) and of the expired ones in use the 80 with the
most accesses (`Taken`).  The other keys of the account are only their number:
`ahead` of them have more accesses, and change at will.  A key that is read for ever
but never among those taken is served expired for ever, so that `ReadIsFresh` asks that
from some time on the limit leaves none out.  A refresh counts as an access, so that a
key in use stays in use until it is invalidated or has not been touched for
`active_days`; the latter is left out, and so is a touch that fails, which the code
ignores.  The windows of most default keys end today, so that tomorrow the key is one
of the others; `DefaultsAreFresh` is about those without dates.

### AgentScenarios

A row is whether it is active and automatic, what its `schedule_json` amounts to
(`timed`, `manual`, or `broken`: one whose computation raises), whether the titles of its
actions fit into the previews a run adds (`titles`), and `next_run_at`.  `Contents` are
the schedules and titles users write.
A time is the number of the moment at which it passed (`Elapse`), so that the
order of the query (`Oldest`) is the order of the columns; a future one has no
number.  A pass is one transaction: `Claim` is the query with `FOR UPDATE SKIP
LOCKED`, `Execute` a run, whose writes wait for the commit, `CommitPass` and
`PassFails` the job's handler.  A request is `Load`, which reads without a lock
and decides, and `Write`, which waits for the row and writes the changed columns
only (`Written`).  `raced` remembers the rows on which two requests have met in
this way: `ScheduleMatches` is what is true of all others, and no statement
about the raced ones holds.  `DueIsServed` has one exception, which the code
makes: a due scenario whose run raises fails the pass of all (`RunRaises`).  It does
so by its schedule, which comes about only by a race, since a request that computes
its time fails; or by a title of more than 240 characters, which nothing refuses
before the flush of the run.

### ManualCosts

One SKU.  `table` is what is committed, `mine` what each transaction has made of
which row and thereby locked.  A row of a file is three statements:
`DeleteScan`/`Delete`, `CloseScan`/`Close`, `Insert`, of which the first two find their
rows, wait for those that others have changed and look at them again, but not
at new ones, as READ COMMITTED does.  `Awaits` and `Taken` are the unique key;
`Collides` ends the whole request.  A key is vendor code, article, barcode and
size together, and several of them may mean the SKU, so that two open costs may
stand beside each other after two imports; `CostOn` is then the one the marts and
the table pick.  `Patches` are the kinds and dates that users give to a row, one
without a first day (the day 0) included.

What the model shows and no property excludes: a placeholder closes the real cost
of its day; an inline entry with a date moves the start of the row valid on it.
Also left out: amounts, the flag of a supplier's confirmation (of which the model has
the kind it amounts to), the further rows of an inline request, which are of other SKUs,
and the matching of a file's rows to SKUs, which ends before this begins.
`CoverageKept` speaks of files whose rows hold until further notice when they are
committed; one whose rows ascend ends its own first row, and is not among them.

## 3. What the runs check

Passing runs:

| run | instance | shows |
|---|---|---|
| `sync_faults` | 1 run, cron + task + trigger, 3 connections, 1 kill, 1 timeout, 1 restart, ageing, services that finish their cursor | types; `ServiceExclusive`; `CompletedWithData`; `CursorMonotone` |
| `sync_two_runs` | 2 runs, cron + task, ageing, 1 restart, cursors left running | `SettledIsFinal`; the refinement `ImplementsBoard` |
| `sync_live` | 2 runs of which one may go stale, cron + task, a batch of 1 run, 2 connections, 1 restart, no timeout | `AcceptedIsSettled`; `WorkerReturns` |
| `problem_safety` | 2 evaluations, 1 user with 2 updates, 1 failure, a rule that reopens postponed problems | types and row lock; `SeenDecisionIsKept`; `CreatedOnce` |
| `problem_live` | 1 evaluation, 1 recheck, 1 user, 2 requests, 1 failure | `ReopenedNotCleared`; `ReadSaveIsKept`; `ClearedIsClosed`; `MatchedIsOpen`; no deadlock |
| `stock_runs` | 2 runs, 2 overlapping requests, 1 pass rolled back | `SuccessHasResult`; `RunsAsAsked`; `CancelInTimeWins`; the refinement `ImplementsRunBoard`; `QueuedIsSettled` |
| `stock_plan` | up to 3 regions, demands and stocks up to 2, up to 3 units at hand, every minimum up to 2 | `PlanIsProportional`; `MovesReachPlan`; `ShipsByNeed`; `BalanceIsLargest` |
| `card_batch` | 3 cards and a new one between them, 2 runs, 2 callers, batches of 2, 1 change, 1 failure, 1 rollback or restart | `CompletedIsCurrent`; `NothingPassedOver`; `RunEnds` |
| `reply_draft` | one request slot of each kind, 2 requests or changes of the pages or the schedule, queue and synchronisation, 2 texts, 1 loss | `PublishedIsAnswered`; `SyncMissesNothing`; `AnswerIsShown` |
| `snapshot_cache` | a server and a worker, 1 key that may be a default one, room for 1 key in use, 2 changes, 1 failure | `StaleHasCause`; `DefaultsAreFresh`; `ReadIsFresh` |
| `agent_scenarios` | 2 scenarios, 2 processes, 2 request slots, 2 requests, 2 due times, 1 lost pass, 1 scenario per pass, timed schedules, for one a broken one, for the other a title that is too long | `OncePerDueTime`; `ScheduleMatches`; `RunsWhileEligible`; `DueIsServed` |
| `manual_costs` | 2 transactions, 1 stored file, 3 kinds of files, 3 rows, 2 days, 1 edit of kind or dates | `NoCollateral`; `CoverageKept`; `ConfirmedTwiceOnlyIfGone` |

Every module but the two abstract ones has a type invariant.  Two runs check it; for
the other modules it holds in their instances (add it as an `INVARIANT` to the
configuration).  In all of them it is proved, as a theorem or as part of a proved
invariant.  `FinishedNeverReopened` is not a run of its own
either: it follows from `ImplementsBoard` (theorem `NeverReopened`).

Divergences between the code and a statement of the repository that were met while
modelling have a configuration of their own, to be run by hand with the MC module
named; each ends in a violation of the one property it lists:

| configuration | statement | what happens |
|---|---|---|
| `SyncLeak` (`MCSync`) | "closing/rolling back the session will release the advisory lock" (`sync.py:241`) | a timeout between lock and unlock leaves the lock on a pooled connection |
| `SyncSelfBlock` (`MCSync`) | "Stale running sync state is reset before a new attempt." (`docs/final_integration/DB_DATA_QUALITY_REPORT.md:11`) | the worker's progress session waits for the worker's own stale reset; the timeout undoes it |
| `ProblemReopened` (`MCProblems`) | "Problem condition still matches after re-check." (`runner.py:281`) | a recheck reopens a done problem although its evaluation failed |
| `ProblemTask` (`MCProblems`) | "status, assignee, deadline, comment and history still match the saved values" (`docs/final_product_problem_loop_qa.md:86`) | the next match erases the task |
| `ProblemEngine` (`MCProblems`) | "Engine may create `new`, ... auto-transition to `resolved`" (`docs/dynamic_problem_engine.md:236`) | an acknowledged problem goes back to new |
| `ProblemUsers` (`MCProblems`) | "Allowed transitions" (`docs/action_center_product_grade_rollout.md:119-130`) | two updates validated against the same status (`portal.py:7392`) |
| `ReplyUnapproved` (`MCReply`) | "Marketplace writes remain blocked unless ... approved draft ..." (`src/backend/docs/integration/reputation/00_REALITY_AUDIT.md:28`) | a text generated during an approval keeps the status of the approval and is sent (`reputation.py:1936`) |
| `StockCancel` (`MCStock`) | "Completed stock control runs cannot be cancelled" (`stock_control/service.py:475`) | a cancel that has read the run before its pass commits overwrites the result |

### Bounds

`MaxTriggers`, `MaxCrashes`, `MaxKills`, `MaxTimeouts`, `MaxRequests`, `MaxChanges`
and `MaxFailures` bound events that could occur without end; they are guards of the
actions named after them and nothing else (in `ReplyDraft`, `MaxRequests` counts the
changes of pages and schedule as well).  Runs are a small set because ids are
only ever appended.  `MaxRuns = 3` is the job's own parameter; in `sync_live` it is 1
for two runs, so that a run which stays can keep the other from being taken.  Three
workers are the most that differ in kind; with two runs the stale reset of one worker
meets the run of another; three connections suffice for two workers with a
progress session and a third that waits, two connections make them compete.
Two evaluations and a user are the fewest that show a duplicate insert with a
decision taken in between.

Of the other instances: two runs and two requests let a cancel or a retry of one run
meet a pass that holds the other; a pass rolled back once shows a repeated
execution, and further ones repeat it.  Three cards and a new one between them, with
batches of two, give a full batch, a partial one and a card that appears behind or
before the cursor; two runs and two callers are the fewest that overlap.  Two requests
and the two jobs give every pair of operations on a draft, and two texts are
needed to tell what was approved from what was sent (`ReplyUnapproved.cfg` takes
three requests: generate, approve, publish).  One key suffices for
`SnapshotCache`: keys meet only in an invalidation, which treats all alike, and in the
limit of the nightly job, where the others are their number (`ahead`); two changes let
a save of the first come after the second, or one that invalidates follow one that does
not.  With `MaxSpecs = 1` the key is taken or left out.  In `StockPlan` three regions
with up to two units each are the fewest with two donors or two recipients, unequal
remainders and a rest of two.

Two scenarios and one per pass make one of them wait; two processes and two
request slots are the fewest that overlap.  Of costs, two transactions, a file that
begins later and one that begins earlier, and three rows give every pair of
statements that meet; on two days an interval can lie before, on or after the first
day of a new row.  All rows of `SmallFiles` hold until further notice, so that rows
that end come from `Change` and `Close`.

`CHECK_DEADLOCK FALSE` appears where the system really may stop: in the sync runs
a worker that waits for what only a timeout ends (below) stays there when
`MaxTimeouts` is used up.  The runs of stock, cards, replies, scenarios and costs stop
when the bounds on requests are used up and the queue is empty, and a computation of
`StockPlan` has an end.  In `snapshot_cache` the check says nothing, since the nightly
job can always start.

`AcceptedIsSettled` and `WorkerReturns` have the exception `Stuck`: the waits that
only a timeout ends.  A worker whose progress session needs the row that its own
stale reset has locked waits for itself; the timeout takes the reset back, the next
minute's worker repeats it, and the run is never settled (`SyncSelfBlock.cfg`).  And a
worker that holds, by such a reset, the row for which another waits may want what that
other has: the last connection of the pool, or the row of the cursor.  All the other
waits of two workers end by themselves, which is what `WorkerReturns` shows.  What two
keys may do to each other through the pool is not modelled.

`CursorMonotone` is checked for domains whose service leaves the cursor in
status `completed` (`CursorStates`).  With `running` it does not hold: a worker
that has read a stale cursor (`ResetRead`) writes it back after another worker has
committed a fresh one (`ResetFlush`), because the UPDATE goes by id alone.
`SettledIsFinal` speaks of runs that no worker has in hand, and `ImplementsBoard` lets a
run in hand become skipped whatever it was: a worker that has loaded a run as queued and
finds the lock taken writes skipped over what has been committed since, a completion
included.

### Fairness

Sync: weak fairness of the minute job's selection and of the start of selected
work (APScheduler fires every minute; the event loop starts what is queued),
strong fairness of each worker's steps, since asyncio's pool queue and
PostgreSQL's lock queue serve waiters in order.  Nothing is assumed of the API,
the WB services, faults or `trigger()`.

Problems: strong fairness of each transaction's work, the nightly evaluation
included (`registry.py:143`).  Nothing is assumed of users, rechecks, or that
evaluations succeed; that failures are finitely many is the bound `MaxFailures`.

Stock and cards: weak fairness of the job's `Pass` as a whole (both jobs fire
every five minutes, `registry.py:149-160`, and APScheduler runs one instance of a
job at a time).  Replies: the nightly synchronisation starts (`registry.py:161`) as
long as the job takes the account (`NightlySync`; `sync_jobs.py:397-447` goes by the
settings, the automation flag and a limit of 20 accounts), and every transaction that
has begun goes on, strongly fair because row locks are granted in order; nothing of
buyers, operators or WB.  Snapshots: the nightly job (`registry.py:137`), the
transactions that have begun, and time (entries and rows expire); users need never
read, and the limit may leave a key out, which is why `ReadIsFresh` has its own
assumptions in the property.  Scenarios: weak fairness of each process's job
(every five minutes, `registry.py:209`); that passes are lost finitely often is the
bound `MaxFailures`, and nothing is assumed of requests.

## 4. What is proved

For every value of the constants, by TLAPS.  An invariant that a run checks is
seldom inductive: each proof module defines the strengthening `IInv` (the sync and
the problems have further ones, for the properties named with them), shows that it
holds at first and survives every action, and draws the properties from it.

**SyncOrchestratorProofs**

- `TypeCorrect` and `Exclusion` (`ServiceExclusive`).  Nothing in the property says
  whose the lock is.  `IInv` adds `SessInv` (which steps have a connection), `ConnInv`
  (no connection is used by two sessions, or is used and free), `LockInv` (a live
  worker between lock and unlock has the lock on its connection) and `PrepInv` (only a
  service leaves the cursor out of what it prepares).  `Acquire` then
  excludes, because the lock of its own or of no connection is no other live worker's.
- `Refinement` (`ImplementsBoard`) and `NeverReopened` (`FinishedNeverReopened`, from
  the refinement).  `RunInv`: a progress session that waits to write has read an
  active run, and a row lock protects what a transaction has decided about the row
  (`HandInv`, `BehindInv`, `HeldInv`, `TakenInv`).
- `FinalWhenSettled` (`SettledIsFinal`), from `HeldInv`: a reset holds the lock of a
  row it found running, and everyone else writes the run he has in hand.
- `CompletionHasData` (`CompletedWithData`), from `DataInv`: whoever has computed
  completed or partial has in his transaction the cursor he fetched; or, if completed
  with nothing to fetch, none but a stale one that is reset.
- `NoStepBack` (`CursorMonotone`), where no service leaves the cursor running
  (`NotRunning`).  `CursorInv`: a live worker that is about to store has fetched last,
  since nobody else fetches between its lock and unlock, and who fetches after the
  unlock waits for the row lock.  `Exclusion` is what makes it inductive.

**ProblemLifecycleProofs**

- `TypeCorrect`: types, and that a transaction which has flushed is alone.
- `DecisionKept` (`SeenDecisionIsKept`), from `DecisionInv`: an evaluation that has read
  a preserved status never has the status among the columns it writes.
- `OneInstance` (`CreatedOnce`), from `InsertInv`: an evaluation whose insert is flushed
  excludes the row's committed existence until it ends.
- `GoneStaysClosed` (`ReopenedNotCleared`) and `ReadSaveKept` (`ReadSaveIsKept`), from
  `ObjectInv`, which says of each transaction what its object is at every step: a
  user's has all that it was loaded with, and so has that of a recheck unless its
  evaluation has written the snapshot anew; an evaluation without a verdict has
  nothing to write; and the object of a recheck which has seen the problem gone is not
  one it reopens.

**StockControlProofs**, about `StockRuns`: `TypeCorrect`, `ResultShown`
(`SuccessHasResult`), `ExecutedAsAsked` (`RunsAsAsked`), `CancelWins`
(`CancelInTimeWins`) and `RunsRefineBoard` (`ImplementsRunBoard`).  `RunsAsAsked` says
nothing of what a pass is about to commit: `CreditInv` adds that every run that waits, is
selected, loaded or flushed has been asked for once more than it was executed,
which a rolled back pass leaves true.  `FlushedInv` says that a flushed run is a
failure or a whole success, `RacedInv` that a run in the job's hands which is
cancelled was cancelled after `Load`.  The refinement needs `BoardInv` besides: what a
pass has in hand is queued or cancelled (`PlaceInv`), what it holds of a run may follow
what is shown, because nobody else writes a row it holds and executions are numbered
(`FollowsInv`), and a request is about a run that exists (`OpenInv`).

About `StockPlan`, all of whose properties are about sums over the regions:
`ComputeTypeCorrect`, `SharesProportional` (`PlanIsProportional`), `PlanReached`
(`MovesReachPlan`), `ShippedByNeed` (`ShipsByNeed`) and `BalancedMost`
(`BalanceIsLargest`), for any number of regions and any quantities, from `ComputeInv`.

- The library defines a sum by a fold, as the value of a function that is chosen on all
  subsets.  `SumUnfolds` shows that it exists, `SumTakesOut` that the order does not
  matter; `SumAdds`, `SumScales`, `SumOrders`, `SumEqual`, `SumCounts` and `SumUpdates`
  are what the rest needs.  Induction is by a smallest counterexample in the
  well-founded order of the finite subsets (`Smallest`, `SubsetInduction`), which takes
  no operator as a parameter.
- `RestIsFair`: an allocation adds up to the total, and every share is strictly less than
  one unit from the exact one.  Upwards this needs that no key without a remainder gets
  a unit: the remainders add up to `rest` whole units (`RemaindersSum`), each is less than
  one, and so if one of the `rest` keys that get a unit had none, neither would the
  others, and those of the rest could not make up the sum.
- `MovesInv`: what a region has given is what it was to give less what is left of it, and
  what is left adds up to what was planned.  Without a minimum that is zero, so that
  when the donors are finished the recipients are too, and conversely (`MovesReach`).
- `ShipCovers`: where the units are no more than the uncovered demand, no share is above
  what is uncovered; and if they are as many, equal sums make them equal everywhere.

**CardBatchProofs**: `TypeCorrect`, `CompletedCovers` (`CompletedIsCurrent`) and
`NoneSkipped` (`NothingPassedOver`).  A run is completed when it has counted as many
cards as it was asked for, which says nothing of which ones.  `RunsInv` and `JobInv`:
cards are never removed, a batch is what follows the cursor, and so a run has handled
every card it was asked for up to its cursor (`Covers`).  `ResultsInv`: as long as no
failure was counted, what it has handled is current, lost or half made, and what it has
counted is no more than what it has handled and counted twice (`Made`).  The rest is
counting: each card it was asked for and has not handled is made up for by one that
it was not asked for or that it has counted twice.  The argument is about
cardinalities of finite sets, from the theorems of `FiniteSetTheorems`.

**ReplyDraftProofs**: `TypeCorrect`, `PublishedAnswered` (`PublishedIsAnswered`) and
`NothingMissed` (`SyncMissesNothing`).  `AnswerInv`: a transaction whose draft is
published in memory has had WB's answer, and WB's answer is never taken back.
`TextInv` keeps an empty text away from WB, where it would read as no answer.
`ListsInv`: an item that was there before the first list was fetched is found in it or
beyond its pages, or else it is found in the second or beyond the pages of that.
The types say of the row's lock that only an approval which has flushed holds it, and
of every text that it had been generated before it was approved or sent; `RowInv` adds
that only approvals flush, `GeneratedInv` that every text in a transaction's memory is
one of those.

**SnapshotCacheProofs**: `StaleExplained` (`StaleHasCause`).  `CauseInv`, of a ready row
that is not left behind, while nothing has failed: if it is older than the data, an
invalidation is still to come or has marked it (`Pending`).  That this survives the
commit of an edit, which changes the data and ends an invalidation at once, needs more:
every edit about to commit has marked the row, or an invalidation is pending for it
(`Covered`).

**AgentScenariosProofs**: `ServedOnce` (`OncePerDueTime`), `TimeAgrees`
(`ScheduleMatches`) and `RunsOnlyEligible` (`RunsWhileEligible`).  `LockInv`: a claimed
scenario is due; `CountInv`: one that is due has not been counted as run for that
time; `RequestInv`: a request only writes a next time that is absent or in the
future and fits the rest of what it writes.

**ManualCostsProofs**: `TypeCorrect`, `Covered` (`CoverageKept`), `OthersUntouched`
(`NoCollateral`) and `SecondConfirmation` (`ConfirmedTwiceOnlyIfGone`).  `KeyInv`: the
unique key holds of what is committed, of what each transaction sees, and between
transactions.  `MadeInv` and `Confirms`: every commit of a file leaves a row with the
key of its last row.  `Replaces`: a file of real costs leaves a row as it is, deletes
it if it is a placeholder, or ends it the day before one of the file's own rows
begins; so that whatever is taken from a day is given back by the successor.

Assumptions: those in the modules (`*Assumption`), which TLC evaluates in every
run, and `NotRunning` in `NoStepBack`.

Only model-checked: the liveness properties (`AcceptedIsSettled`, `WorkerReturns`,
`ClearedIsClosed`, `MatchedIsOpen`, `QueuedIsSettled`, `RunEnds`, `AnswerIsShown`,
`DefaultsAreFresh`, `ReadIsFresh`, `DueIsServed`), since TLAPS has no reasoning about
fairness and ENABLED.
Every other property of a run is proved.

## 5. Not modelled, and the plan

Not modelled, with what a model would be about:

- `services/ab_tests.py`: a campaign at WB between two commits.  Under faults almost
  no statement about photo, campaign and status holds without an exception (the
  two hazards in section 1 say why), so that it would be a list of exceptions
  rather than of properties.
- Data-fix bridge, data quality, guided fixes: two owners of one status.
- `core/http.py`: spacing of requests per key under one lock, retries.
- The agent's conversation and its steps prepared for approval
  (`agent/orchestrator.py`), photo studio, claims, experiments, result tracking:
  workflow modules of the shape of `ReplyDraft`.
- Rules and formulas, grouping: pure algorithms over wide records.
- The other sources of the Action Center, validated by the table of
  `ProblemLifecycle!Transitions`.

Not planned: marts, dashboards and analytics (queries), parsing of the WB APIs,
accounts, the frontend.
