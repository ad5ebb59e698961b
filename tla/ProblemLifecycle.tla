--------------------------- MODULE ProblemLifecycle ---------------------------
(***************************************************************************)
(* The life of ONE problem instance: one rule of the dynamic problem       *)
(* engine, one product, one dedup key, hence at most one row of            *)
(* problem_instances.  Three kinds of transactions write it concurrently:  *)
(*   - Evaluators: the evaluation after a sync, after a cost import, by an  *)
(*     admin or at night (runner.evaluate_account, evaluate_products);      *)
(*   - Rechecks: POST /portal/problems/{id}/recheck, which evaluates and    *)
(*     then reopens a problem that is still there;                         *)
(*   - Users: status updates from the Action Center.                       *)
(* None of them locks the row before it reads it, and it has no version.   *)
(* A transaction works on the object it has loaded and flushes only the    *)
(* columns whose value it changed; a recheck loads its object long before  *)
(* the evaluator's SELECT, which does not refresh it.                      *)
(***************************************************************************)
EXTENDS Naturals, FiniteSets

CONSTANTS
    Evaluators, Rechecks, Users,
    Configured,     \* the rule's initial_status, NoStatus when it has none
    NoStatus,
    Reopening,      \* statuses the rule's recheck_rule_json reopens on a match
    Conditions,     \* what the metrics may say of the product
    MaxRequests,    \* bound: user updates and rechecks
    MaxFailures     \* bound: failed evaluations and rolled back transactions

Txns == Evaluators \cup Rechecks \cup Users

Statuses == {"new", "acknowledged", "in_progress", "done", "postponed", "ignored",
             "blocked", "candidate_resolved", "resolved", "dismissed", "reopened"}

\* match: the condition holds; blocker: metrics are missing and the rule makes a
\* blocker of it; clear: it does not hold and resolved_when agrees; unclear: it
\* does not hold and resolved_when does not, or the rule only nominates; safe: it
\* holds but the price is already above the safe minimum; inactive: the rule is
\* paused, nothing is evaluated.
Verdicts == {"match", "blocker", "clear", "unclear", "safe", "inactive"}

ASSUME TxnsAssumption ==
    /\ Evaluators \cap Rechecks = {}
    /\ (Evaluators \cup Rechecks) \cap Users = {}
ASSUME RuleAssumption ==
    /\ Configured \in {"new", "blocked", NoStatus}
    /\ NoStatus \notin Statuses
    /\ Reopening \subseteq Statuses
    /\ Conditions \subseteq Verdicts
ASSUME LimitsAssumption == {MaxRequests, MaxFailures} \subseteq Nat

VARIABLES
    row,        \* the committed row: its status, and which updates its snapshot
                \* holds (assignee, deadline, comment: each update adds to them)
    cond,       \* what the metrics say now
    pc,         \* where each transaction is
    seen,       \* the verdict of its evaluation
    first,      \* the status it loaded
    mem,        \* its object
    base,       \* history: the updates its object held when it was loaded
    dirty,      \* columns of the object not flushed yet
    held,       \* columns flushed; if any, the transaction has the row's lock
    used        \* how much of each bound has been used

vars == <<row, cond, pc, seen, first, mem, base, dirty, held, used>>

Columns == {"st", "task"}
Absent == [st |-> "absent", task |-> {}]
Rows == [st : Statuses \cup {"absent"}, task : SUBSET Nat]
Steps == {"idle", "measure", "find", "flush", "rest", "conclude", "write", "commit"}
Matching == {"match", "blocker"}
Preserved == {"ignored", "postponed", "in_progress", "done"}
Closed == {"resolved", "dismissed"}

-----------------------------------------------------------------------------
(* What an evaluation makes of the object.                                 *)

NoDefault(v) == Configured                                          \* mutant
InitialStatus(v) ==
    IF Configured # NoStatus THEN Configured
    ELSE IF v = "blocker" THEN "blocked" ELSE "new"

\* The payload overwrites status and snapshot; a user's decision is put back
\* unless the rule reopens it.
NothingPreserved(old, v) == InitialStatus(v)                        \* mutant
ClosedStays(old, v) ==                                              \* mutant
    IF old.st \in Preserved \cup Closed THEN old.st ELSE InitialStatus(v)
StatusOnMatch(old, v) ==
    IF old.st \in Preserved \ Reopening THEN old.st
    ELSE IF old.st \in Closed \cup {"candidate_resolved"} \cup Reopening THEN "new"
    ELSE InitialStatus(v)

DecisionStays(old, v) ==                                            \* mutant
    IF old.st \in Preserved \cup Closed THEN old
    ELSE [st |-> "resolved", task |-> {}]
OnNoMatch(old, v) ==
    IF old.st \in Closed THEN old
    ELSE [st |-> IF v = "unclear" THEN "candidate_resolved" ELSE "resolved",
          task |-> {}]

Evaluated(old, v) ==
    IF v \in Matching
    THEN [st |-> IF old = Absent THEN InitialStatus(v) ELSE StatusOnMatch(old, v),
          task |-> {}]
    ELSE IF v = "inactive" \/ old = Absent THEN old
    ELSE OnNoMatch(old, v)

\* The columns an evaluation changes.  The snapshot carries the time of the
\* evaluation: it differs whenever it is written.
EvaluatedColumns(old, v) ==
    IF v = "inactive" \/ (v \notin Matching /\ (old = Absent \/ old.st \in Closed))
    THEN {}
    ELSE {"task"} \cup (IF Evaluated(old, v).st # old.st THEN {"st"} ELSE {})

-----------------------------------------------------------------------------
(* What the Action Center lets a user do.                                  *)

Transitions ==
    [s \in Statuses |->
       CASE s \in {"new", "candidate_resolved"} ->
                {"new", "acknowledged", "in_progress", "ignored", "postponed", "blocked"}
         [] s = "acknowledged" -> {s, "in_progress", "ignored", "postponed", "blocked"}
         [] s = "in_progress" -> {s, "done", "blocked", "postponed", "ignored"}
         [] s = "done" -> {s, "resolved", "reopened"}
         [] s = "postponed" -> {s, "in_progress", "ignored", "reopened"}
         [] s = "blocked" -> {s, "in_progress"}
         [] s \in {"ignored", "resolved", "dismissed"} -> {s, "reopened"}
         [] s = "reopened" -> {s, "acknowledged", "in_progress", "ignored",
                               "postponed", "blocked"}]

-----------------------------------------------------------------------------
\* PostgreSQL's row lock.
Busy(t) == \E u \in Txns \ {t} : held[u] # {}

Init ==
    /\ row = Absent
    /\ cond \in Conditions
    /\ pc = [t \in Txns |-> "idle"]
    /\ seen = [t \in Txns |-> "none"]
    /\ first = [t \in Txns |-> "absent"]
    /\ mem = [t \in Txns |-> Absent]
    /\ base = [t \in Txns |-> {}]
    /\ dirty = [t \in Txns |-> {}]
    /\ held = [t \in Txns |-> {}]
    /\ used = [requests |-> 0, failures |-> 0]

Goto(t, step) == pc' = [pc EXCEPT ![t] = step]

Spend(bound, limit) ==
    /\ used[bound] < limit
    /\ used' = [used EXCEPT ![bound] = @ + 1]

\* Sales, stocks, costs and the rule's own state change under the evaluation.
Change ==
    /\ cond' \in Conditions \ {cond}
    /\ UNCHANGED <<row, pc, seen, first, mem, base, dirty, held, used>>

\* The route of a recheck loads the instance to find its account.
LoadForRecheck(t) ==
    /\ t \in Rechecks /\ pc[t] = "idle"
    /\ row # Absent
    /\ Spend("requests", MaxRequests)
    /\ mem' = [mem EXCEPT ![t] = row]
    /\ base' = [base EXCEPT ![t] = row.task]
    /\ first' = [first EXCEPT ![t] = row.st]
    /\ Goto(t, "measure")
    /\ UNCHANGED <<row, cond, seen, dirty, held>>

\* resolve_product_metrics, before the instance is looked up.
Measure(t) ==
    /\ \/ t \in Evaluators /\ pc[t] = "idle"
       \/ t \in Rechecks /\ pc[t] = "measure"
    /\ seen' = [seen EXCEPT ![t] = cond]
    /\ Goto(t, "find")
    /\ UNCHANGED <<row, cond, first, mem, base, dirty, held, used>>

\* _find_existing_instance, and all that follows up to the next await: the
\* payload is applied in memory.  A recheck gets the object it loaded before.
Found(t) == IF t \in Rechecks THEN mem[t] ELSE row

Find(t) ==
    /\ pc[t] = "find"
    /\ mem' = [mem EXCEPT ![t] = Evaluated(Found(t), seen[t])]
    /\ dirty' = [dirty EXCEPT ![t] = EvaluatedColumns(Found(t), seen[t])]
    /\ first' = [first EXCEPT ![t] = Found(t).st]
    /\ Goto(t, IF dirty'[t] = {} THEN "rest" ELSE "flush")
    /\ UNCHANGED <<row, cond, seen, base, held, used>>

\* The INSERT of a row that another evaluation has inserted meanwhile.
CollisionIgnored(t) == FALSE                                        \* mutant
Collides(t) == first[t] = "absent" /\ row # Absent

Flush(t) ==
    /\ pc[t] \in {"flush", "write"} /\ ~Busy(t)
    /\ pc[t] = "flush" => ~Collides(t)
    /\ held' = [held EXCEPT ![t] = @ \cup dirty[t]]
    /\ dirty' = [dirty EXCEPT ![t] = {}]
    /\ Goto(t, IF pc[t] = "flush" THEN "rest" ELSE "commit")
    /\ UNCHANGED <<row, cond, seen, first, mem, base, used>>

\* The evaluation has gone on to the other rules and products.
EvaluationEnds(t) ==
    /\ pc[t] = "rest"
    /\ Goto(t, IF t \in Rechecks THEN "conclude" ELSE "commit")
    /\ UNCHANGED <<row, cond, seen, first, mem, base, dirty, held, used>>

\* An exception anywhere in the evaluation, a lock timeout for one, rolls back to
\* the savepoint and is logged; the caller goes on.  An object the evaluation had
\* changed expires: there is none until the caller reads the row again.
Fails(t) ==
    /\ pc[t] \in {"find", "flush", "rest"}
    /\ seen' = [seen EXCEPT ![t] = "failed"]
    /\ mem' = [mem EXCEPT ![t] = IF dirty[t] \cup held[t] # {} THEN Absent ELSE @]
    /\ dirty' = [dirty EXCEPT ![t] = {}]
    /\ held' = [held EXCEPT ![t] = {}]
    /\ Goto(t, IF t \in Rechecks THEN "conclude" ELSE "commit")
    /\ UNCHANGED <<row, cond, first, base>>

EvaluationFails(t) == Fails(t) /\ Spend("failures", MaxFailures)

InsertFails(t) ==
    /\ pc[t] = "flush" /\ ~Busy(t) /\ Collides(t)
    /\ Fails(t)
    /\ UNCHANGED used

\* The end of recheck_problem_instance: a problem that was done or resolved and
\* is not any more, or is still done, is reopened.
Refreshed(t) == IF mem[t] = Absent THEN row ELSE mem[t]

ReopensAll(t) == first[t] \in {"done", "resolved"}                   \* mutant
Reopens(t) ==
    /\ first[t] \in {"done", "resolved"}
    /\ Refreshed(t).st \in {"done", "new", "acknowledged", "in_progress"}

Conclude(t) ==
    /\ pc[t] = "conclude"
    /\ IF Reopens(t)
       THEN /\ mem' = [mem EXCEPT ![t] =
                          [st |-> "reopened", task |-> Refreshed(t).task]]
            /\ base' = [base EXCEPT ![t] = IF mem[t] = Absent THEN row.task ELSE @]
            /\ dirty' = [dirty EXCEPT ![t] = Columns]
            /\ Goto(t, "write")
       ELSE Goto(t, "commit") /\ UNCHANGED <<mem, base, dirty>>
    /\ UNCHANGED <<row, cond, seen, first, held, used>>

\* What an update puts into the snapshot: a copy of what the loaded one has, with
\* the fields the user fills in.  The column is written whole.
OnlyOwn(saved, id) == {id}                                          \* mutant
WithSaved(saved, id) == saved \cup {id}

\* _update_problem_instance_action_by_source: load, validate, change in memory.
Update(t, s) ==
    /\ t \in Users /\ pc[t] = "idle"
    /\ row # Absent /\ s \in Transitions[row.st]
    /\ Spend("requests", MaxRequests)
    /\ first' = [first EXCEPT ![t] = row.st]
    /\ mem' = [mem EXCEPT ![t] = [st |-> s, task |-> WithSaved(row.task, used'.requests)]]
    /\ base' = [base EXCEPT ![t] = row.task]
    /\ dirty' = [dirty EXCEPT ![t] = IF s = row.st THEN {"task"} ELSE Columns]
    /\ Goto(t, "write")
    /\ UNCHANGED <<row, cond, seen, held>>

\* The end of a transaction: the session and its objects are gone.
Forget(t) ==
    /\ pc' = [pc EXCEPT ![t] = "idle"]
    /\ seen' = [seen EXCEPT ![t] = "none"]
    /\ first' = [first EXCEPT ![t] = "absent"]
    /\ mem' = [mem EXCEPT ![t] = Absent]
    /\ base' = [base EXCEPT ![t] = {}]
    /\ dirty' = [dirty EXCEPT ![t] = {}]
    /\ held' = [held EXCEPT ![t] = {}]

Merged(t) ==
    [st |-> IF "st" \in held[t] THEN mem[t].st ELSE row.st,
     task |-> IF "task" \in held[t] THEN mem[t].task ELSE row.task]

Commit(t) ==
    /\ pc[t] = "commit"
    /\ row' = Merged(t)
    /\ Forget(t)
    /\ UNCHANGED <<cond, used>>

\* A lock timeout outside the evaluation, a client that is gone, a restart.
Rollback(t) ==
    /\ pc[t] # "idle"
    /\ Spend("failures", MaxFailures)
    /\ Forget(t)
    /\ UNCHANGED <<row, cond>>

Work(t) ==
    \/ Measure(t) \/ Find(t) \/ Flush(t) \/ EvaluationEnds(t)
    \/ InsertFails(t) \/ Conclude(t) \/ Commit(t)

Next ==
    \/ Change
    \/ \E t \in Txns : Work(t) \/ LoadForRecheck(t)
    \/ \E t \in Txns : EvaluationFails(t) \/ Rollback(t)
    \/ \E t \in Users, s \in Statuses : Update(t, s)

Spec == Init /\ [][Next]_vars

\* The nightly evaluation runs every night, and those who wait for the row's lock
\* get it in the order in which they came.
Fairness == \A t \in Txns : SF_vars(Work(t))
FairSpec == Spec /\ Fairness
-----------------------------------------------------------------------------
Commits(t) == pc[t] = "commit" /\ pc'[t] = "idle" /\ row' # row

\* The types; at most one transaction has written the row without ending.
TypeOK ==
    /\ row \in Rows
    /\ cond \in Conditions
    /\ pc \in [Txns -> Steps]
    /\ seen \in [Txns -> Verdicts \cup {"none", "failed"}]
    /\ first \in [Txns -> Statuses \cup {"absent"}]
    /\ mem \in [Txns -> Rows]
    /\ base \in [Txns -> SUBSET Nat]
    /\ dirty \in [Txns -> SUBSET Columns]
    /\ held \in [Txns -> SUBSET Columns]
    /\ used \in [requests : Nat, failures : Nat]
    /\ \A t, u \in Txns : held[t] # {} /\ held[u] # {} => t = u

(***************************************************************************)
(* An evaluation that has seen a user's decision (ignored, postponed, in   *)
(* progress, done) and still matches does not change the status, neither   *)
(* the one it has seen nor one the user or another evaluation has set      *)
(* between its SELECT and its commit, unless the rule asks for it.         *)
(***************************************************************************)
SeenDecisionIsKept ==
    [][\A t \in Evaluators :
         (Commits(t) /\ seen[t] \in Matching /\ first[t] \in Preserved \ Reopening)
           => row'.st = row.st]_vars

(***************************************************************************)
(* Two evaluations that both find no instance create one: the second does  *)
(* not overwrite what the first, or a user after it, has made of it.       *)
(***************************************************************************)
CreatedOnce ==
    [][\A t \in Evaluators :
         (Commits(t) /\ first[t] = "absent") => row = Absent]_vars

(***************************************************************************)
(* A recheck never reopens a problem whose condition it has just seen to   *)
(* be gone, whatever was done to the row since the route has loaded it.    *)
(* (It does reopen one when its evaluation failed.)                        *)
(***************************************************************************)
ReopenedNotCleared ==
    [][\A t \in Rechecks :
         (Commits(t) /\ row'.st = "reopened" /\ row.st # "reopened")
           => seen[t] \notin {"clear", "safe", "unclear"}]_vars

(***************************************************************************)
(* What a user has saved is lost only in two ways: to an evaluation with a *)
(* verdict, which writes the snapshot anew, or to a user or a recheck whose*)
(* object was loaded before it was saved, since the column that all of it  *)
(* is in is written whole.  Whoever has read it keeps it, and evaluations  *)
(* that fail, or evaluate nothing, lose nothing.                           *)
(***************************************************************************)
ReadSaveIsKept ==
    [][\A n \in row.task \ row'.task :
         \E t \in Txns :
            /\ Commits(t)
            /\ \/ t \notin Users /\ seen[t] \in Verdicts \ {"inactive"}
               \/ t \notin Evaluators /\ n \notin base[t]]_vars

(***************************************************************************)
(* Claims of documents and comments that the code does not keep.           *)
(***************************************************************************)

\* "Problem condition still matches after re-check." (the comment a recheck
\* leaves when it reopens a problem).
ReopenedMeansMatched ==
    [][\A t \in Rechecks :
         (Commits(t) /\ row'.st = "reopened" /\ row.st # "reopened")
           => seen[t] \in Matching]_vars

\* "assignee, deadline, comment and history still match the saved values": what a
\* user has saved stays as long as the problem is open.
TaskIsKept ==
    [][row'.st \notin Closed \cup {"candidate_resolved"} => row.task \subseteq row'.task]_vars

\* "Allowed transitions": a user's update only makes these.
UsersFollowTransitions ==
    [][\A t \in Users : Commits(t) => row'.st \in Transitions[row.st]]_vars

\* "Engine may create new, update last_seen, and auto-transition to resolved": it
\* does not take an open problem to another open status.
EngineOnlyResolves ==
    [][\A t \in Evaluators :
         (Commits(t) /\ row.st \in Preserved \cup {"new", "acknowledged", "blocked", "reopened"}
                    /\ row'.st # row.st)
           => row'.st \in {"resolved", "candidate_resolved"}]_vars

(***************************************************************************)
(* Liveness.  Whatever updates, rechecks and evaluations overlap or fail,  *)
(* a problem whose condition is gone for good ends up closed, even one the *)
(* user had ignored or worked on ...                                       *)
(***************************************************************************)
ClearedIsClosed ==
    <>[](cond \in {"clear", "safe"}) => <>[](row.st \in Closed \cup {"absent"})

(***************************************************************************)
(* ... and one whose condition holds for good ends up open, even one that  *)
(* was resolved before.                                                    *)
(***************************************************************************)
MatchedIsOpen ==
    <>[](cond = "match")
      => <>[](row.st \notin Closed \cup {"absent", "candidate_resolved"})
=============================================================================
