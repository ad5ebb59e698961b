--------------------------- MODULE AgentScenarios ---------------------------
(***************************************************************************)
(* The schedule of the AI agent's scenarios (services/agent/scenarios.py)  *)
(* and the job that runs the due ones (process_due_agent_scenarios).       *)
(*                                                                         *)
(* Every process whose scheduler is enabled runs the job.  A pass is one   *)
(* transaction: it claims due scenarios with FOR UPDATE SKIP LOCKED, runs  *)
(* one after the other and commits all of them together.  A run records    *)
(* previews of actions and computes when the scenario is due next.         *)
(*                                                                         *)
(* Users create, change and run scenarios.  A request reads the row        *)
(* without a lock, decides, and writes the columns it has changed when the *)
(* row is free.                                                            *)
(***************************************************************************)
EXTENDS Naturals, FiniteSets

CONSTANTS
    Scenarios,      \* rows of agent_scenarios
    Jobs,           \* processes that run the job
    Requests,       \* slots for requests in flight
    Contents,       \* what users write into each: a schedule_json and titles of actions
    None,           \* a next_run_at that is NULL
    Later,          \* a next_run_at in the future
    NoScenario,
    MaxPerPass,     \* the job's max_runs
    MaxRequests,    \* bound: updates and runs by users
    MaxDue,         \* bound: times that a scenario becomes due
    MaxFailures     \* bound: passes lost to an error or a restart

ASSUME NamesAssumption ==
    /\ None \notin Nat /\ Later \notin Nat /\ None # Later
    /\ NoScenario \notin Scenarios
    /\ Contents \in [Scenarios -> SUBSET [sched : {"timed", "manual", "broken"},
                                          titles : {"short", "long"}]]
ASSUME BoundsAssumption ==
    /\ MaxPerPass \in Nat \ {0}
    /\ MaxRequests \in Nat /\ MaxDue \in Nat /\ MaxFailures \in Nat

VARIABLES
    row,        \* committed scenario
    claimed,    \* rows each job's transaction has locked
    done,       \* those of them it has run
    request,    \* requests in flight
    runs,       \* scheduled runs committed, per scenario
    dues,       \* how often each scenario has become due
    raced,      \* scenarios written by a request whose view of them was outdated
    used        \* how much of each bound is used

job == <<claimed, done>>
vars == <<row, job, request, runs, dues, raced, used>>

-----------------------------------------------------------------------------
(* A row is active or has one of the other statuses (draft, paused,        *)
(* archived), which are all alike to the schedule.  next is the number of  *)
(* the moment at which it became due, so that numbers are ordered as the   *)
(* columns are; what is still in the future has no number yet.             *)

Row == [status : {"absent", "active", "other"}, auto : {"on", "off"},
        sched : {"timed", "manual", "broken"}, titles : {"short", "long"},
        next : Nat \cup {None, Later}]

Absent ==
    [status |-> "absent", auto |-> "off", sched |-> "manual", titles |-> "short", next |-> None]

NoRequest == [scenario |-> NoScenario, view |-> Absent, new |-> Absent]

Init ==
    /\ row = [s \in Scenarios |-> Absent]
    /\ claimed = [j \in Jobs |-> {}]
    /\ done = [j \in Jobs |-> {}]
    /\ request = [q \in Requests |-> NoRequest]
    /\ runs = [s \in Scenarios |-> 0]
    /\ dues = [s \in Scenarios |-> 0]
    /\ raced = {}
    /\ used = [requests |-> 0, dues |-> 0, failures |-> 0]

Eligible(r) == r.status = "active" /\ r.auto = "on"
Due(r) == Eligible(r) /\ r.next \in Nat

\* Some job's transaction has the row.
Locked(s) == \E j \in Jobs : s \in claimed[j]

-----------------------------------------------------------------------------
(* When a scenario is due next.                                            *)

\* The status is not looked at.
EvenPaused(r) == IF r.auto = "on" /\ r.sched = "timed" THEN Later ELSE None  \* mutant
\* A time in the future for a schedule with times, nothing for a manual one, and
\* nothing for a scenario that is not to run by itself.
NextRun(r) == IF Eligible(r) /\ r.sched = "timed" THEN Later ELSE None

\* int() of what is not a number raises, but only if the time is computed.
Raises(r) == Eligible(r) /\ r.sched = "broken"

\* A run adds a preview for each action, whose title is bounded in agent_action_previews
\* and nowhere else.
RunRaises(r) == Raises(r) \/ r.titles = "long"

-----------------------------------------------------------------------------
(* Time and the job.                                                       *)

\* The moment a scenario waits for has come.
Elapse(s) ==
    /\ used.dues < MaxDue
    /\ row[s].next = Later
    /\ row' = [row EXCEPT ![s].next = used.dues + 1]
    /\ dues' = [dues EXCEPT ![s] = @ + 1]
    /\ used' = [used EXCEPT !.dues = @ + 1]
    /\ UNCHANGED <<job, request, runs, raced>>

\* Rows that another transaction works on are not skipped.
LockedToo == {s \in Scenarios : Due(row[s])}                           \* mutant
\* A time missed by a lost pass is not caught up with.
JustDue == {s \in Scenarios : row[s].next = used.dues /\ Due(row[s]) /\ ~Locked(s)}  \* mutant
Free == {s \in Scenarios : Due(row[s]) /\ ~Locked(s)}

\* The oldest ones first, at most max_runs.
Oldest == {s \in Free :
             Cardinality({t \in Free : row[t].next < row[s].next}) < MaxPerPass}

\* SELECT ... ORDER BY next_run_at LIMIT ... FOR UPDATE SKIP LOCKED: a row that has
\* changed since the statement began is looked at again when it is locked.
Claim(j) ==
    /\ claimed[j] = {} /\ Free # {}
    /\ claimed' = [claimed EXCEPT ![j] = Oldest]
    /\ UNCHANGED <<row, done, request, runs, dues, raced, used>>

\* The transaction ends and its locks with it.
Ends(j) ==
    /\ claimed' = [claimed EXCEPT ![j] = {}]
    /\ done' = [done EXCEPT ![j] = {}]

Remaining(j) == claimed[j] \ done[j]

\* A run of a scenario in the pass: the run and its previews are added and the next
\* time computed, to be written by the commit; the row cannot change until then.
\* Whether the catalogue knows the actions makes the run completed or blocked, and
\* nothing else.
Execute(j, s) ==
    /\ s \in Remaining(j) /\ ~RunRaises(row[s])
    /\ done' = [done EXCEPT ![j] = @ \cup {s}]
    /\ UNCHANGED <<row, claimed, request, runs, dues, raced, used>>

\* The run of one of the claimed scenarios raises, and the job's handler rolls back the
\* runs of all.
PassFails(j) ==
    /\ \E s \in Remaining(j) : RunRaises(row[s])
    /\ Ends(j)
    /\ UNCHANGED <<row, request, runs, dues, raced, used>>

\* An error of the database, or the process is stopped.
PassLost(j) ==
    /\ used.failures < MaxFailures
    /\ claimed[j] # {}
    /\ Ends(j)
    /\ used' = [used EXCEPT !.failures = @ + 1]
    /\ UNCHANGED <<row, request, runs, dues, raced>>

CommitPass(j) ==
    /\ claimed[j] # {} /\ Remaining(j) = {}
    /\ row' = [s \in Scenarios |->
                 IF s \in claimed[j] THEN [row[s] EXCEPT !.next = NextRun(row[s])] ELSE row[s]]
    /\ runs' = [s \in Scenarios |-> IF s \in claimed[j] THEN runs[s] + 1 ELSE runs[s]]
    /\ Ends(j)
    /\ UNCHANGED <<request, dues, raced, used>>

-----------------------------------------------------------------------------
(* Requests.                                                               *)

\* POST /portal/agent/scenarios: active if it is to run by itself.
Create(s) ==
    /\ row[s] = Absent
    /\ \E auto \in {"on", "off"}, c \in Contents[s] :
         LET r == [status |-> IF auto = "on" THEN "active" ELSE "other",
                   auto |-> auto, sched |-> c.sched, titles |-> c.titles, next |-> None]
         IN /\ ~Raises(r)
            /\ row' = [row EXCEPT ![s] = [r EXCEPT !.next = NextRun(r)]]
    /\ UNCHANGED <<job, request, runs, dues, raced, used>>

\* PATCH: what the columns become.  A change of any of the first three computes the next
\* time anew.
Updated(s, v) ==
    {[status |-> status, auto |-> auto, sched |-> c.sched, titles |-> c.titles,
      next |-> v.next] :
        status \in {"active", "other"}, auto \in {"on", "off"},
        c \in Contents[s] \cup {[sched |-> v.sched, titles |-> v.titles]}}

\* A request has read the row and computed what it is to become; the columns set to
\* what they are give a request that runs the scenario (dry run), or changes nothing
\* but the next time.
Load(q, s) ==
    /\ used.requests < MaxRequests
    /\ request[q] = NoRequest /\ row[s] # Absent
    /\ \E r \in Updated(s, row[s]) :
         /\ ~Raises(r)
         /\ request' = [request EXCEPT ![q] =
              [scenario |-> s, view |-> row[s], new |-> [r EXCEPT !.next = NextRun(r)]]]
    /\ used' = [used EXCEPT !.requests = @ + 1]
    /\ UNCHANGED <<row, job, runs, dues, raced>>

\* A column is written if it differs from what was read.
Column(now, view, new) == IF new # view THEN new ELSE now
Merged(now, view, new) ==
    [status |-> Column(now.status, view.status, new.status),
     auto |-> Column(now.auto, view.auto, new.auto),
     sched |-> Column(now.sched, view.sched, new.sched),
     titles |-> Column(now.titles, view.titles, new.titles),
     next |-> Column(now.next, view.next, new.next)]

\* Two times in the future may be the same (daily, weekly) or not (hourly).
Written(now, view, new) ==
    {Merged(now, view, new)}
    \cup {[Merged(now, view, new) EXCEPT !.next = n] :
             n \in {Later} \cap {view.next} \cap {new.next}}

Outdated(now, view) == \E f \in {"status", "auto", "sched"} : now[f] # view[f]

\* The row's lock is not waited for.
Unlocked(s) == TRUE                                                    \* mutant
Writable(s) == ~Locked(s)

Write(q) ==
    /\ request[q] # NoRequest
    /\ LET s == request[q].scenario
           view == request[q].view
       IN /\ Writable(s)
          /\ \E r \in Written(row[s], view, request[q].new) : row' = [row EXCEPT ![s] = r]
          /\ raced' = IF Outdated(row[s], view) THEN raced \cup {s} ELSE raced
    /\ request' = [request EXCEPT ![q] = NoRequest]
    /\ UNCHANGED <<job, runs, dues, used>>

-----------------------------------------------------------------------------
Work(j) == Claim(j) \/ (\E s \in Scenarios : Execute(j, s)) \/ PassFails(j) \/ CommitPass(j)

Next ==
    \/ \E s \in Scenarios : Elapse(s) \/ Create(s)
    \/ \E j \in Jobs : Work(j) \/ PassLost(j)
    \/ \E q \in Requests : Write(q) \/ \E s \in Scenarios : Load(q, s)

\* The job fires every five minutes in each process (registry.py:209-214), and a
\* pass that has begun goes on.
Spec == Init /\ [][Next]_vars /\ \A j \in Jobs : WF_vars(Work(j))

-----------------------------------------------------------------------------
(* Properties.                                                             *)

\* Types; and a transaction has run only rows it has locked, which no other has.
TypeOK ==
    /\ row \in [Scenarios -> Row]
    /\ claimed \in [Jobs -> SUBSET Scenarios]
    /\ done \in [Jobs -> SUBSET Scenarios]
    /\ request \in [Requests -> [scenario : Scenarios \cup {NoScenario}, view : Row, new : Row]]
    /\ runs \in [Scenarios -> Nat] /\ dues \in [Scenarios -> Nat]
    /\ raced \subseteq Scenarios
    /\ \A j \in Jobs : done[j] \subseteq claimed[j]
    /\ \A j, k \in Jobs : j # k => claimed[j] \cap claimed[k] = {}
    /\ used \in [requests : Nat, dues : Nat, failures : Nat]

\* However many processes run the job, and whatever passes are lost, a scenario is run
\* by the schedule at most once for each time it has become due.
OncePerDueTime == \A s \in Scenarios : runs[s] <= dues[s]

\* A scheduled run is committed only for a scenario that is then still active,
\* automatic and due: a user who has paused it is not answered by one more run.
RunsWhileEligible ==
    [][\A s \in Scenarios : runs'[s] # runs[s] => Due(row[s])]_vars

\* A scenario waits for a time if and only if it is to run by itself and has times,
\* as long as no request has written it with an outdated view of it.  (After that it
\* may be active for good without ever becoming due.)
ScheduleMatches ==
    \A s \in Scenarios :
        s \in raced \/ (row[s].next # None <=> Eligible(row[s]) /\ row[s].sched = "timed")

\* A scenario that is due is run, or stops being due, however few are run in a pass;
\* except while one whose run raises is due as well, by its schedule or by a title.
DueIsServed ==
    \A s \in Scenarios :
        Due(row[s]) ~> ~Due(row[s]) \/ \E t \in Scenarios : Due(row[t]) /\ RunRaises(row[t])
=============================================================================
