------------------------- MODULE StockControlProofs -------------------------
(***************************************************************************)
(* Theorems about stock control: the queue of its runs, for any set of     *)
(* runs and of concurrent requests and any bounds, and what a run          *)
(* computes, for any regions, demands, stocks and settings.                *)
(***************************************************************************)
(***************************************************************************)
(* The queue (StockRuns). None of the properties is inductive alone. The   *)
(* argument is about what a pass holds: every run it has selected, loaded  *)
(* or flushed was asked for once more than it was executed (CreditInv),    *)
(* the outcomes it holds are whole (FlushedInv), and a run it holds that   *)
(* is cancelled meanwhile was cancelled after it had been loaded           *)
(* (RacedInv).                                                             *)
(***************************************************************************)
(***************************************************************************)
(* A computation (StockPlan). All its properties are about sums over the   *)
(* regions, which the library defines by folds. The second part begins     *)
(* with what such a sum is, goes on with the allocation by largest         *)
(* remainders, on which the plan and the shipment rest, and ends with the  *)
(* invariant that holds while units are moved (MovesInv).                  *)
(***************************************************************************)
EXTENDS StockRuns, StockPlan, FiniteSetTheorems, WellFoundedInduction, TLAPS

\* The job has a run exactly between Load and Execute.
JobInv ==
    /\ pc \in {"begin", "execute"} => cur \in Runs
    /\ pc \in {"idle", "pass"} => cur = NoRun
    /\ pc = "idle" => todo = {}

\* What is flushed is the outcome of an execution, but for the run at work.
FlushedInv ==
    \A r \in Runs : Held(r) =>
        \/ pc = "execute" /\ r = cur
        \/ mem[r].status = "failed"
        \/ mem[r].status \in Successes /\ mem[r].rows = mem[r].export /\ mem[r].rows # 0

\* A run that waits or is worked on has been asked for and not been executed since.
InHand(r) == row[r].status = "queued" \/ r \in todo \/ r = cur \/ Held(r)
CreditInv == \A r \in Runs : InHand(r) => executed[r] < asked[r]

\* The job holds a cancelled run only if it was cancelled behind its back.
RacedInv ==
    \A r \in Runs : (row[r].status = "cancelled" /\ (r = cur \/ Held(r))) => r \in raced

\* A request that is under way is about a run.
RequestInv == \A q \in Requests : request[q] = NoRequest \/ request[q].run \in Runs

IInv ==
    /\ TypeOK /\ RequestInv /\ JobInv /\ FlushedInv /\ CreditInv /\ RacedInv
    /\ SuccessHasResult /\ RunsAsAsked

-----------------------------------------------------------------------------
(* The outcome of an execution is a whole success or a failure.            *)
LEMMA OutcomeType ==
    ASSUME NEW m \in [status : Statuses \cup {"none", "running"}, rows : Nat, export : Nat],
           NEW n \in Nat \ {0}, NEW o \in Outcomes(m, n)
    PROVE  /\ o \in [status : Statuses, rows : Nat, export : Nat]
           /\ \/ o.status = "failed"
              \/ o.status \in Successes /\ o.rows = o.export /\ o.rows # 0
<1>1. CASE \E s \in Successes : o = [status |-> s, rows |-> n, export |-> n]
  BY <1>1 DEF Statuses, Successes
<1>2. CASE o = [m EXCEPT !.status = "failed"]
  BY <1>2 DEF Statuses, Successes
<1>3. CASE \E e \in {m.export, 0} : o = [status |-> "failed", rows |-> n, export |-> e]
  BY <1>3 DEF Statuses, Successes
<1> QED BY <1>1, <1>2, <1>3 DEF Outcomes, Computed

LEMMA InitHolds == Init => IInv
<1> SUFFICES ASSUME Init PROVE IInv
  OBVIOUS
<1> USE RunsAssumption DEF Init
<1>1. TypeOK
  BY DEF TypeOK, Row, Absent, NotHeld, NoRequest, Statuses, Successes, Held
<1>2. RequestInv /\ JobInv /\ FlushedInv /\ CreditInv /\ RacedInv
  BY DEF RequestInv, JobInv, FlushedInv, CreditInv, InHand, RacedInv, Held, NotHeld, Absent
<1>3. SuccessHasResult /\ RunsAsAsked
  BY DEF SuccessHasResult, RunsAsAsked, Absent, Successes
<1> QED BY <1>1, <1>2, <1>3 DEF IInv

-----------------------------------------------------------------------------
(* The steps of the job.                                                   *)

LEMMA SelectKeeps == ASSUME IInv, Select PROVE IInv'
<1> USE RunsAssumption DEF IInv, Select, history
<1>1. TypeOK'
  BY DEF TypeOK, Held, Selected, Waiting
<1>2. RequestInv' /\ JobInv' /\ FlushedInv' /\ RacedInv'
  BY DEF RequestInv, JobInv, FlushedInv, RacedInv, Held
<1>3. CreditInv'
  <2>1. \A r \in Selected : r \in Runs /\ row[r].status = "queued"
    BY DEF Selected, Waiting
  <2> QED BY <2>1 DEF CreditInv, InHand, Held
<1>4. SuccessHasResult' /\ RunsAsAsked'
  BY DEF SuccessHasResult, RunsAsAsked
<1> QED BY <1>1, <1>2, <1>3, <1>4

LEMMA LoadKeeps == ASSUME IInv, NEW r \in Runs, Load(r) PROVE IInv'
<1> USE RunsAssumption DEF IInv, Load, Turn, Skipped
<1>1. TypeOK'
  BY DEF TypeOK, Held
<1>2. RequestInv' /\ JobInv' /\ FlushedInv'
  BY DEF RequestInv, JobInv, FlushedInv, Held
<1>3. CreditInv'
  BY DEF CreditInv, InHand, Held, JobInv
<1>4. RacedInv'
  BY DEF RacedInv, Held, JobInv
<1>5. SuccessHasResult' /\ RunsAsAsked'
  BY DEF SuccessHasResult, RunsAsAsked
<1> QED BY <1>1, <1>2, <1>3, <1>4, <1>5

LEMMA BeginKeeps == ASSUME IInv, Begin PROVE IInv'
<1> USE RunsAssumption DEF IInv, Begin, history
<1>0. cur \in Runs
  BY DEF JobInv
<1>1. mem' = [mem EXCEPT ![cur] = [row[cur] EXCEPT !.status = "running"]]
      /\ mem'[cur].status = "running" /\ \A r \in Runs \ {cur} : mem'[r] = mem[r]
  BY <1>0 DEF TypeOK, Row
<1>2. TypeOK'
  BY <1>0, <1>1 DEF TypeOK, Row
<1>3. RequestInv' /\ JobInv' /\ FlushedInv'
  BY <1>0, <1>1 DEF RequestInv, JobInv, FlushedInv, Held
<1>4. CreditInv' /\ RacedInv'
  BY <1>0, <1>1 DEF CreditInv, InHand, RacedInv, Held
<1>5. SuccessHasResult' /\ RunsAsAsked'
  BY DEF SuccessHasResult, RunsAsAsked
<1> QED BY <1>2, <1>3, <1>4, <1>5

LEMMA ExecuteKeeps == ASSUME IInv, Execute PROVE IInv'
<1> USE RunsAssumption DEF IInv, Execute, history
<1>0. cur \in Runs /\ started + 1 \in Nat \ {0}
  BY DEF JobInv, TypeOK
<1>1. PICK o \in Outcomes(mem[cur], started + 1) : mem' = [mem EXCEPT ![cur] = o]
  OBVIOUS
<1>2. /\ o \in [status : Statuses, rows : Nat, export : Nat]
      /\ \/ o.status = "failed"
         \/ o.status \in Successes /\ o.rows = o.export /\ o.rows # 0
  BY <1>0, OutcomeType DEF TypeOK
<1>3. mem'[cur] = o /\ \A r \in Runs \ {cur} : mem'[r] = mem[r]
  BY <1>0, <1>1 DEF TypeOK
<1>4. TypeOK'
  BY <1>0, <1>1, <1>2 DEF TypeOK
<1>5. RequestInv' /\ JobInv' /\ FlushedInv'
  BY <1>0, <1>2, <1>3 DEF RequestInv, JobInv, FlushedInv, Held
<1>6. CreditInv' /\ RacedInv'
  BY <1>0, <1>3 DEF CreditInv, InHand, RacedInv, Held
<1>7. SuccessHasResult' /\ RunsAsAsked'
  BY DEF SuccessHasResult, RunsAsAsked
<1> QED BY <1>4, <1>5, <1>6, <1>7

\* What a commit leaves of a run.
LEMMA CommitEffect ==
    ASSUME IInv, CommitPass, NEW r \in Runs
    PROVE  /\ mem'[r] = NotHeld
           /\ ~Held(r) => row'[r] = row[r] /\ executed'[r] = executed[r]
           /\ Held(r) => /\ row'[r] = mem[r] /\ executed'[r] = executed[r] + 1
                         /\ \/ row'[r].status = "failed"
                            \/ /\ row'[r].status \in Successes
                               /\ row'[r].rows = row'[r].export /\ row'[r].rows # 0
<1>1. /\ mem'[r] = NotHeld
      /\ ~Held(r) => row'[r] = row[r] /\ executed'[r] = executed[r] + 0
      /\ Held(r) => row'[r] = mem[r] /\ executed'[r] = executed[r] + 1
  BY Zenon DEF CommitPass, Merged
<1>2. executed[r] + 0 = executed[r]
  BY DEF IInv, TypeOK
<1> QED BY <1>1, <1>2 DEF IInv, FlushedInv, CommitPass

LEMMA CommitKeeps == ASSUME IInv, CommitPass PROVE IInv'
<1> USE RunsAssumption DEF IInv
<1>0. /\ pc = "pass" /\ pc' = "idle" /\ todo = {} /\ todo' = {}
      /\ cur = NoRun /\ cur' = NoRun /\ asked' = asked /\ raced' = raced
      /\ started' = started /\ request' = request /\ used' = used
  BY DEF CommitPass, JobInv
<1>1. \A r \in Runs : ~Held(r)'
  BY CommitEffect DEF Held, NotHeld
<1>2. TypeOK'
  <2>1. row' \in [Runs -> Row]
    <3>1. row' = [r \in Runs |-> row'[r]]
      BY Zenon DEF CommitPass
    <3>2. \A r \in Runs : row'[r] \in Row
      <4> SUFFICES ASSUME NEW r \in Runs PROVE row'[r] \in Row
        OBVIOUS
      <4>1. CASE Held(r)
        <5>1. row'[r] = mem[r] /\ row'[r].status \in Statuses
          BY <4>1, CommitEffect DEF Statuses, Successes
        <5> QED BY <5>1 DEF TypeOK, Row
      <4>2. CASE ~Held(r)
        BY <4>2, CommitEffect DEF TypeOK
      <4> QED BY <4>1, <4>2
    <3> QED BY <3>1, <3>2
  <2>2. mem' = [r \in Runs |-> NotHeld]
    BY DEF CommitPass
  <2>3. executed' \in [Runs -> Nat]
    <3>1. \A r \in Runs : executed'[r] \in Nat
      BY CommitEffect DEF TypeOK
    <3>2. executed' = [r \in Runs |-> executed'[r]]
      BY Zenon DEF CommitPass
    <3> QED BY <3>1, <3>2
  <2> QED BY <1>0, <1>1, <2>1, <2>2, <2>3 DEF TypeOK, NotHeld
<1>3. RequestInv' /\ JobInv' /\ FlushedInv' /\ RacedInv'
  BY <1>0, <1>1 DEF RequestInv, JobInv, FlushedInv, RacedInv, Held
<1>4. CreditInv'
  BY <1>0, <1>1, CommitEffect DEF CreditInv, InHand, Successes
<1>5. SuccessHasResult'
  BY CommitEffect DEF SuccessHasResult, Successes
<1>6. RunsAsAsked'
  BY <1>0, CommitEffect DEF RunsAsAsked, CreditInv, InHand, TypeOK
<1> QED BY <1>2, <1>3, <1>4, <1>5, <1>6

LEMMA PassFailsKeeps == ASSUME IInv, PassFails PROVE IInv'
<1> USE RunsAssumption DEF IInv, PassFails, history
<1>1. \A r \in Runs : ~Held(r)'
  BY DEF Held, NotHeld
<1>2. TypeOK'
  BY <1>1 DEF TypeOK, NotHeld
<1>3. RequestInv' /\ JobInv' /\ FlushedInv'
  BY <1>1 DEF RequestInv, JobInv, FlushedInv, Held
<1>4. CreditInv' /\ RacedInv'
  BY <1>1 DEF CreditInv, InHand, RacedInv
<1>5. SuccessHasResult' /\ RunsAsAsked'
  BY DEF SuccessHasResult, RunsAsAsked
<1> QED BY <1>2, <1>3, <1>4, <1>5

-----------------------------------------------------------------------------
(* The steps of users.                                                     *)

LEMMA CreateKeeps == ASSUME IInv, NEW r \in Runs, CreateRun(r) PROVE IInv'
<1> USE RunsAssumption DEF IInv, CreateRun, job
<1>0. /\ row'[r].status = "queued" /\ asked'[r] = asked[r] + 1
      /\ \A q \in Runs \ {r} : row'[q] = row[q] /\ asked'[q] = asked[q]
  BY DEF TypeOK, Row
<1>1. TypeOK'
  BY DEF TypeOK, Row, Statuses, Held
<1>2. RequestInv' /\ JobInv' /\ FlushedInv' /\ RacedInv'
  BY <1>0 DEF RequestInv, JobInv, FlushedInv, RacedInv, Held
<1>3. CreditInv' /\ RunsAsAsked'
  BY <1>0 DEF CreditInv, InHand, Held, RunsAsAsked, TypeOK
<1>4. SuccessHasResult'
  BY <1>0 DEF SuccessHasResult, Successes
<1> QED BY <1>1, <1>2, <1>3, <1>4

LEMMA AskKeeps ==
    ASSUME IInv, NEW q \in Requests, NEW op \in {"retry", "cancel"}, NEW r \in Runs,
           AskFor(q, op, r)
    PROVE  IInv'
<1> USE RunsAssumption DEF IInv, AskFor, job, history
<1>1. TypeOK'
  BY DEF TypeOK, Row, Held
<1>2. RequestInv' /\ JobInv' /\ FlushedInv' /\ RacedInv' /\ CreditInv'
  BY DEF RequestInv, JobInv, FlushedInv, RacedInv, CreditInv, InHand, Held
<1>3. SuccessHasResult' /\ RunsAsAsked'
  BY DEF SuccessHasResult, RunsAsAsked
<1> QED BY <1>1, <1>2, <1>3

LEMMA WriteKeeps == ASSUME IInv, NEW q \in Requests, Write(q) PROVE IInv'
<1> DEFINE r == request[q].run
           s == Target(request[q].op)
<1> USE RunsAssumption DEF IInv
<1>0. /\ s \in {"cancelled", "queued"} /\ ~Held(r) /\ r \in Runs
      /\ request' = [request EXCEPT ![q] = NoRequest]
      /\ UNCHANGED <<job, started, executed, used>>
  BY DEF Write, Target, RequestInv
<1>1. CASE UNCHANGED <<row, asked, raced>>
  <2>1. TypeOK'
    BY <1>0, <1>1 DEF TypeOK, job, Held, NoRequest, Statuses
  <2>2. RequestInv' /\ JobInv' /\ FlushedInv' /\ RacedInv' /\ CreditInv'
    BY <1>0, <1>1 DEF job, RequestInv, JobInv, FlushedInv, RacedInv, CreditInv, InHand, Held
  <2>3. SuccessHasResult' /\ RunsAsAsked'
    BY <1>0, <1>1 DEF SuccessHasResult, RunsAsAsked
  <2> QED BY <2>1, <2>2, <2>3
<1>2. CASE /\ row' = [row EXCEPT ![r].status = s]
           /\ asked' = [asked EXCEPT ![r] = @ + (IF s = "queued" THEN 1 ELSE 0)]
           /\ raced' = IF s = "cancelled" /\ cur = r THEN raced \cup {r} ELSE raced
  <2>1. \A p \in Runs : /\ p # r => row'[p] = row[p] /\ asked'[p] = asked[p]
                        /\ p = r => /\ row'[p].status = s /\ asked'[p] >= asked[p]
                                    /\ s = "queued" => asked'[p] = asked[p] + 1
    BY <1>2 DEF TypeOK, Row
  <2>2. TypeOK'
    <3>1. row' \in [Runs -> Row]
      <4>1. \A p \in Runs : row'[p] \in Row
        BY <1>0, <1>2 DEF TypeOK, Row, Statuses
      <4>2. row' = [p \in Runs |-> row'[p]]
        BY <1>2 DEF TypeOK
      <4> QED BY <4>1, <4>2
    <3>2. asked' \in [Runs -> Nat]
      <4>1. \A p \in Runs : asked'[p] \in Nat
        BY <1>2 DEF TypeOK
      <4>2. asked' = [p \in Runs |-> asked'[p]]
        BY <1>2 DEF TypeOK
      <4> QED BY <4>1, <4>2
    <3>3. raced' \subseteq Runs
      BY <1>0, <1>2 DEF TypeOK
    <3>4. request' \in [Requests -> [op : {"none", "retry", "cancel"},
                                     run : Runs \cup {NoRun}, view : Statuses]]
      BY <1>0 DEF TypeOK, NoRequest, Statuses
    <3> QED BY <1>0, <3>1, <3>2, <3>3, <3>4 DEF TypeOK, job, Held
  <2>3. RequestInv' /\ JobInv' /\ FlushedInv'
    BY <1>0 DEF job, RequestInv, JobInv, FlushedInv, Held
  <2>4. RacedInv'
    BY <1>0, <1>2, <2>1 DEF job, RacedInv, Held
  <2>5. CreditInv' /\ RunsAsAsked'
    <3> SUFFICES ASSUME NEW p \in Runs
                 PROVE  executed'[p] <= asked'[p] /\ (InHand(p)' => executed'[p] < asked'[p])
      BY DEF CreditInv, RunsAsAsked
    <3>1. /\ executed'[p] = executed[p] /\ executed[p] \in Nat /\ asked[p] \in Nat
          /\ executed[p] <= asked[p] /\ (InHand(p) => executed[p] < asked[p])
      BY <1>0 DEF CreditInv, RunsAsAsked, TypeOK
    <3>2. CASE p = r /\ s = "queued"
      BY <2>1, <3>1, <3>2
    <3>3. CASE p # r \/ s = "cancelled"
      <4>1. InHand(p)' => InHand(p)
        BY <1>0, <2>1, <3>3 DEF job, InHand, Held
      <4>2. asked'[p] >= asked[p] /\ asked'[p] \in Nat
        BY <2>1, <2>2, <3>1 DEF TypeOK
      <4> QED BY <3>1, <4>1, <4>2
    <3> QED BY <1>0, <3>2, <3>3
  <2>6. SuccessHasResult'
    BY <1>0, <2>1 DEF SuccessHasResult, Successes
  <2> QED BY <2>2, <2>3, <2>4, <2>5, <2>6
<1> QED BY <1>1, <1>2 DEF Write

LEMMA GiveUpKeeps == ASSUME IInv, NEW q \in Requests, GiveUp(q) PROVE IInv'
<1> USE RunsAssumption DEF IInv, GiveUp, job, history
<1>1. TypeOK'
  BY DEF TypeOK, Held, NoRequest, Statuses
<1>2. RequestInv' /\ JobInv' /\ FlushedInv' /\ RacedInv' /\ CreditInv'
  BY DEF RequestInv, JobInv, FlushedInv, RacedInv, CreditInv, InHand, Held
<1>3. SuccessHasResult' /\ RunsAsAsked'
  BY DEF SuccessHasResult, RunsAsAsked
<1> QED BY <1>1, <1>2, <1>3

LEMMA StutterKeeps == ASSUME IInv, UNCHANGED vars PROVE IInv'
<1> USE DEF IInv, vars, job, history
<1>1. TypeOK' /\ RequestInv' /\ JobInv' /\ FlushedInv'
  BY DEF TypeOK, RequestInv, JobInv, FlushedInv, Held
<1>2. CreditInv' /\ RacedInv' /\ SuccessHasResult' /\ RunsAsAsked'
  BY DEF CreditInv, InHand, RacedInv, SuccessHasResult, RunsAsAsked, Held
<1> QED BY <1>1, <1>2

-----------------------------------------------------------------------------
LEMMA StepHolds == IInv /\ [Next]_vars => IInv'
<1> SUFFICES ASSUME IInv, [Next]_vars PROVE IInv'
  OBVIOUS
<1>1. CASE Pass
  BY <1>1, SelectKeeps, LoadKeeps, BeginKeeps, ExecuteKeeps, CommitKeeps DEF Pass
<1>2. CASE PassFails
  BY <1>2, PassFailsKeeps
<1>3. CASE User
  BY <1>3, CreateKeeps, AskKeeps, WriteKeeps, GiveUpKeeps DEF User
<1>4. CASE UNCHANGED vars
  BY <1>4, StutterKeeps
<1> QED BY <1>1, <1>2, <1>3, <1>4 DEF Next

LEMMA Invariant == Spec => []IInv
BY InitHolds, StepHolds, PTL DEF Spec

(***************************************************************************)
(* The types, and that nothing is held between two passes.                 *)
(***************************************************************************)
THEOREM TypeCorrect == Spec => []TypeOK
<1>1. IInv => TypeOK
  BY DEF IInv
<1> QED BY <1>1, Invariant, PTL

(***************************************************************************)
(* A success is shown only with the rows and the export of one execution,  *)
(* whichever step of an execution fails (process_run 600-643).             *)
(***************************************************************************)
THEOREM ResultShown == Spec => []SuccessHasResult
<1>1. IInv => SuccessHasResult
  BY DEF IInv
<1> QED BY <1>1, Invariant, PTL

(***************************************************************************)
(* No interleaving of retries, cancels, rolled back passes and restarts    *)
(* makes the job execute a run more often than it was queued.              *)
(***************************************************************************)
THEOREM ExecutedAsAsked == Spec => []RunsAsAsked
<1>1. IInv => RunsAsAsked
  BY DEF IInv
<1> QED BY <1>1, Invariant, PTL

(***************************************************************************)
(* The job never replaces a cancel by a result unless it had loaded the    *)
(* run before the cancel was committed.                                    *)
(***************************************************************************)
THEOREM CancelWins == Spec => CancelInTimeWins
<1> DEFINE Wins == \A r \in Runs :
                     (row[r].status = "cancelled"
                        /\ row'[r].status \in Successes \cup {"failed"}) => r \in raced
<1>1. IInv /\ [Next]_vars => [Wins]_vars
  <2> SUFFICES ASSUME IInv, Next, NEW r \in Runs, row[r].status = "cancelled",
                      row'[r].status \in Successes \cup {"failed"}
               PROVE  r \in raced
    OBVIOUS
  <2>1. CASE CommitPass
    BY <2>1, CommitEffect DEF IInv, RacedInv, Successes
  <2>2. CASE \E p \in Runs : CreateRun(p)
    BY <2>2 DEF CreateRun, IInv, TypeOK, Row, Successes
  <2>3. CASE \E q \in Requests : Write(q)
    BY <2>3 DEF Write, Target, IInv, TypeOK, Row, Successes
  <2>4. CASE row' = row
    BY <2>4 DEF Successes
  <2> QED BY <2>1, <2>2, <2>3, <2>4
      DEF Next, Pass, User, Select, Load, Begin, Execute, PassFails, AskFor, GiveUp
<1> QED BY <1>1, Invariant, PTL DEF Spec, CancelInTimeWins

-----------------------------------------------------------------------------
(***************************************************************************)
(* The queue implements StockRunBoard.  A pass has in hand only runs that  *)
(* are queued or were cancelled behind its back (PlaceInv); what it holds  *)
(* of a run is, until its execution, the result shown, and afterwards one  *)
(* that may follow it, since executions are numbered (FollowsInv); and a   *)
(* request in flight is about a run that exists (OpenInv).                 *)
(***************************************************************************)
PlaceInv ==
    \A r \in Runs : (r \in todo \/ r = cur \/ Held(r)) =>
        row[r].status \in {"queued", "cancelled"}

FollowsInv ==
    \A r \in Runs :
        /\ row[r].rows <= started
        /\ Held(r) => mem[r].rows <= started
        /\ (pc = "execute" /\ r = cur) =>
             mem[r].rows = row[r].rows /\ mem[r].export = row[r].export
        /\ (Held(r) /\ ~(pc = "execute" /\ r = cur)) => RunBoard!Result(row[r], mem[r])

OpenInv == \A q \in Requests : request[q] # NoRequest => row[request[q].run].status # "absent"

BoardInv == PlaceInv /\ FollowsInv /\ OpenInv

LEMMA BoardInvInit == Init => BoardInv
<1> SUFFICES ASSUME Init PROVE BoardInv
  OBVIOUS
<1>1. PlaceInv
  BY RunsAssumption DEF Init, PlaceInv, Held, NotHeld
<1>2. FollowsInv
  BY DEF Init, FollowsInv, Held, NotHeld, Absent
<1>3. OpenInv
  BY DEF Init, OpenInv
<1> QED BY <1>1, <1>2, <1>3 DEF BoardInv

\* What the numbering of executions makes of an outcome.
LEMMA OutcomeFollows ==
    ASSUME NEW m \in [status : Statuses \cup {"none", "running"}, rows : Nat, export : Nat],
           NEW old \in Row, m.rows = old.rows, m.export = old.export,
           NEW n \in Nat, old.rows < n, NEW o \in Outcomes(m, n)
    PROVE  RunBoard!Result(old, o) /\ o.rows <= n
<1>0. old.rows \in Nat
  BY DEF Row
<1>1. CASE \E s \in Successes : o = [status |-> s, rows |-> n, export |-> n]
  BY <1>0, <1>1 DEF Successes, RunBoard!Result, RunBoard!Successes
<1>2. CASE o = [m EXCEPT !.status = "failed"]
  BY <1>0, <1>2 DEF RunBoard!Result
<1>3. CASE \E e \in {m.export, 0} : o = [status |-> "failed", rows |-> n, export |-> e]
  BY <1>0, <1>3 DEF RunBoard!Result
<1> QED BY <1>1, <1>2, <1>3 DEF Outcomes, Computed

\* A result that may follow a run does so whatever the run's status.
LEMMA StatusForgotten ==
    ASSUME NEW old, NEW now, now.rows = old.rows, now.export = old.export,
           NEW o, RunBoard!Result(old, o)
    PROVE  RunBoard!Result(now, o)
BY DEF RunBoard!Result

LEMMA JobKeepsBoard ==
    ASSUME IInv, BoardInv, Select \/ (\E r \in Runs : Load(r)) \/ Begin
    PROVE  BoardInv'
<1> USE RunsAssumption DEF IInv, BoardInv, history
<1>1. CASE Select
  <2>1. \A r \in Selected : row[r].status = "queued"
    BY DEF Selected, Waiting
  <2>2. PlaceInv'
    BY <1>1, <2>1 DEF Select, PlaceInv, Held
  <2>3. FollowsInv' /\ OpenInv'
    BY <1>1 DEF Select, FollowsInv, OpenInv, Held
  <2> QED BY <2>2, <2>3
<1>2. ASSUME NEW r \in Runs, Load(r) PROVE BoardInv'
  <2>1. PlaceInv'
    BY <1>2 DEF Load, Turn, Skipped, PlaceInv, Held
  <2>2. FollowsInv' /\ OpenInv'
    BY <1>2 DEF Load, Turn, FollowsInv, OpenInv, Held
  <2> QED BY <2>1, <2>2
<1>3. CASE Begin
  <2>1. /\ cur \in Runs /\ pc = "begin" /\ pc' = "execute" /\ cur' = cur
        /\ UNCHANGED <<row, todo, started, request>>
    BY <1>3 DEF Begin, JobInv
  <2>2. /\ mem'[cur].rows = row[cur].rows /\ mem'[cur].export = row[cur].export
        /\ \A r \in Runs \ {cur} : mem'[r] = mem[r]
    BY <1>3, <2>1 DEF Begin, TypeOK, Row
  <2>3. PlaceInv' /\ OpenInv'
    BY <2>1, <2>2 DEF PlaceInv, OpenInv, Held
  <2>4. FollowsInv'
    <3> SUFFICES ASSUME NEW r \in Runs
                 PROVE  /\ row[r].rows <= started
                        /\ Held(r)' => mem'[r].rows <= started
                        /\ r = cur => mem'[r].rows = row[r].rows /\ mem'[r].export = row[r].export
                        /\ (Held(r)' /\ r # cur) => RunBoard!Result(row[r], mem'[r])
      BY <2>1 DEF FollowsInv
    <3>1. CASE r = cur
      BY <2>2, <3>1 DEF FollowsInv
    <3>2. CASE r # cur
      BY <2>1, <2>2, <3>2 DEF FollowsInv, Held
    <3> QED BY <3>1, <3>2
  <2> QED BY <2>3, <2>4
<1> QED BY <1>1, <1>2, <1>3

LEMMA ExecuteKeepsBoard == ASSUME IInv, BoardInv, Execute PROVE BoardInv'
<1> USE RunsAssumption DEF IInv, BoardInv, history
<1>1. /\ cur \in Runs /\ pc = "execute" /\ pc' = "pass" /\ cur' = NoRun /\ started \in Nat
      /\ started' = started + 1 /\ UNCHANGED <<row, todo, request>>
  BY DEF Execute, JobInv, TypeOK
<1>2. PICK o \in Outcomes(mem[cur], started + 1) : mem' = [mem EXCEPT ![cur] = o]
  BY DEF Execute
<1>3. RunBoard!Result(row[cur], o) /\ o.rows <= started + 1
  <2>1. /\ mem[cur] \in [status : Statuses \cup {"none", "running"}, rows : Nat, export : Nat]
        /\ row[cur] \in Row /\ row[cur].rows \in Nat
    BY <1>1 DEF TypeOK, Row
  <2>2. /\ mem[cur].rows = row[cur].rows /\ mem[cur].export = row[cur].export
        /\ row[cur].rows < started + 1
    BY <1>1, <2>1 DEF FollowsInv
  <2> QED BY <1>1, <1>2, <2>1, <2>2, OutcomeFollows
<1>4. mem'[cur] = o /\ \A r \in Runs \ {cur} : mem'[r] = mem[r]
  BY <1>1, <1>2 DEF TypeOK
<1>5. PlaceInv' /\ OpenInv'
  BY <1>1, <1>4 DEF PlaceInv, OpenInv, Held
<1>6. FollowsInv'
  <2> SUFFICES ASSUME NEW r \in Runs
               PROVE  /\ row[r].rows <= started + 1
                      /\ Held(r)' => /\ mem'[r].rows <= started + 1
                                     /\ RunBoard!Result(row[r], mem'[r])
    BY <1>1 DEF FollowsInv
  <2>1. row[r].rows \in Nat /\ mem[r].rows \in Nat /\ row[r].rows <= started
    BY DEF TypeOK, Row, FollowsInv
  <2>2. CASE r = cur
    BY <1>1, <1>3, <1>4, <2>1, <2>2
  <2>3. CASE r # cur
    <3>1. mem'[r] = mem[r]
      BY ONLY <1>4, <2>3, r \in Runs
    <3>2. row[r].rows <= started + 1
      BY ONLY <1>1, <2>1
    <3>3. Held(r) => mem[r].rows <= started /\ RunBoard!Result(row[r], mem[r])
      BY <2>3 DEF FollowsInv
    <3>4. Held(r) => mem[r].rows <= started + 1
      BY ONLY <1>1, <2>1, <3>3
    <3> QED BY <3>1, <3>2, <3>3, <3>4 DEF Held
  <2> QED BY <2>2, <2>3
<1> QED BY <1>5, <1>6

LEMMA CommitKeepsBoard == ASSUME IInv, BoardInv, CommitPass \/ PassFails PROVE BoardInv'
<1> USE RunsAssumption DEF IInv, BoardInv, history
<1>1. /\ pc' = "idle" /\ todo' = {} /\ cur' = NoRun /\ UNCHANGED <<started, request>>
      /\ \A r \in Runs : ~Held(r)'
  BY DEF CommitPass, PassFails, JobInv, Held, NotHeld
<1>2. PlaceInv'
  BY <1>1 DEF PlaceInv
<1>3. CASE PassFails
  BY <1>1, <1>2, <1>3 DEF PassFails, FollowsInv, OpenInv
<1>4. CASE CommitPass
  <2>1. \A r \in Runs : row'[r].rows <= started
    BY <1>4, CommitEffect DEF FollowsInv
  <2>2. \A r \in Runs : row[r].status # "absent" => row'[r].status # "absent"
    BY <1>4, CommitEffect DEF Successes
  <2>3. OpenInv'
    BY <1>1, <2>2 DEF OpenInv, RequestInv
  <2> QED BY <1>1, <1>2, <2>1, <2>3 DEF FollowsInv
<1> QED BY <1>3, <1>4

\* Users change the status of one run, which the pass does not hold, and nothing else
\* that counts here.
LEMMA StatusKeepsBoard ==
    ASSUME IInv, BoardInv, NEW r \in Runs, NEW s \in {"queued", "cancelled"},
           row' = [row EXCEPT ![r].status = s], UNCHANGED <<pc, todo, cur, mem, started>>,
           \A q \in Requests : request'[q] \in {request[q], NoRequest}
    PROVE  BoardInv'
<1> USE DEF IInv, BoardInv
<1>1. \A p \in Runs : /\ row'[p].rows = row[p].rows /\ row'[p].export = row[p].export
                      /\ row'[p].status \in {row[p].status, s}
  BY DEF TypeOK, Row
<1>2. PlaceInv'
  BY <1>1 DEF PlaceInv, Held
<1>3. FollowsInv'
  BY <1>1, StatusForgotten DEF FollowsInv, Held
<1>4. OpenInv'
  <2> SUFFICES ASSUME NEW q \in Requests, request'[q] # NoRequest
               PROVE  row'[request'[q].run].status # "absent"
    BY DEF OpenInv
  <2>1. request'[q] = request[q] /\ request[q].run \in Runs
    BY DEF RequestInv
  <2> QED BY <1>1, <2>1 DEF OpenInv
<1> QED BY <1>2, <1>3, <1>4

LEMMA UserKeepsBoard == ASSUME IInv, BoardInv, User PROVE BoardInv'
<1>1. ASSUME NEW r \in Runs, CreateRun(r) PROVE BoardInv'
  BY <1>1, StatusKeepsBoard DEF CreateRun, job
<1>2. ASSUME NEW q \in Requests, NEW op \in {"retry", "cancel"}, NEW r \in Runs, AskFor(q, op, r)
      PROVE  BoardInv'
  <2>1. PlaceInv' /\ FollowsInv'
    BY <1>2 DEF AskFor, job, BoardInv, PlaceInv, FollowsInv, Held
  <2>2. OpenInv'
    BY <1>2 DEF AskFor, BoardInv, OpenInv, IInv, TypeOK
  <2> QED BY <2>1, <2>2 DEF BoardInv
<1>3. ASSUME NEW q \in Requests, Write(q) \/ GiveUp(q) PROVE BoardInv'
  <2>1. /\ \A p \in Requests : request'[p] \in {request[p], NoRequest}
        /\ UNCHANGED <<pc, todo, cur, mem, started>>
    BY <1>3 DEF Write, GiveUp, job, IInv, TypeOK
  <2>2. CASE UNCHANGED row
    BY <2>1, <2>2 DEF BoardInv, PlaceInv, FollowsInv, OpenInv, Held
  <2>3. CASE row' = [row EXCEPT ![request[q].run].status = Target(request[q].op)] /\ Write(q)
    <3>1. request[q].run \in Runs /\ Target(request[q].op) \in {"queued", "cancelled"}
      BY <2>3 DEF Write, IInv, RequestInv, Target
    <3> QED BY <2>1, <2>3, <3>1, StatusKeepsBoard
  <2> QED BY <1>3, <2>2, <2>3 DEF Write, GiveUp
<1> QED BY <1>1, <1>2, <1>3 DEF User

LEMMA BoardInvStep == IInv /\ BoardInv /\ [Next]_vars => IInv' /\ BoardInv'
<1> SUFFICES ASSUME IInv, BoardInv, [Next]_vars PROVE IInv' /\ BoardInv'
  OBVIOUS
<1>0. IInv'
  BY StepHolds
<1>1. CASE Pass
  BY <1>0, <1>1, JobKeepsBoard, ExecuteKeepsBoard, CommitKeepsBoard DEF Pass
<1>2. CASE PassFails \/ User
  BY <1>0, <1>2, CommitKeepsBoard, UserKeepsBoard
<1>3. CASE UNCHANGED vars
  BY <1>0, <1>3 DEF vars, job, BoardInv, PlaceInv, FollowsInv, OpenInv, Held
<1> QED BY <1>1, <1>2, <1>3 DEF Next

\* A commit of a pass publishes what it holds.
LEMMA PublishesHeld ==
    ASSUME IInv, BoardInv, CommitPass, NEW done, done = {r \in Runs : Held(r)}
    PROVE  RunBoard!Publish(done)
<1> DEFINE due == [r \in Runs |-> asked[r] - executed[r]]
<1>1. \A r \in done : due[r] > 0 /\ row[r].status \in {"queued", "cancelled"}
  BY DEF IInv, TypeOK, CreditInv, InHand, BoardInv, PlaceInv
<1>2. \A r \in done : RunBoard!Result(row[r], row'[r])
  <2>1. pc # "execute"
    BY DEF CommitPass
  <2> QED BY <2>1, CommitEffect DEF BoardInv, FollowsInv
<1>3. \A r \in Runs \ done : row'[r] = row[r]
  BY CommitEffect
<1>4. DOMAIN row' = Runs
  BY Zenon DEF CommitPass
<1>5. \A r \in Runs : asked'[r] - executed'[r] = IF r \in done THEN due[r] - 1 ELSE due[r]
  BY CommitEffect DEF CommitPass, IInv, TypeOK
<1>6. due' = [r \in Runs |-> IF r \in done THEN due[r] - 1 ELSE due[r]]
  BY <1>5
<1> QED BY <1>1, <1>2, <1>3, <1>4, <1>6 DEF RunBoard!Publish

LEMMA BoardSteps ==
    /\ \A r \in Runs :
         RunBoard!Create(r) \/ RunBoard!Retry(r) \/ RunBoard!Cancel(r) => RunBoard!Next
    /\ \A done \in SUBSET Runs : RunBoard!Publish(done) => RunBoard!Next
BY DEF RunBoard!Next

LEMMA RunBoardStep ==
    IInv /\ BoardInv /\ [Next]_vars
      => [RunBoard!Next]_<<row, [r \in Runs |-> asked[r] - executed[r]]>>
<1> DEFINE owed == [r \in Runs |-> asked[r] - executed[r]]
<1> SUFFICES ASSUME IInv, BoardInv, [Next]_vars PROVE RunBoard!Next \/ UNCHANGED <<row, owed>>
  OBVIOUS
<1>1. CASE UNCHANGED <<row, asked, executed>>
  BY <1>1
<1>2. ASSUME NEW r \in Runs, asked' = [asked EXCEPT ![r] = @ + 1], executed' = executed
      PROVE  owed' = [owed EXCEPT ![r] = @ + 1]
  <2>1. \A p \in Runs : owed'[p] = IF p = r THEN owed[p] + 1 ELSE owed[p]
    BY <1>2 DEF IInv, TypeOK
  <2> QED BY <2>1
<1>3. ASSUME NEW r \in Runs, CreateRun(r) PROVE RunBoard!Next
  <2>1. owed' = [owed EXCEPT ![r] = @ + 1]
    BY <1>2, <1>3 DEF CreateRun
  <2>2. RunBoard!Create(r)
    BY <1>3, <2>1 DEF CreateRun, RunBoard!Create, RunBoard!Mark
  <2> QED BY <2>2, BoardSteps
<1>4. ASSUME NEW q \in Requests, Write(q) PROVE RunBoard!Next \/ UNCHANGED <<row, owed>>
  <2>0. request[q].run \in Runs /\ Target(request[q].op) \in {"queued", "cancelled"}
    BY <1>4 DEF Write, IInv, RequestInv, Target
  <2> PICK r \in Runs : r = request[q].run
    BY <2>0
  <2> PICK s \in {"queued", "cancelled"} : s = Target(request[q].op)
    BY <2>0
  <2>1. row[r].status # "absent" /\ executed' = executed
    BY <1>4 DEF Write, BoardInv, OpenInv
  <2>2. CASE UNCHANGED <<row, asked>>
    BY <1>1, <2>1, <2>2
  <2>3. CASE /\ row' = [row EXCEPT ![r].status = s]
             /\ asked' = [asked EXCEPT ![r] = @ + (IF s = "queued" THEN 1 ELSE 0)]
    <3>1. CASE s = "queued"
      <4>1. asked' = [asked EXCEPT ![r] = @ + 1]
        BY <2>3, <3>1
      <4>2. RunBoard!Retry(r)
        BY <1>2, <2>1, <2>3, <3>1, <4>1 DEF RunBoard!Retry, RunBoard!Mark
      <4> QED BY <4>2, BoardSteps
    <3>2. CASE s = "cancelled"
      <4>1. \A p \in Runs : asked'[p] = asked[p]
        BY <2>3, <3>2 DEF IInv, TypeOK
      <4>2. owed' = owed
        BY <2>1, <4>1
      <4>3. RunBoard!Cancel(r)
        BY <2>1, <2>3, <3>2, <4>2 DEF RunBoard!Cancel, RunBoard!Mark
      <4> QED BY <4>3, BoardSteps
    <3> QED BY <2>1, <3>1, <3>2
  <2> QED BY <1>4, <2>2, <2>3 DEF Write
<1>5. CASE CommitPass
  <2>1. PICK done \in SUBSET Runs : done = {r \in Runs : Held(r)}
    OBVIOUS
  <2> QED BY <1>5, <2>1, PublishesHeld, BoardSteps
<1>6. ASSUME Next, ~CommitPass, \A r \in Runs : ~CreateRun(r), \A q \in Requests : ~Write(q)
      PROVE  UNCHANGED <<row, asked, executed>>
  BY <1>6 DEF Next, Pass, PassFails, User, Select, Load, Begin, Execute, AskFor, GiveUp, history
<1>7. CASE UNCHANGED vars
  BY <1>1, <1>7 DEF vars, history
<1> QED BY <1>1, <1>3, <1>4, <1>5, <1>6, <1>7

(***************************************************************************)
(* Every step of the job, of the users and of failures is, to those who    *)
(* read the table of runs, a step of StockRunBoard or none.                *)
(***************************************************************************)
THEOREM RunsRefineBoard == Spec => ImplementsRunBoard
<1>1. Init => RunBoard!Init
  BY DEF Init, RunBoard!Init, Absent
<1>2. IInv /\ BoardInv /\ [Next]_vars
        => [RunBoard!Next]_<<row, [r \in Runs |-> asked[r] - executed[r]]>>
  BY RunBoardStep
<1> QED BY <1>1, <1>2, InitHolds, BoardInvInit, BoardInvStep, PTL
        DEF Spec, ImplementsRunBoard, RunBoard!Spec

-----------------------------------------------------------------------------
(***************************************************************************)
(* Sums. A sum is a fold over a finite set, one element after another; the *)
(* lemmas that follow say what it does not depend on. Inductions are made  *)
(* by smallest counterexamples.                                            *)
(***************************************************************************)

Sum(f, S) == SumFunctionOnSet(f, S)
Pick(s) == CHOOSE x \in s : TRUE

\* How a fold is defined: by a function on all subsets.
Sums(f, D, g) == g = [s \in D |-> IF s = {} THEN 0 ELSE f[Pick(s)] + g[s \ {Pick(s)}]]

LEMMA SumIs == ASSUME NEW f, NEW S PROVE SumFunctionOnSet(f, S) = (CHOOSE g : Sums(f, SUBSET S, g))[S]
BY DEF SumFunctionOnSet, FoldFunctionOnSet, MapThenFoldSet, Sums, Pick

\* A set of subsets of a finite set has a smallest member.
LEMMA Smallest ==
    ASSUME NEW S, IsFiniteSet(S), NEW B, B \subseteq SUBSET S, B # {}
    PROVE  \E T \in B : \A U \in B : U \subseteq T => U = T
<1>1. IsWellFoundedOn(StrictSubsetOrdering(S), FiniteSubsetsOf(S))
  BY FS_StrictSubsetOrderingWellFounded
<1>2. B \subseteq FiniteSubsetsOf(S)
  BY FS_FiniteSubsetsOfFinite
<1>3. PICK T \in B : \A U \in B : ~(<<U, T>> \in StrictSubsetOrdering(S))
  BY <1>1, <1>2, WFMin
<1> QED BY <1>3 DEF StrictSubsetOrdering

\* Two folds agree where both are defined.
LEMMA SumsAgree ==
    ASSUME NEW f, NEW S, IsFiniteSet(S), NEW T, NEW g, NEW h,
           Sums(f, SUBSET S, g), Sums(f, SUBSET T, h), NEW s \in SUBSET S, s \in SUBSET T
    PROVE  g[s] = h[s]
<1> DEFINE B == {u \in SUBSET S : u \in SUBSET T /\ g[u] # h[u]}
<1> SUFFICES ASSUME B # {} PROVE FALSE
  OBVIOUS
<1>1. PICK u \in B : \A v \in B : v \subseteq u => v = u
  <2>1. B \subseteq SUBSET S
    OBVIOUS
  <2> HIDE DEF B
  <2> QED BY <2>1, Smallest
<1>2. u # {}
  BY DEF Sums
<1>3. Pick(u) \in u
  BY <1>2 DEF Pick
<1>4. g[u \ {Pick(u)}] = h[u \ {Pick(u)}]
  BY <1>1, <1>3
<1>5. g[u] = f[Pick(u)] + g[u \ {Pick(u)}] /\ h[u] = f[Pick(u)] + h[u \ {Pick(u)}]
  BY <1>2 DEF Sums
<1> QED BY <1>4, <1>5

\* A fold is defined for every finite set: were T a smallest one for which it is not, it
\* would be made of those of the proper subsets of T.
LEMMA SumsExist ==
    ASSUME NEW f, NEW S, IsFiniteSet(S)
    PROVE  \E g : Sums(f, SUBSET S, g)
<1> DEFINE Has(T) == \E g : Sums(f, SUBSET T, g)
           B == {T \in SUBSET S : ~Has(T)}
<1> SUFFICES ASSUME B # {} PROVE FALSE
  OBVIOUS
<1>1. PICK T \in B : \A v \in B : v \subseteq T => v = T
  <2>1. B \subseteq SUBSET S
    OBVIOUS
  <2> HIDE DEF B
  <2> QED BY <2>1, Smallest
<1>2. \A U \in SUBSET T : U # T => Has(U)
  BY <1>1
<1> DEFINE G(U) == CHOOSE g : Sums(f, SUBSET U, g)
<1>3. \A U \in SUBSET T : U # T => Sums(f, SUBSET U, G(U))
  BY <1>2
<1>4. IsFiniteSet(T) /\ \A U \in SUBSET T : IsFiniteSet(U)
  BY FS_Subset
<1> DEFINE g == [s \in SUBSET T |-> IF s = {} THEN 0 ELSE f[Pick(s)] + G(s \ {Pick(s)})[s \ {Pick(s)}]]
<1>5. ASSUME NEW U \in SUBSET T, U # T PROVE g[U] = G(U)[U]
  <2>1. CASE U = {}
    <3>1. Sums(f, SUBSET U, G(U))
      BY <1>3, <1>5
    <3>2. G(U)[U] = 0
      <4> HIDE DEF G
      <4> QED BY <2>1, <3>1 DEF Sums
    <3>3. g[U] = 0
      BY <2>1
    <3> QED BY <3>2, <3>3
  <2>2. CASE U # {}
    <3> DEFINE V == U \ {Pick(U)}
    <3>1. Pick(U) \in U /\ V \in SUBSET T /\ V # T /\ V \in SUBSET U
      BY <1>5, <2>2 DEF Pick
    <3>2. Sums(f, SUBSET U, G(U)) /\ Sums(f, SUBSET V, G(V))
      BY <1>3, <1>5, <3>1
    <3>3. G(U)[V] = G(V)[V]
      <4> HIDE DEF G, V
      <4> QED BY <1>4, <3>1, <3>2, SumsAgree
    <3>4. G(U)[U] = f[Pick(U)] + G(U)[V]
      BY <2>2, <3>2 DEF Sums
    <3> QED BY <2>2, <3>3, <3>4
  <2> QED BY <2>1, <2>2
<1>6. Sums(f, SUBSET T, g)
  <2>1. ASSUME NEW s \in SUBSET T, s # {} PROVE g[s \ {Pick(s)}] = G(s \ {Pick(s)})[s \ {Pick(s)}]
    <3>1. Pick(s) \in s
      BY <2>1 DEF Pick
    <3>2. s \ {Pick(s)} \in SUBSET T /\ s \ {Pick(s)} # T
      BY <2>1, <3>1
    <3> HIDE DEF G, g
    <3> QED BY <1>5, <3>2
  <2>2. g = [s \in SUBSET T |-> IF s = {} THEN 0 ELSE f[Pick(s)] + g[s \ {Pick(s)}]]
    <3> DEFINE g2 == [s \in SUBSET T |-> IF s = {} THEN 0 ELSE f[Pick(s)] + g[s \ {Pick(s)}]]
    <3>1. ASSUME NEW s \in SUBSET T PROVE g[s] = g2[s]
      <4>1. CASE s = {}
        BY <4>1
      <4>2. CASE s # {}
        <5>1. g[s] = f[Pick(s)] + G(s \ {Pick(s)})[s \ {Pick(s)}]
          BY <4>2
        <5>2. g2[s] = f[Pick(s)] + g[s \ {Pick(s)}]
          <6> HIDE DEF g
          <6> QED BY <4>2
        <5> QED
          <6> HIDE DEF g, g2, G
          <6> QED BY <2>1, <4>2, <5>1, <5>2
      <4> QED BY <4>1, <4>2
    <3>2. DOMAIN g = SUBSET T /\ DOMAIN g2 = SUBSET T /\ g = [s \in SUBSET T |-> g[s]]
          /\ g2 = [s \in SUBSET T |-> g2[s]]
      OBVIOUS
    <3> HIDE DEF g
    <3> QED BY <3>1, <3>2
  <2> HIDE DEF g
  <2> QED BY <2>2 DEF Sums
<1> HIDE DEF g, G
<1> QED BY <1>1, <1>6

LEMMA SumUnfolds ==
    ASSUME NEW f, NEW S, IsFiniteSet(S)
    PROVE  /\ S = {} => Sum(f, S) = 0
           /\ S # {} => Pick(S) \in S /\ Sum(f, S) = f[Pick(S)] + Sum(f, S \ {Pick(S)})
<1> DEFINE G(U) == CHOOSE g : Sums(f, SUBSET U, g)
<1>1. \A U \in SUBSET S : IsFiniteSet(U)
  BY FS_Subset
<1>2. \A U \in SUBSET S : Sums(f, SUBSET U, G(U))
  BY <1>1, SumsExist
<1>3. \A U \in SUBSET S : Sum(f, U) = G(U)[U]
  BY SumIs DEF Sum
<1>4. CASE S = {}
  <2>1. Sums(f, SUBSET S, G(S))
    BY <1>2
  <2> HIDE DEF G
  <2>2. G(S)[S] = 0
    BY <1>4, <2>1 DEF Sums
  <2> QED BY <1>3, <1>4, <2>2
<1>5. CASE S # {}
  <2>1. Pick(S) \in S
    BY <1>5 DEF Pick
  <2>2. Sums(f, SUBSET S, G(S)) /\ Sums(f, SUBSET (S \ {Pick(S)}), G(S \ {Pick(S)}))
    BY <1>2
  <2> HIDE DEF G
  <2>3. G(S)[S \ {Pick(S)}] = G(S \ {Pick(S)})[S \ {Pick(S)}]
    <3> DEFINE V == S \ {Pick(S)}
    <3>1. V \in SUBSET S /\ V \in SUBSET V
      OBVIOUS
    <3>2. Sums(f, SUBSET S, G(S)) /\ Sums(f, SUBSET V, G(V))
      BY <2>2
    <3>3. G(S)[V] = G(V)[V]
      <4> HIDE DEF V
      <4> QED BY <3>1, <3>2, SumsAgree
    <3> QED BY <3>3
  <2>4. G(S)[S] = f[Pick(S)] + G(S)[S \ {Pick(S)}]
    BY <1>5, <2>2 DEF Sums
  <2> QED BY <1>3, <1>5, <2>1, <2>3, <2>4
<1> QED BY <1>4, <1>5

\* Induction over a finite set, for a set B of subsets.
LEMMA SubsetInduction ==
    ASSUME NEW S, IsFiniteSet(S), NEW B, B \subseteq SUBSET S, {} \in B,
           \A U \in B : \A x \in S \ U : U \cup {x} \in B
    PROVE  S \in B
<1> SUFFICES ASSUME S \notin B PROVE FALSE
  OBVIOUS
<1> DEFINE M == (SUBSET S) \ B
<1>1. M \subseteq SUBSET S /\ M # {}
  OBVIOUS
<1>2. PICK T \in M : \A U \in M : U \subseteq T => U = T
  <2> HIDE DEF M
  <2> QED BY <1>1, Smallest
<1>3. PICK x \in T : TRUE
  BY <1>2
<1>4. T \ {x} \in B
  BY <1>2, <1>3
<1>5. T = (T \ {x}) \cup {x} /\ x \in S \ (T \ {x})
  BY <1>2, <1>3
<1>6. (T \ {x}) \cup {x} \in B
  <2> DEFINE V == T \ {x}
  <2>1. V \in B /\ x \in S \ V
    BY <1>4, <1>5
  <2> HIDE DEF V, M
  <2>2. V \cup {x} \in B
    BY <2>1
  <2> QED BY <2>2 DEF V
<1> QED BY <1>2, <1>5, <1>6

LEMMA SumType ==
    ASSUME NEW S, IsFiniteSet(S), NEW f
    PROVE  /\ (\A x \in S : f[x] \in Int) => Sum(f, S) \in Int
           /\ (\A x \in S : f[x] \in Nat) => Sum(f, S) \in Nat
<1>1. ASSUME NEW N, 0 \in N, \A a, b \in N : a + b \in N, \A x \in S : f[x] \in N
      PROVE  Sum(f, S) \in N
  <2> DEFINE M == {U \in SUBSET S : Sum(f, U) \notin N}
  <2> SUFFICES ASSUME M # {} PROVE FALSE
    OBVIOUS
  <2>1. PICK T \in M : \A U \in M : U \subseteq T => U = T
    <3>1. M \subseteq SUBSET S
      OBVIOUS
    <3> HIDE DEF M
    <3> QED BY <3>1, Smallest
  <2>2. IsFiniteSet(T)
    BY FS_Subset
  <2>3. T # {} /\ Pick(T) \in T /\ Sum(f, T) = f[Pick(T)] + Sum(f, T \ {Pick(T)})
    BY <1>1, <2>1, <2>2, SumUnfolds
  <2>4. Sum(f, T \ {Pick(T)}) \in N
    BY <2>1, <2>3
  <2> QED BY <1>1, <2>1, <2>3, <2>4
<1>2. (\A x \in S : f[x] \in Int) => Sum(f, S) \in Int
  <2>1. 0 \in Int /\ \A a, b \in Int : a + b \in Int
    OBVIOUS
  <2> QED BY <1>1, <2>1
<1>3. (\A x \in S : f[x] \in Nat) => Sum(f, S) \in Nat
  <2>1. 0 \in Nat /\ \A a, b \in Nat : a + b \in Nat
    OBVIOUS
  <2> QED BY <1>1, <2>1
<1> QED BY <1>2, <1>3

\* The order does not matter: any element may be taken out first.
LEMMA SumTakesOut ==
    ASSUME NEW S, IsFiniteSet(S), NEW f, \A x \in S : f[x] \in Int, NEW e \in S
    PROVE  Sum(f, S) = f[e] + Sum(f, S \ {e})
<1> DEFINE M == {U \in SUBSET S : \E x \in U : Sum(f, U) # f[x] + Sum(f, U \ {x})}
<1> SUFFICES ASSUME M # {} PROVE FALSE
  OBVIOUS
<1>1. PICK T \in M : \A U \in M : U \subseteq T => U = T
  <2>1. M \subseteq SUBSET S
    OBVIOUS
  <2> HIDE DEF M
  <2> QED BY <2>1, Smallest
<1>2. PICK x \in T : Sum(f, T) # f[x] + Sum(f, T \ {x})
  BY <1>1
<1>3. \A U \in SUBSET S : IsFiniteSet(U)
  BY FS_Subset
<1> DEFINE p == Pick(T)
<1>4. p \in T /\ Sum(f, T) = f[p] + Sum(f, T \ {p})
  BY <1>2, <1>3, SumUnfolds
<1>5. p # x
  BY <1>2, <1>4
<1> HIDE DEF p
<1>6. Sum(f, T \ {p}) = f[x] + Sum(f, (T \ {p}) \ {x})
  BY <1>1, <1>4, <1>5
<1>7. Sum(f, T \ {x}) = f[p] + Sum(f, (T \ {x}) \ {p})
  BY <1>1, <1>2, <1>4, <1>5
<1>8. (T \ {p}) \ {x} = (T \ {x}) \ {p}
  OBVIOUS
<1>9. f[x] \in Int /\ f[p] \in Int /\ Sum(f, (T \ {x}) \ {p}) \in Int
  <2>1. (T \ {x}) \ {p} \in SUBSET S
    BY <1>1
  <2>2. \A y \in (T \ {x}) \ {p} : f[y] \in Int
    BY <2>1
  <2> QED BY <1>3, <1>4, <2>1, <2>2, SumType
<1>10. Sum(f, T \ {p}) = f[x] + Sum(f, (T \ {x}) \ {p})
  BY <1>6, <1>8
<1> DEFINE z == Sum(f, (T \ {x}) \ {p})
<1> HIDE DEF z
<1>11. f[p] + (f[x] + z) = f[x] + (f[p] + z)
  BY <1>9 DEF z
<1> QED BY <1>2, <1>4, <1>7, <1>10, <1>11 DEF z

LEMMA SumOfNone == ASSUME NEW f PROVE Sum(f, {}) = 0
BY FS_EmptySet, SumUnfolds

\* One step of the inductions below.
LEMMA SumGrows ==
    ASSUME NEW S, IsFiniteSet(S), NEW f, \A x \in S : f[x] \in Int,
           NEW U \in SUBSET S, NEW x \in S \ U
    PROVE  Sum(f, U \cup {x}) = f[x] + Sum(f, U) /\ Sum(f, U) \in Int /\ f[x] \in Int
<1> DEFINE V == U \cup {x}
<1>1. IsFiniteSet(U) /\ IsFiniteSet(V) /\ x \in V /\ \A y \in V : f[y] \in Int
  BY FS_Subset
<1>2. V \ {x} = U
  OBVIOUS
<1>3. Sum(f, U) \in Int
  BY <1>1, SumType
<1> HIDE DEF V
<1>4. Sum(f, V) = f[x] + Sum(f, V \ {x})
  BY <1>1, SumTakesOut
<1> QED BY <1>2, <1>3, <1>4 DEF V

LEMMA SumAdds ==
    ASSUME NEW S, IsFiniteSet(S), NEW f, NEW g, NEW h,
           \A x \in S : f[x] \in Int /\ g[x] \in Int /\ h[x] = f[x] + g[x]
    PROVE  Sum(h, S) = Sum(f, S) + Sum(g, S)
<1> DEFINE B == {U \in SUBSET S : Sum(h, U) = Sum(f, U) + Sum(g, U)}
<1>1. {} \in B
  BY SumOfNone
<1>2. ASSUME NEW U \in B, NEW x \in S \ U PROVE U \cup {x} \in B
  <2>1. /\ Sum(f, U \cup {x}) = f[x] + Sum(f, U) /\ Sum(f, U) \in Int /\ f[x] \in Int
        /\ Sum(g, U \cup {x}) = g[x] + Sum(g, U) /\ Sum(g, U) \in Int /\ g[x] \in Int
        /\ Sum(h, U \cup {x}) = h[x] + Sum(h, U)
    <3>1. U \in SUBSET S /\ \A y \in S : f[y] \in Int /\ g[y] \in Int /\ h[y] \in Int
      OBVIOUS
    <3> HIDE DEF B
    <3>2. Sum(h, U \cup {x}) = h[x] + Sum(h, U)
      BY ONLY IsFiniteSet(S), <3>1, x \in S \ U, SumGrows
    <3>3. Sum(f, U \cup {x}) = f[x] + Sum(f, U) /\ Sum(f, U) \in Int /\ f[x] \in Int
      BY ONLY IsFiniteSet(S), <3>1, x \in S \ U, SumGrows
    <3>4. Sum(g, U \cup {x}) = g[x] + Sum(g, U) /\ Sum(g, U) \in Int /\ g[x] \in Int
      BY ONLY IsFiniteSet(S), <3>1, x \in S \ U, SumGrows
    <3> QED BY <3>2, <3>3, <3>4
  <2> QED BY <2>1
<1>3. B \subseteq SUBSET S
  OBVIOUS
<1>4. S \in B
  <2> HIDE DEF B
  <2> QED BY <1>1, <1>2, <1>3, SubsetInduction
<1> QED BY <1>4

LEMMA SumScales ==
    ASSUME NEW S, IsFiniteSet(S), NEW f, NEW h, NEW c \in Int,
           \A x \in S : f[x] \in Int /\ h[x] = c * f[x]
    PROVE  Sum(h, S) = c * Sum(f, S)
<1> DEFINE B == {U \in SUBSET S : Sum(h, U) = c * Sum(f, U)}
<1>1. {} \in B
  BY SumOfNone
<1>2. ASSUME NEW U \in B, NEW x \in S \ U PROVE U \cup {x} \in B
  <2>1. /\ Sum(f, U \cup {x}) = f[x] + Sum(f, U) /\ Sum(f, U) \in Int /\ f[x] \in Int
        /\ Sum(h, U \cup {x}) = h[x] + Sum(h, U)
    <3>1. U \in SUBSET S /\ \A y \in S : f[y] \in Int /\ h[y] \in Int
      OBVIOUS
    <3> HIDE DEF B
    <3>2. Sum(h, U \cup {x}) = h[x] + Sum(h, U)
      BY ONLY IsFiniteSet(S), <3>1, x \in S \ U, SumGrows
    <3>3. Sum(f, U \cup {x}) = f[x] + Sum(f, U) /\ Sum(f, U) \in Int /\ f[x] \in Int
      BY ONLY IsFiniteSet(S), <3>1, x \in S \ U, SumGrows
    <3> QED BY <3>2, <3>3
  <2>2. \A a, b \in Int : c * (a + b) = c * a + c * b
    OBVIOUS
  <2> QED BY <2>1, <2>2
<1>3. B \subseteq SUBSET S
  OBVIOUS
<1>4. S \in B
  <2> HIDE DEF B
  <2> QED BY <1>1, <1>2, <1>3, SubsetInduction
<1> QED BY <1>4

LEMMA SumOrders ==
    ASSUME NEW S, IsFiniteSet(S), NEW f, NEW g,
           \A x \in S : f[x] \in Int /\ g[x] \in Int /\ f[x] <= g[x]
    PROVE  Sum(f, S) <= Sum(g, S)
<1> DEFINE B == {U \in SUBSET S : Sum(f, U) <= Sum(g, U)}
<1>1. {} \in B
  BY SumOfNone
<1>2. ASSUME NEW U \in B, NEW x \in S \ U PROVE U \cup {x} \in B
  <2>1. /\ Sum(f, U \cup {x}) = f[x] + Sum(f, U) /\ Sum(f, U) \in Int /\ f[x] \in Int
        /\ Sum(g, U \cup {x}) = g[x] + Sum(g, U) /\ Sum(g, U) \in Int /\ g[x] \in Int
    <3>1. U \in SUBSET S /\ \A y \in S : f[y] \in Int /\ g[y] \in Int
      OBVIOUS
    <3> HIDE DEF B
    <3> QED BY <3>1, SumGrows
  <2> QED BY <2>1
<1>3. B \subseteq SUBSET S
  OBVIOUS
<1>4. S \in B
  <2> HIDE DEF B
  <2> QED BY <1>1, <1>2, <1>3, SubsetInduction
<1> QED BY <1>4

\* Two functions with the same sum, one nowhere above the other, are the same.
LEMMA SumEqual ==
    ASSUME NEW S, IsFiniteSet(S), NEW f, NEW g,
           \A x \in S : f[x] \in Int /\ g[x] \in Int /\ f[x] <= g[x],
           Sum(f, S) >= Sum(g, S), NEW x \in S
    PROVE  f[x] = g[x]
<1> DEFINE V == S \ {x}
<1>1. IsFiniteSet(V) /\ \A y \in V : f[y] \in Int /\ g[y] \in Int /\ f[y] <= g[y]
  BY FS_Subset
<1>2. Sum(f, S) = f[x] + Sum(f, V) /\ Sum(g, S) = g[x] + Sum(g, V)
  BY SumTakesOut
<1> HIDE DEF V
<1>3. Sum(f, V) <= Sum(g, V) /\ Sum(f, V) \in Int /\ Sum(g, V) \in Int
  BY <1>1, SumOrders, SumType
<1> QED BY <1>2, <1>3

\* The sum of the indicator of a set is its cardinality.
LEMMA SumCounts ==
    ASSUME NEW S, IsFiniteSet(S), NEW C \in SUBSET S, NEW f,
           \A x \in S : f[x] = IF x \in C THEN 1 ELSE 0
    PROVE  Sum(f, S) = Cardinality(C)
<1> DEFINE B == {U \in SUBSET S : Sum(f, U) = Cardinality(C \cap U)}
<1>1. {} \in B
  <2>1. C \cap {} = {}
    OBVIOUS
  <2> QED BY <2>1, SumOfNone, FS_EmptySet
<1>2. ASSUME NEW U \in B, NEW x \in S \ U PROVE U \cup {x} \in B
  <2>1. Sum(f, U \cup {x}) = f[x] + Sum(f, U) /\ Sum(f, U) \in Int /\ f[x] \in Int
    <3>1. U \in SUBSET S /\ \A y \in S : f[y] \in Int
      OBVIOUS
    <3> HIDE DEF B
    <3> QED BY <3>1, SumGrows
  <2>2. IsFiniteSet(C \cap U)
    BY FS_Subset
  <2>3. Cardinality(C \cap (U \cup {x})) = Cardinality(C \cap U) + f[x]
    <3>1. CASE x \in C
      <4>1. C \cap (U \cup {x}) = (C \cap U) \cup {x} /\ x \notin C \cap U
        BY <3>1
      <4> QED BY <2>2, <3>1, <4>1, FS_AddElement
    <3>2. CASE x \notin C
      <4>1. C \cap (U \cup {x}) = C \cap U /\ f[x] = 0
        BY <3>2
      <4>2. Cardinality(C \cap U) \in Nat
        BY <2>2, FS_CardinalityType
      <4>3. Cardinality(C \cap (U \cup {x})) = Cardinality(C \cap U)
        BY <4>1
      <4> QED BY <4>1, <4>2, <4>3
    <3> QED BY <3>1, <3>2
  <2> QED BY <2>1, <2>3
<1>3. B \subseteq SUBSET S
  OBVIOUS
<1>4. S \in B
  <2> HIDE DEF B
  <2> QED BY <1>1, <1>2, <1>3, SubsetInduction
<1>5. C \cap S = C
  OBVIOUS
<1> QED BY <1>4, <1>5

LEMMA SumOfOne ==
    ASSUME NEW S, IsFiniteSet(S), NEW f, NEW e \in S, f[e] \in Int,
           \A x \in S \ {e} : f[x] = 0
    PROVE  Sum(f, S) = f[e]
<1>1. \A x \in S : f[x] \in Int
  OBVIOUS
<1>2. IsFiniteSet(S \ {e}) /\ {} \in SUBSET (S \ {e})
  BY FS_Subset
<1>3. \A x \in S \ {e} : f[x] = IF x \in {} THEN 1 ELSE 0
  OBVIOUS
<1>4. Sum(f, S \ {e}) = Cardinality({})
  BY <1>2, <1>3, SumCounts
<1>5. Sum(f, S) = f[e] + Sum(f, S \ {e})
  BY <1>1, SumTakesOut
<1> QED BY <1>4, <1>5, FS_EmptySet

LEMMA SumOfZeros ==
    ASSUME NEW S, IsFiniteSet(S), NEW f, \A x \in S : f[x] = 0
    PROVE  Sum(f, S) = 0
<1>1. {} \in SUBSET S /\ \A x \in S : f[x] = IF x \in {} THEN 1 ELSE 0
  OBVIOUS
<1>2. Sum(f, S) = Cardinality({})
  BY <1>1, SumCounts
<1> QED BY <1>2, FS_EmptySet

LEMMA SumBounds ==
    ASSUME NEW S, IsFiniteSet(S), NEW f, \A x \in S : f[x] \in Nat, NEW e \in S
    PROVE  f[e] <= Sum(f, S)
<1>1. Sum(f, S) = f[e] + Sum(f, S \ {e})
  BY SumTakesOut
<1>2. IsFiniteSet(S \ {e}) /\ \A x \in S \ {e} : f[x] \in Nat
  BY FS_Subset
<1>3. Sum(f, S \ {e}) \in Nat
  BY <1>2, SumType
<1> QED BY <1>1, <1>3

\* A change of one value changes the sum by as much.
LEMMA SumUpdates ==
    ASSUME NEW S, IsFiniteSet(S), NEW f, NEW h, NEW e \in S, NEW c \in Int,
           \A x \in S : f[x] \in Int /\ h[x] = f[x] + (IF x = e THEN c ELSE 0)
    PROVE  Sum(h, S) = Sum(f, S) + c
<1> DEFINE g == [x \in S |-> IF x = e THEN c ELSE 0]
<1>1. g[e] = c /\ \A x \in S \ {e} : g[x] = 0
  OBVIOUS
<1>2. \A x \in S : f[x] \in Int /\ g[x] \in Int /\ h[x] = f[x] + g[x]
  OBVIOUS
<1> HIDE DEF g
<1>3. Sum(g, S) = c
  BY <1>1, SumOfOne
<1>4. Sum(h, S) = Sum(f, S) + Sum(g, S)
  BY <1>2, SumAdds
<1> QED BY <1>3, <1>4

LEMMA SumFunctionIs == ASSUME NEW f PROVE SumFunction(f) = Sum(f, DOMAIN f)
BY DEF SumFunction, Sum

-----------------------------------------------------------------------------
(***************************************************************************)
(* Arithmetic.                                                             *)
(***************************************************************************)

LEMMA Division ==
    ASSUME NEW a \in Nat, NEW b \in Nat, b > 0
    PROVE  a \div b \in Nat /\ a % b \in Nat /\ a % b < b /\ a = b * (a \div b) + (a % b)
<1>1. a \div b \in Nat /\ a % b \in Nat /\ a % b < b
  OBVIOUS
<1>2. \A m, n \in Nat : n > 0 => m = n * (m \div n) + (m % n)
  BY SMTT(30)
<1> QED BY <1>1, <1>2

LEMMA Products ==
    /\ \A a, b \in Nat : a * b \in Nat
    /\ \A a, b \in Int : a * b \in Int /\ a * b = b * a
    /\ \A a, b, c \in Int : a * (b + c) = a * b + a * c /\ a * (b - c) = a * b - a * c
OBVIOUS

LEMMA ProductGrows == \A a, b, c \in Int : a >= 0 /\ b <= c => a * b <= a * c
OBVIOUS

LEMMA Multiples ==
    ASSUME NEW u \in Nat, NEW s \in Nat, s > 0
    PROVE  (u * s) % s = 0 /\ (s * u) \div s = u
<1> DEFINE p == s * u
           d == p \div s
           m == p % s
<1>1. p \in Nat /\ u * s = p
  BY Products
<1>2. d \in Nat /\ m \in Nat /\ m < s /\ p = s * d + m
  <2> HIDE DEF p
  <2> QED BY <1>1, Division
<1> HIDE DEF d, m
<1>3. m = s * (u - d) /\ u - d \in Int
  BY <1>2
<1>4. u - d = 0
  <2> DEFINE e == u - d
  <2>1. e \in Int /\ s * e \in Nat /\ s * e < s
    BY <1>2, <1>3
  <2> HIDE DEF e
  <2>2. ~ e >= 1
    <3> SUFFICES ASSUME e >= 1 PROVE FALSE
      OBVIOUS
    <3>1. s * 1 <= s * e
      BY <2>1, ProductGrows
    <3> QED BY <2>1, <3>1
  <2>3. ~ e <= -1
    <3> SUFFICES ASSUME e <= -1 PROVE FALSE
      OBVIOUS
    <3>1. s * e <= s * (-1)
      BY <2>1, ProductGrows
    <3> QED BY <2>1, <3>1
  <2> QED BY <2>1, <2>2, <2>3 DEF e
<1>5. m = 0 /\ d = u
  BY <1>2, <1>3, <1>4
<1> QED BY <1>1, <1>5 DEF d, m

-----------------------------------------------------------------------------
(***************************************************************************)
(* largest_remainder_allocation.                                           *)
(***************************************************************************)

\* The exact share of a key is its floor and its remainder.
LEMMA FloorIsShare ==
    ASSUME NEW w, IsFiniteSet(DOMAIN w), \A k \in DOMAIN w : w[k] \in Nat,
           SumFunction(w) # 0, NEW total \in Nat
    PROVE  /\ SumFunction(w) \in Nat /\ SumFunction(w) > 0
           /\ \A k \in DOMAIN w :
                /\ Floor(total, w, k) \in Nat /\ Remainder(total, w, k) \in Nat
                /\ Remainder(total, w, k) < SumFunction(w)
                /\ total * w[k] = SumFunction(w) * Floor(total, w, k) + Remainder(total, w, k)
<1> DEFINE W == SumFunction(w)
<1>1. W \in Nat /\ W > 0
  BY SumFunctionIs, SumType
<1>2. ASSUME NEW k \in DOMAIN w
      PROVE  /\ Floor(total, w, k) \in Nat /\ Remainder(total, w, k) \in Nat
             /\ Remainder(total, w, k) < W
             /\ total * w[k] = W * Floor(total, w, k) + Remainder(total, w, k)
  <2> DEFINE n == total * w[k]
  <2>1. n \in Nat
    BY Products
  <2> HIDE DEF n, W
  <2>2. n \div W \in Nat /\ n % W \in Nat /\ n % W < W /\ n = W * (n \div W) + (n % W)
    BY <1>1, <2>1, Division
  <2>3. Floor(total, w, k) = n \div W /\ Remainder(total, w, k) = n % W /\ total * w[k] = n
    BY DEF n, W, Floor, Remainder
  <2> QED BY <2>2, <2>3
<1> QED BY <1>1, <1>2

\* The remainders are worth as many units as the floors leave.
LEMMA RemaindersSum ==
    ASSUME NEW w, IsFiniteSet(DOMAIN w), \A k \in DOMAIN w : w[k] \in Nat,
           SumFunction(w) # 0, NEW total \in Nat,
           NEW fl, fl = [k \in DOMAIN w |-> Floor(total, w, k)],
           NEW rem, rem = [k \in DOMAIN w |-> Remainder(total, w, k)]
    PROVE  /\ SumFunction(fl) \in Nat /\ SumFunction(rem) \in Nat
           /\ SumFunction(rem) = SumFunction(w) * (total - SumFunction(fl))
<1> DEFINE K == DOMAIN w
           W == SumFunction(w)
           share == [k \in K |-> total * w[k]]
           big == [k \in K |-> W * fl[k]]
<1>1. /\ W \in Nat /\ W > 0
      /\ \A k \in K : /\ fl[k] \in Nat /\ rem[k] \in Nat
                      /\ total * w[k] = W * fl[k] + rem[k]
  BY FloorIsShare
<1>2. \A k \in K : share[k] \in Int /\ share[k] = total * w[k] /\ big[k] \in Int
                   /\ big[k] = W * fl[k] /\ share[k] = big[k] + rem[k]
  BY <1>1, Products
<1>3. W = Sum(w, K) /\ SumFunction(fl) = Sum(fl, K) /\ SumFunction(rem) = Sum(rem, K)
  BY SumFunctionIs
<1> HIDE DEF share, big, K, W
<1>4. Sum(share, K) = total * Sum(w, K)
  <2>1. \A k \in K : w[k] \in Int /\ share[k] = total * w[k]
    BY <1>2 DEF K
  <2> QED BY <2>1, SumScales DEF K
<1>5. Sum(big, K) = W * Sum(fl, K)
  <2>1. W \in Int /\ \A k \in K : fl[k] \in Int /\ big[k] = W * fl[k]
    BY ONLY <1>1, <1>2
  <2>2. IsFiniteSet(K)
    BY DEF K
  <2> QED BY ONLY <2>1, <2>2, SumScales
<1>6. Sum(share, K) = Sum(big, K) + Sum(rem, K)
  <2>1. \A k \in K : big[k] \in Int /\ rem[k] \in Int /\ share[k] = big[k] + rem[k]
    BY <1>1, <1>2
  <2> QED BY <2>1, SumAdds DEF K
<1>7. Sum(fl, K) \in Nat /\ Sum(rem, K) \in Nat
  BY <1>1, SumType DEF K
<1> DEFINE F == Sum(fl, K)
           R == Sum(rem, K)
<1>8. total * W = W * F + R
  BY <1>3, <1>4, <1>5, <1>6
<1>9. F \in Nat /\ R \in Nat
  BY <1>7
<1> HIDE DEF F, R
<1>10. R = W * (total - F)
  <2>1. total * W = W * total /\ W * (total - F) = W * total - W * F
    BY <1>1, <1>9, Products
  <2>2. W * F \in Int /\ W * total \in Int
    BY <1>1, <1>9, Products
  <2> QED BY <1>8, <1>9, <2>1, <2>2
<1> QED BY <1>3, <1>9, <1>10 DEF F, R, W

\* The rest goes to keys that have a remainder, since the keys outside would have none
\* either if one inside had none, and then the remainders could not make up the rest.
LEMMA RestIsFair ==
    ASSUME NEW w, IsFiniteSet(DOMAIN w), \A k \in DOMAIN w : w[k] \in Nat,
           SumFunction(w) # 0, NEW total \in Nat, NEW a \in WithRest(total, w)
    PROVE  /\ a \in [DOMAIN w -> Nat]
           /\ SumFunction(a) = total
           /\ \A k \in DOMAIN w :
                /\ a[k] * SumFunction(w) < total * w[k] + SumFunction(w)
                /\ a[k] * SumFunction(w) > total * w[k] - SumFunction(w)
<1> DEFINE K == DOMAIN w
           W == SumFunction(w)
           fl == [k \in DOMAIN w |-> Floor(total, w, k)]
           rem == [k \in DOMAIN w |-> Remainder(total, w, k)]
           rest == total - SumFunction(fl)
<1>1. /\ W \in Nat /\ W > 0
      /\ \A k \in K : /\ fl[k] \in Nat /\ rem[k] \in Nat /\ rem[k] < W
                      /\ total * w[k] = W * fl[k] + rem[k]
  BY FloorIsShare
<1>2. PICK B \in SUBSET {k \in K : w[k] > 0} :
         /\ a = [k \in K |-> fl[k] + (IF k \in B THEN 1 ELSE 0)]
         /\ Cardinality(B) = rest
         /\ \A k \in B, j \in K \ B : rem[k] >= rem[j]
  BY DEF WithRest
<1>3. SumFunction(fl) \in Nat /\ SumFunction(rem) \in Nat /\ SumFunction(rem) = W * rest
  BY RemaindersSum
<1>4. SumFunction(fl) = Sum(fl, K) /\ SumFunction(rem) = Sum(rem, K) /\ DOMAIN fl = K /\ DOMAIN rem = K
  BY SumFunctionIs
<1>5. B \in SUBSET K /\ IsFiniteSet(B) /\ IsFiniteSet(K) /\ rest \in Nat
  BY <1>2, FS_Subset, FS_CardinalityType
<1> DEFINE ind == [k \in K |-> IF k \in B THEN 1 ELSE 0]
<1>6. /\ DOMAIN a = K /\ a \in [K -> Nat]
      /\ \A k \in K : a[k] \in Nat /\ a[k] = fl[k] + ind[k] /\ ind[k] \in Nat
  BY <1>1, <1>2
<1>7. SumFunction(a) = total
  <2>1. Sum(ind, K) = Cardinality(B)
    <3>1. \A k \in K : ind[k] = IF k \in B THEN 1 ELSE 0
      OBVIOUS
    <3> HIDE DEF ind, K
    <3> QED BY <1>5, <3>1, SumCounts
  <2>2. Sum(a, K) = Sum(fl, K) + Sum(ind, K)
    <3>1. \A k \in K : fl[k] \in Int /\ ind[k] \in Int /\ a[k] = fl[k] + ind[k]
      BY <1>1, <1>6
    <3> HIDE DEF ind, K, fl
    <3> QED BY <1>5, <3>1, SumAdds
  <2>3. SumFunction(a) = Sum(a, K)
    BY <1>6, SumFunctionIs
  <2> HIDE DEF ind, K, fl
  <2> QED BY <1>2, <1>3, <1>4, <2>1, <2>2, <2>3
<1>8. ASSUME NEW k \in B PROVE rem[k] > 0
  <2> SUFFICES ASSUME rem[k] = 0 PROVE FALSE
    BY <1>1, <1>5
  <2> DEFINE most == [j \in K |-> IF j \in B \ {k} THEN 1 ELSE 0]
             cap == [j \in K |-> (W - 1) * most[j]]
  <2>1. \A j \in K : cap[j] \in Int /\ rem[j] \in Int /\ rem[j] <= cap[j] /\ most[j] \in Int /\ cap[j] = (W - 1) * most[j]
    <3> SUFFICES ASSUME NEW j \in K
                 PROVE  /\ cap[j] \in Int /\ rem[j] \in Int /\ rem[j] <= cap[j]
                        /\ most[j] \in Int /\ cap[j] = (W - 1) * most[j]
      OBVIOUS
    <3>1. rem[j] \in Nat /\ rem[j] < W /\ W \in Nat /\ (j \notin B \ {k} => rem[j] = 0)
      <4>1. rem[j] \in Nat /\ rem[j] < W /\ W \in Nat
        BY <1>1
      <4> HIDE DEF rem, W, fl, K, rest
      <4>2. j \notin B => rem[k] >= rem[j]
        BY <1>2
      <4> QED BY <4>1, <4>2
    <3>2. most[j] = (IF j \in B \ {k} THEN 1 ELSE 0) /\ cap[j] = (W - 1) * most[j]
      OBVIOUS
    <3> HIDE DEF rem, W, most, cap
    <3>3. cap[j] = IF j \in B \ {k} THEN W - 1 ELSE 0
      BY <3>1, <3>2
    <3> QED BY <3>1, <3>2, <3>3
  <2>2. B \ {k} \in SUBSET K /\ \A j \in K : most[j] = IF j \in B \ {k} THEN 1 ELSE 0
    BY <1>5
  <2>3. Cardinality(B \ {k}) = rest - 1 /\ rest > 0
    <3>1. B # {} 
      OBVIOUS
    <3>2. Cardinality(B) # 0
      BY <1>5, <3>1, FS_EmptySet
    <3>3. Cardinality(B \ {k}) = Cardinality(B) - 1
      BY <1>5, FS_RemoveElement
    <3> HIDE DEF K, fl, rem, W
    <3> QED BY <1>2, <1>5, <3>2, <3>3
  <2> HIDE DEF K, W, most, cap, rem, rest, fl
  <2>4. Sum(most, K) = rest - 1
    BY <1>5, <2>2, <2>3, SumCounts
  <2>5. Sum(cap, K) = (W - 1) * (rest - 1)
    <3>1. W - 1 \in Int
      BY <1>1
    <3>2. Sum(cap, K) = (W - 1) * Sum(most, K)
      BY <1>5, <2>1, <3>1, SumScales
    <3> QED BY <2>4, <3>2
  <2>6. Sum(rem, K) <= Sum(cap, K)
    BY <1>5, <2>1, SumOrders
  <2>7. W * rest <= (W - 1) * (rest - 1)
    BY <1>3, <1>4, <2>5, <2>6
  <2>8. (W - 1) * (rest - 1) = W * rest - W - rest + 1
    BY <1>1, <1>5
  <2>9. W * rest \in Int
    BY <1>1, <1>5, Products
  <2> QED BY <1>1, <1>5, <2>3, <2>7, <2>8, <2>9
<1>9. ASSUME NEW k \in K
      PROVE  a[k] * W < total * w[k] + W /\ a[k] * W > total * w[k] - W
  <2>1. a[k] * W = W * fl[k] + (IF k \in B THEN W ELSE 0)
    <3>1. a[k] = fl[k] + (IF k \in B THEN 1 ELSE 0)
      BY <1>6
    <3> HIDE DEF fl, rem, W, K
    <3>2. a[k] * W = W * fl[k] + W * (IF k \in B THEN 1 ELSE 0)
      BY <1>1, <3>1
    <3> QED BY <1>1, <3>2
  <2>2. W * fl[k] \in Int /\ rem[k] \in Nat /\ rem[k] < W /\ total * w[k] = W * fl[k] + rem[k]
    BY <1>1, Products
  <2> HIDE DEF fl, rem, W, K
  <2> QED BY <1>1, <1>8, <2>1, <2>2
<1> QED BY <1>6, <1>7, <1>9

LEMMA AllocationSums ==
    ASSUME NEW w, IsFiniteSet(DOMAIN w), \A k \in DOMAIN w : w[k] \in Nat,
           NEW total \in Nat, NEW a \in Allocations(total, w)
    PROVE  /\ a \in [DOMAIN w -> Nat]
           /\ SumFunction(a) = IF DOMAIN w = {} THEN 0 ELSE total
<1>1. CASE SumFunction(w) # 0
  <2>1. a \in WithRest(total, w)
    BY <1>1 DEF Allocations
  <2>2. DOMAIN w # {}
    BY <1>1, SumFunctionIs, SumOfNone
  <2> QED BY <1>1, <2>1, <2>2, RestIsFair
<1>2. CASE SumFunction(w) = 0
  <2>1. a \in ToTheFirst(total, DOMAIN w)
    BY <1>2 DEF Allocations
  <2>2. CASE DOMAIN w = {}
    <3>1. a = [k \in {} |-> 0]
      BY <2>1, <2>2 DEF ToTheFirst
    <3>2. DOMAIN a = {} /\ a \in [{} -> Nat]
      BY <3>1
    <3> QED BY <2>2, <3>2, SumFunctionIs, SumOfNone
  <2>3. CASE DOMAIN w # {}
    <3>1. PICK f \in DOMAIN w : a = [k \in DOMAIN w |-> IF k = f THEN total ELSE 0]
      BY <2>1, <2>3 DEF ToTheFirst
    <3>2. DOMAIN a = DOMAIN w /\ a[f] = total /\ \A k \in DOMAIN w \ {f} : a[k] = 0
      BY <3>1
    <3>3. Sum(a, DOMAIN w) = total
      BY <3>2, SumOfOne
    <3>4. a \in [DOMAIN w -> Nat]
      BY <3>1
    <3> QED BY <2>3, <3>2, <3>3, <3>4, SumFunctionIs
  <2> QED BY <2>2, <2>3
<1> QED BY <1>1, <1>2

-----------------------------------------------------------------------------
(***************************************************************************)
(* The three types of runs: what a run has been given never changes.       *)
(***************************************************************************)

RunInv ==
    /\ Present # {} /\ Present \subseteq Regions
    /\ phase \in {"plan", "move"} => hand = NoHand /\ balance = NoBalance
    /\ phase = "ship" => hand \in Hands /\ balance = NoBalance
    /\ phase = "balance" => hand = NoHand /\ balance \in Balances
    /\ phase = "done" => hand = NoHand \/ balance = NoBalance
    /\ hand \in Hands \cup {NoHand} /\ balance \in Balances \cup {NoBalance}

LEMMA NoneOfHands == NoHand \notin Hands
BY DEF NoHand, Hands

LEMMA NoneOfBalances == NoBalance \notin Balances
BY NumbersAssumption DEF NoBalance, Balances

LEMMA FinitePresent == RunInv => IsFiniteSet(Present)
BY FS_Subset, RegionsAssumption DEF RunInv

LEMMA RunInvInit == ComputeInit => RunInv
<1> SUFFICES ASSUME ComputeInit PROVE RunInv
  OBVIOUS
<1>1. PICK P \in (SUBSET Regions) \ {{}} :
         /\ demand \in [P -> 0 .. MaxQty] /\ stock \in [P -> 0 .. MaxQty]
         /\ \/ /\ phase = "plan" /\ keep \in Keeps
               /\ hand = NoHand /\ balance = NoBalance
            \/ /\ phase = "ship" /\ keep = 0
               /\ hand \in Hands /\ balance = NoBalance
            \/ /\ P = {Min(Regions)} /\ demand = [r \in P |-> 0] /\ stock = demand
               /\ phase = "balance" /\ keep = 0
               /\ hand = NoHand /\ balance \in Balances
  BY DEF ComputeInit
<1>2. Present = P
  BY <1>1 DEF Present
<1>3. P # {} /\ P \subseteq Regions
  OBVIOUS
<1> DEFINE kinds == \/ phase = "plan" /\ hand = NoHand /\ balance = NoBalance
                    \/ phase = "ship" /\ hand \in Hands /\ balance = NoBalance
                    \/ phase = "balance" /\ hand = NoHand /\ balance \in Balances
<1>4. kinds
  BY <1>1
<1> QED BY <1>2, <1>3, <1>4 DEF RunInv

LEMMA RunInvStep == RunInv /\ [ComputeNext]_computeVars => RunInv'
<1> SUFFICES ASSUME RunInv, [ComputeNext]_computeVars PROVE RunInv'
  OBVIOUS
<1> USE DEF RunInv, Present
<1>1. CASE Plan
  BY <1>1 DEF Plan
<1>2. ASSUME NEW r \in Present, NEW q \in Present, Move(r, q) PROVE RunInv'
  BY <1>2 DEF Move
<1>3. CASE MovesEnd
  BY <1>3 DEF MovesEnd
<1>4. CASE Ship
  BY <1>4 DEF Ship
<1>5. CASE LeaveOut
  BY <1>5 DEF LeaveOut
<1>6. CASE Balance
  BY <1>6 DEF Balance
<1>7. CASE UNCHANGED computeVars
  BY <1>7 DEF computeVars
<1> QED BY <1>1, <1>2, <1>3, <1>4, <1>5, <1>6, <1>7 DEF ComputeNext

LEMMA InputsStay ==
    [ComputeNext]_computeVars => UNCHANGED <<demand, stock, keep, hand, balance, Present>>
<1> SUFFICES ASSUME [ComputeNext]_computeVars
             PROVE  UNCHANGED <<demand, stock, keep, hand, balance, Present>>
  OBVIOUS
<1> USE DEF Present, plan, moves
<1>1. CASE Plan
  BY <1>1 DEF Plan
<1>2. ASSUME NEW r \in Present, NEW q \in Present, Move(r, q)
      PROVE  UNCHANGED <<demand, stock, keep, hand, balance, Present>>
  BY <1>2 DEF Move
<1>3. CASE MovesEnd
  BY <1>3 DEF MovesEnd
<1>4. CASE Ship
  BY <1>4 DEF Ship
<1>5. CASE LeaveOut
  BY <1>5 DEF LeaveOut
<1>6. CASE Balance
  BY <1>6 DEF Balance
<1>7. CASE UNCHANGED computeVars
  BY <1>7 DEF computeVars
<1> QED BY <1>1, <1>2, <1>3, <1>4, <1>5, <1>6, <1>7 DEF ComputeNext

-----------------------------------------------------------------------------
(***************************************************************************)
(* Quantities are whole; a region that gives is not one that gets.         *)
(***************************************************************************)

QuantityInv ==
    /\ demand \in [Present -> Nat] /\ stock \in [Present -> Nat] /\ keep \in Nat
    /\ target \in [Present -> Nat] /\ delta \in [Present -> Int]
    /\ left \in [Present -> Int]
    /\ \A r \in Present : left[r] \in (IF delta[r] < 0 THEN delta[r] .. 0 ELSE 0 .. delta[r])
    /\ moved \in [Present -> [Present -> Nat]]

LEMMA StockSum == RunInv /\ QuantityInv => SumFunction(stock) \in Nat /\ Orders \in Nat
BY FinitePresent, SumFunctionIs, SumType DEF QuantityInv, Orders, Present

\* What the allocation of a run returns, of its demand or of equal weights.
LEMMA ShareWeights ==
    ASSUME RunInv, QuantityInv, NEW n \in Nat,
           NEW t \in Allocations(n, IF Orders = 0 THEN Equal ELSE demand)
    PROVE  LET share == IF Orders = 0 THEN Equal ELSE demand
               parts == SumFunction(share)
           IN  /\ share \in [Present -> Nat] /\ parts \in Nat /\ parts > 0
               /\ t \in [Present -> Nat] /\ SumFunction(t) = n
               /\ \A r \in Present : /\ t[r] * parts < n * share[r] + parts
                                     /\ t[r] * parts > n * share[r] - parts
<1> DEFINE share == IF Orders = 0 THEN Equal ELSE demand
           parts == SumFunction(share)
<1>1. IsFiniteSet(Present) /\ Present # {}
  BY FinitePresent DEF RunInv
<1>2. share \in [Present -> Nat]
  BY DEF QuantityInv, Equal
<1>3. parts # 0
  <2>1. CASE Orders = 0
    <3>1. DOMAIN Equal = Present /\ \A r \in Present : Equal[r] = 1 /\ Equal[r] \in Nat
      BY DEF Equal
    <3>2. PICK r \in Present : TRUE
      BY <1>1
    <3>3. Equal[r] <= Sum(Equal, Present) /\ Sum(Equal, Present) \in Nat
      BY <1>1, <3>1, SumBounds, SumType
    <3>4. parts = Sum(Equal, Present)
      BY <2>1, <3>1, SumFunctionIs
    <3> QED BY <3>1, <3>3, <3>4
  <2>2. CASE Orders # 0
    BY <2>2 DEF Orders
  <2> QED BY <2>1, <2>2
<1>4. t \in WithRest(n, share)
  BY <1>3 DEF Allocations
<1>5. IsFiniteSet(DOMAIN share) /\ DOMAIN share = Present /\ \A r \in DOMAIN share : share[r] \in Nat
  BY <1>1, <1>2
<1> HIDE DEF share
<1>6. /\ t \in [Present -> Nat] /\ SumFunction(t) = n
      /\ \A r \in Present : /\ t[r] * parts < n * share[r] + parts
                            /\ t[r] * parts > n * share[r] - parts
  BY <1>3, <1>4, <1>5, RestIsFair
<1>7. parts \in Nat /\ parts > 0
  BY <1>3, <1>5, FloorIsShare
<1> QED BY <1>2, <1>6, <1>7 DEF share

LEMMA QuantityInit == ComputeInit => QuantityInv
<1> SUFFICES ASSUME ComputeInit PROVE QuantityInv
  OBVIOUS
<1>1. PICK P \in (SUBSET Regions) \ {{}} :
         /\ demand \in [P -> 0 .. MaxQty] /\ stock \in [P -> 0 .. MaxQty]
         /\ keep \in Keeps \/ keep = 0
  BY DEF ComputeInit
<1>2. Present = P
  BY <1>1 DEF Present
<1>3. keep \in Nat
  <2>1. keep \in Keeps \/ keep = 0
    BY <1>1
  <2>2. CASE keep \in Keeps
    BY <2>2, NumbersAssumption
  <2>3. CASE keep = 0
    BY <2>3
  <2> QED BY <2>1, <2>2, <2>3
<1>4. demand \in [Present -> Nat] /\ stock \in [Present -> Nat]
  BY <1>1, <1>2, NumbersAssumption
<1>5. target = None /\ delta = None /\ left = None /\ moved = [r \in Present |-> None]
  BY DEF ComputeInit
<1> QED BY <1>3, <1>4, <1>5 DEF QuantityInv, None

\* What one movement changes.
LEMMA UnitsMove ==
    ASSUME QuantityInv, NEW r \in Present, NEW q \in Present, Move(r, q)
    PROVE  /\ left[r] \in Int /\ left[q] \in Int /\ left[r] < 0 /\ left[q] > 0 /\ r # q
           /\ delta[r] < 0 /\ delta[q] > 0
           /\ Units(r, q) \in Nat /\ Units(r, q) <= -left[r] /\ Units(r, q) <= left[q]
           /\ \A s \in Present :
                left'[s] = left[s] + (IF s = r THEN Units(r, q) ELSE 0)
                                   - (IF s = q THEN Units(r, q) ELSE 0)
           /\ left' \in [Present -> Int]
           /\ \A s, t \in Present :
                moved'[s][t] = moved[s][t] + (IF s = r /\ t = q THEN Units(r, q) ELSE 0)
           /\ moved' \in [Present -> [Present -> Nat]]
<1>1. left[r] \in Int /\ left[q] \in Int /\ left[r] < 0 /\ left[q] > 0 /\ r # q
  BY DEF QuantityInv, Move, FirstDonor, FirstRecipient, Donors, Recipients
<1>2. delta[r] < 0 /\ delta[q] > 0
  BY <1>1 DEF QuantityInv
<1>3. Units(r, q) \in Nat /\ Units(r, q) <= -left[r] /\ Units(r, q) <= left[q]
  BY <1>1 DEF Units, Least
<1> DEFINE u == Units(r, q)
<1>4. left' = [left EXCEPT ![r] = @ + u, ![q] = @ - u]
      /\ moved' = [moved EXCEPT ![r][q] = @ + u]
  BY DEF Move
<1> HIDE DEF u
<1>5. u \in Nat
  BY <1>3 DEF u
<1>6. /\ \A s \in Present :
           left'[s] = left[s] + (IF s = r THEN u ELSE 0) - (IF s = q THEN u ELSE 0)
      /\ left' \in [Present -> Int]
  <2>1. left \in [Present -> Int] /\ r \in Present /\ q \in Present /\ r # q
    BY <1>1 DEF QuantityInv
  <2>2. left' \in [Present -> Int]
    BY ONLY <1>4, <1>5, <2>1
  <2>3. ASSUME NEW s \in Present
        PROVE  left'[s] = IF s = r THEN left[s] + u ELSE IF s = q THEN left[s] - u ELSE left[s]
    BY ONLY <1>4, <1>5, <2>1, s \in Present
  <2> QED BY ONLY <1>5, <2>1, <2>2, <2>3
<1>7. moved' \in [Present -> [Present -> Nat]]
  BY <1>4, <1>5 DEF QuantityInv
<1>8. ASSUME NEW s \in Present, NEW t \in Present
      PROVE  moved'[s][t] = moved[s][t] + (IF s = r /\ t = q THEN u ELSE 0)
  BY <1>4, <1>5 DEF QuantityInv
<1> QED BY <1>1, <1>2, <1>3, <1>6, <1>7, <1>8 DEF u

LEMMA QuantityStep == RunInv /\ QuantityInv /\ [ComputeNext]_computeVars => QuantityInv'
<1> SUFFICES ASSUME RunInv, QuantityInv, [ComputeNext]_computeVars PROVE QuantityInv'
  OBVIOUS
<1>0. UNCHANGED <<demand, stock, keep, Present>>
  BY InputsStay
<1>1. CASE Plan
  <2>1. target' \in [Present -> Nat]
    <3>1. SumFunction(stock) \in Nat
      BY StockSum
    <3>2. target' \in Allocations(SumFunction(stock), IF Orders = 0 THEN Equal ELSE demand)
      BY <1>1 DEF Plan
    <3> QED BY <3>1, <3>2, ShareWeights
  <2>2. delta' = [r \in Present |-> Delta(r)] /\ left' = delta' /\ UNCHANGED moved
    BY <1>1 DEF Plan
  <2>3. \A r \in Present : Delta(r) \in Int
    BY <2>1 DEF QuantityInv, Delta, Least, AtLeastZero
  <2> QED BY <1>0, <2>1, <2>2, <2>3 DEF QuantityInv
<1>2. ASSUME NEW r \in Present, NEW q \in Present, Move(r, q) PROVE QuantityInv'
  <2>1. UNCHANGED <<target, delta>>
    BY <1>2 DEF Move, plan
  <2>2. ASSUME NEW s \in Present
        PROVE  left'[s] \in (IF delta[s] < 0 THEN delta[s] .. 0 ELSE 0 .. delta[s])
    <3>1. /\ left[r] \in Int /\ left[q] \in Int /\ left[r] < 0 /\ left[q] > 0 /\ r # q
          /\ delta[r] < 0 /\ delta[q] > 0
          /\ Units(r, q) \in Nat /\ Units(r, q) <= -left[r] /\ Units(r, q) <= left[q]
          /\ left'[s] = left[s] + (IF s = r THEN Units(r, q) ELSE 0)
                                - (IF s = q THEN Units(r, q) ELSE 0)
      BY <1>2, UnitsMove
    <3>2. left[s] \in Int /\ delta[s] \in Int /\ delta[r] \in Int /\ delta[q] \in Int
          /\ left[s] \in (IF delta[s] < 0 THEN delta[s] .. 0 ELSE 0 .. delta[s])
      BY DEF QuantityInv
    <3> QED BY ONLY <3>1, <3>2
  <2>3. left' \in [Present -> Int] /\ moved' \in [Present -> [Present -> Nat]]
    BY <1>2, UnitsMove
  <2> QED BY <1>0, <2>1, <2>2, <2>3 DEF QuantityInv
<1>3. CASE MovesEnd
  BY <1>0, <1>3 DEF MovesEnd, QuantityInv, plan, moves
<1>4. CASE Ship
  BY <1>0, <1>4 DEF Ship, QuantityInv, plan, moves
<1>5. CASE LeaveOut
  BY <1>0, <1>5 DEF LeaveOut, QuantityInv, plan, moves
<1>6. CASE Balance
  BY <1>0, <1>6 DEF Balance, QuantityInv, plan, moves
<1>7. CASE UNCHANGED computeVars
  BY <1>0, <1>7 DEF computeVars, QuantityInv, plan, moves
<1> QED BY <1>1, <1>2, <1>3, <1>4, <1>5, <1>6, <1>7 DEF ComputeNext

-----------------------------------------------------------------------------
(***************************************************************************)
(* return_excess.                                                          *)
(***************************************************************************)

LEMMA ProportionalStep ==
    RunInv /\ QuantityInv /\ PlanIsProportional /\ [ComputeNext]_computeVars => PlanIsProportional'
<1> SUFFICES ASSUME RunInv, QuantityInv, PlanIsProportional, [ComputeNext]_computeVars, Planned'
             PROVE  PlanIsProportional'
  BY DEF PlanIsProportional
<1> DEFINE share == IF Orders = 0 THEN Equal ELSE demand
           parts == SumFunction(share)
           Shared(t) == /\ SumFunction(t) = SumFunction(stock)
                        /\ \A r \in Present :
                             /\ t[r] * parts < SumFunction(stock) * share[r] + parts
                             /\ t[r] * parts > SumFunction(stock) * share[r] - parts
<1>1. UNCHANGED <<demand, stock, hand, balance, Present, Orders, Equal>>
  BY InputsStay DEF Orders, Equal
<1>2. Shared(target') => PlanIsProportional'
  BY <1>1 DEF PlanIsProportional
<1>3. CASE Plan
  <2>1. SumFunction(stock) \in Nat
    BY StockSum
  <2>2. target' \in Allocations(SumFunction(stock), share)
    BY <1>3 DEF Plan
  <2>3. Shared(target')
    BY <2>1, <2>2, ShareWeights
  <2> QED BY <1>2, <2>3
<1>4. CASE UNCHANGED target /\ Planned
  <2>1. Shared(target)
    BY <1>4 DEF PlanIsProportional
  <2> QED BY <1>2, <1>4, <2>1
<1>5. ASSUME NEW r \in Present, NEW q \in Present, Move(r, q) PROVE PlanIsProportional'
  BY <1>4, <1>5 DEF Move, Planned, plan
<1>6. CASE MovesEnd
  BY <1>4, <1>6 DEF MovesEnd, Planned, plan
<1>7. CASE Ship
  BY <1>7, <1>1, NoneOfHands DEF Ship, Planned, RunInv
<1>8. CASE LeaveOut
  BY <1>8, <1>1, NoneOfHands DEF LeaveOut, Planned, RunInv
<1>9. CASE Balance
  BY <1>9, <1>1, NoneOfBalances DEF Balance, Planned, RunInv
<1>10. CASE UNCHANGED computeVars
  BY <1>4, <1>10 DEF computeVars, Planned, plan
<1> QED BY <1>3, <1>5, <1>6, <1>7, <1>8, <1>9, <1>10 DEF ComputeNext

\* What has been planned for a region, and what has been done of it.
MovesInv ==
    /\ phase = "plan" => \A r, q \in Present : moved[r][q] = 0
    /\ Planned =>
        /\ \A r \in Present :
             /\ delta[r] = LET d == target[r] - stock[r]
                           IN  IF d < 0 /\ keep > 0
                               THEN -Least(-d, AtLeastZero(stock[r] - keep)) ELSE d
             /\ Given(r) = IF delta[r] < 0 THEN left[r] - delta[r] ELSE 0
             /\ Got(r) = IF delta[r] > 0 THEN delta[r] - left[r] ELSE 0
        /\ SumFunction(left) = SumFunction(delta)
        /\ phase = "done" => NothingToPair

LEMMA RegionSums ==
    ASSUME QuantityInv
    PROVE  /\ \A r \in Present : Given(r) = Sum(moved[r], Present)
           /\ \A r \in Present : Got(r) = Sum([q \in Present |-> moved[q][r]], Present)
           /\ SumFunction(left) = Sum(left, Present) /\ SumFunction(delta) = Sum(delta, Present)
           /\ SumFunction(stock) = Sum(stock, Present) /\ SumFunction(target) = Sum(target, Present)
BY SumFunctionIs DEF Given, Got, QuantityInv

LEMMA MovesInit == ComputeInit => MovesInv
<1> SUFFICES ASSUME ComputeInit PROVE MovesInv
  OBVIOUS
<1>1. moved = [r \in Present |-> None]
  BY DEF ComputeInit
<1>2. ~Planned
  BY NoneOfHands, NoneOfBalances DEF ComputeInit, Planned
<1> QED BY <1>1, <1>2 DEF MovesInv, None

LEMMA MovesStart ==
    ASSUME RunInv, QuantityInv, QuantityInv', MovesInv, Plan PROVE MovesInv'
<1>1. UNCHANGED <<stock, keep, Present, moved>> /\ phase = "plan" /\ phase' = "move"
      /\ delta' = [r \in Present |-> Delta(r)] /\ left' = delta'
  BY DEF Plan, Present
<1>2. IsFiniteSet(Present) /\ \A r, q \in Present : moved[r][q] = 0
  BY <1>1, FinitePresent DEF MovesInv
<1>3. ASSUME NEW r \in Present PROVE Given(r)' = 0 /\ Got(r)' = 0
  <2> DEFINE g == [q \in Present |-> moved[q][r]]
  <2>1. \A q \in Present : g[q] = 0
    BY <1>2
  <2>2. Given(r) = Sum(moved[r], Present) /\ Got(r) = Sum(g, Present)
    BY RegionSums
  <2> HIDE DEF g
  <2>3. Given(r) = 0 /\ Got(r) = 0
    BY <1>2, <2>1, <2>2, SumOfZeros
  <2>4. UNCHANGED <<Given(r), Got(r)>>
    BY <1>1 DEF Given, Got
  <2> QED BY <2>3, <2>4
<1>4. ASSUME NEW r \in Present
      PROVE  /\ delta'[r] = LET d == target'[r] - stock[r]
                            IN  IF d < 0 /\ keep > 0
                                THEN -Least(-d, AtLeastZero(stock[r] - keep)) ELSE d
             /\ delta'[r] \in Int /\ left'[r] = delta'[r]
  BY <1>1 DEF Delta, QuantityInv
<1>5. phase' # "plan" /\ phase' # "done"
  BY <1>1
<1>6. \A r \in Present' : 
        /\ (delta[r] = LET d == target[r] - stock[r]
                       IN  IF d < 0 /\ keep > 0
                           THEN -Least(-d, AtLeastZero(stock[r] - keep)) ELSE d)'
        /\ Given(r)' = IF delta'[r] < 0 THEN left'[r] - delta'[r] ELSE 0
        /\ Got(r)' = IF delta'[r] > 0 THEN delta'[r] - left'[r] ELSE 0
  BY <1>1, <1>3, <1>4
<1>7. SumFunction(left)' = SumFunction(delta)'
  BY <1>1
<1> QED BY <1>5, <1>6, <1>7 DEF MovesInv

LEMMA MovesMove ==
    ASSUME RunInv, QuantityInv, QuantityInv', MovesInv,
           NEW r \in Present, NEW q \in Present, Move(r, q)
    PROVE  MovesInv'
<1> DEFINE u == Units(r, q)
<1>1. UNCHANGED <<stock, keep, Present, target, delta, phase>> /\ phase = "move"
  BY DEF Move, Present, plan
<1>2. /\ left[r] \in Int /\ left[q] \in Int /\ left[r] < 0 /\ left[q] > 0 /\ r # q
      /\ delta[r] < 0 /\ delta[q] > 0 /\ u \in Nat
      /\ \A s \in Present :
           left'[s] = left[s] + (IF s = r THEN u ELSE 0) - (IF s = q THEN u ELSE 0)
      /\ \A s, t \in Present : moved'[s][t] = moved[s][t] + (IF s = r /\ t = q THEN u ELSE 0)
  BY UnitsMove
<1> HIDE DEF u
<1>3. /\ IsFiniteSet(Present)
      /\ \A s \in Present : left[s] \in Int /\ delta[s] \in Int
      /\ \A s, t \in Present : moved[s][t] \in Int
  BY FinitePresent DEF QuantityInv
<1>4. Planned
  BY <1>1 DEF Planned
<1>5. ASSUME NEW s \in Present PROVE Given(s)' = Given(s) + (IF s = r THEN u ELSE 0)
  <2>1. Given(s) = Sum(moved[s], Present)
    BY RegionSums
  <2>2. Given(s)' = Sum(moved'[s], Present)
    BY <1>1, SumFunctionIs DEF Given, QuantityInv
  <2> DEFINE c == IF s = r THEN u ELSE 0
  <2>3. c \in Int
    BY <1>2
  <2>4. \A t \in Present : moved[s][t] \in Int /\ moved'[s][t] = moved[s][t] + (IF t = q THEN c ELSE 0)
    BY <1>2, <1>3
  <2> DEFINE f == moved[s]
             h == moved'[s]
  <2>5. \A t \in Present : f[t] \in Int /\ h[t] = f[t] + (IF t = q THEN c ELSE 0)
    BY <2>4
  <2> HIDE DEF c, f, h
  <2>6. Sum(h, Present) = Sum(f, Present) + c
    BY <1>3, <2>3, <2>5, SumUpdates
  <2> QED BY <2>1, <2>2, <2>6 DEF c, f, h
<1>6. ASSUME NEW s \in Present PROVE Got(s)' = Got(s) + (IF s = q THEN u ELSE 0)
  <2> DEFINE f == [t \in Present |-> moved[t][s]]
             h == [t \in Present |-> moved'[t][s]]
             c == IF s = q THEN u ELSE 0
  <2>1. Got(s) = Sum(f, Present)
    BY RegionSums
  <2>2. Got(s)' = Sum(h, Present)
    BY <1>1, SumFunctionIs DEF Got
  <2>3. c \in Int
    BY <1>2
  <2>4. \A t \in Present : f[t] \in Int /\ h[t] = f[t] + (IF t = r THEN c ELSE 0)
    BY <1>2, <1>3
  <2> HIDE DEF c, f, h
  <2>5. Sum(h, Present) = Sum(f, Present) + c
    BY <1>3, <2>3, <2>4, SumUpdates
  <2> QED BY <2>1, <2>2, <2>5 DEF c
<1>7. ASSUME NEW s \in Present
      PROVE  /\ Given(s)' = IF delta[s] < 0 THEN left'[s] - delta[s] ELSE 0
             /\ Got(s)' = IF delta[s] > 0 THEN delta[s] - left'[s] ELSE 0
  <2>1. /\ Given(s) = IF delta[s] < 0 THEN left[s] - delta[s] ELSE 0
        /\ Got(s) = IF delta[s] > 0 THEN delta[s] - left[s] ELSE 0
    BY <1>4 DEF MovesInv
  <2>2. left'[s] = left[s] + (IF s = r THEN u ELSE 0) - (IF s = q THEN u ELSE 0)
    BY <1>2
  <2>3. left[s] \in Int /\ delta[s] \in Int
    BY <1>3
  <2>4. /\ Given(s)' = Given(s) + (IF s = r THEN u ELSE 0)
        /\ Got(s)' = Got(s) + (IF s = q THEN u ELSE 0)
    BY <1>5, <1>6
  <2>5. delta[r] \in Int /\ delta[q] \in Int
    BY <1>3
  <2>6. /\ u \in Nat /\ delta[r] < 0 /\ delta[q] > 0 /\ r # q
    BY <1>2
  <2> QED BY ONLY <2>1, <2>2, <2>3, <2>4, <2>5, <2>6
<1>8. SumFunction(left)' = SumFunction(delta)'
  <2> DEFINE m == [s \in Present |-> left[s] + (IF s = r THEN u ELSE 0)]
  <2>1. \A s \in Present : /\ left[s] \in Int /\ m[s] = left[s] + (IF s = r THEN u ELSE 0)
                           /\ m[s] \in Int /\ left'[s] = m[s] + (IF s = q THEN -u ELSE 0)
    BY <1>2, <1>3
  <2>2. u \in Int /\ -u \in Int
    BY <1>2
  <2> HIDE DEF m
  <2>3. Sum(m, Present) = Sum(left, Present) + u
    BY <1>3, <2>1, <2>2, SumUpdates
  <2>4. Sum(left', Present) = Sum(m, Present) + -u
    BY <1>3, <2>1, <2>2, SumUpdates
  <2>5. Sum(left, Present) \in Int
    BY <1>3, SumType
  <2>6. SumFunction(left) = Sum(left, Present) /\ SumFunction(left)' = Sum(left', Present)
    BY <1>1, SumFunctionIs DEF QuantityInv
  <2>7. SumFunction(left)' = SumFunction(left)
    BY <1>2, <2>3, <2>4, <2>5, <2>6
  <2> QED BY <1>1, <1>4, <2>7 DEF MovesInv
<1>9. phase' # "plan" /\ phase' # "done"
  BY <1>1
<1>10. \A s \in Present' :
        (delta[s] = LET d == target[s] - stock[s]
                    IN  IF d < 0 /\ keep > 0
                        THEN -Least(-d, AtLeastZero(stock[s] - keep)) ELSE d)'
  BY <1>1, <1>4 DEF MovesInv
<1>11. \A s \in Present' : 
        /\ Given(s)' = IF delta'[s] < 0 THEN left'[s] - delta'[s] ELSE 0
        /\ Got(s)' = IF delta'[s] > 0 THEN delta'[s] - left'[s] ELSE 0
  BY <1>1, <1>7
<1> QED BY <1>8, <1>9, <1>10, <1>11 DEF MovesInv

LEMMA MovesStep ==
    RunInv /\ QuantityInv /\ QuantityInv' /\ MovesInv /\ [ComputeNext]_computeVars => MovesInv'
<1> SUFFICES ASSUME RunInv, QuantityInv, QuantityInv', MovesInv, [ComputeNext]_computeVars
             PROVE  MovesInv'
  OBVIOUS
<1>1. CASE Plan
  BY <1>1, MovesStart
<1>2. ASSUME NEW r \in Present, NEW q \in Present, Move(r, q) PROVE MovesInv'
  BY <1>2, MovesMove
<1>3. UNCHANGED <<keep, stock, hand, balance, Present>>
  BY InputsStay
<1>4. CASE UNCHANGED <<target, delta, left, moved>> /\ (phase' = "plan" => phase = "plan")
           /\ (Planned' => Planned) /\ (phase' = "done" /\ Planned' => NothingToPair)
  <2>1. UNCHANGED NothingToPair
    BY <1>3, <1>4 DEF NothingToPair, Donors, Recipients
  <2>2. \A r : UNCHANGED <<Given(r), Got(r)>>
    BY <1>3, <1>4 DEF Given, Got
  <2> QED BY <1>3, <1>4, <2>1, <2>2 DEF MovesInv
<1>5. CASE MovesEnd
  BY <1>4, <1>5 DEF MovesEnd, Planned, plan, moves
<1>6. CASE Ship
  BY <1>3, <1>4, <1>6, NoneOfHands DEF Ship, Planned, RunInv, plan, moves
<1>7. CASE LeaveOut
  BY <1>3, <1>4, <1>7, NoneOfHands DEF LeaveOut, Planned, RunInv, plan, moves
<1>8. CASE Balance
  BY <1>3, <1>4, <1>8, NoneOfBalances DEF Balance, Planned, RunInv, plan, moves
<1>9. CASE UNCHANGED computeVars
  <2>1. UNCHANGED <<target, delta, left, moved, phase, Planned>>
    BY <1>9 DEF computeVars, Planned, plan, moves
  <2> QED BY <1>4, <2>1 DEF MovesInv
<1> QED BY <1>1, <1>2, <1>5, <1>6, <1>7, <1>8, <1>9 DEF ComputeNext

\* When nothing can be paired any more, one side is finished; without a minimum the
\* planned changes add up to zero, and so the other one is finished too.
LEMMA MovesReach == RunInv /\ QuantityInv /\ PlanIsProportional /\ MovesInv => MovesReachPlan
<1> SUFFICES ASSUME RunInv, QuantityInv, PlanIsProportional, MovesInv, phase = "done", Planned
             PROVE  /\ \A r \in Present :
                         /\ Given(r) = 0 \/ Got(r) = 0
                         /\ Given(r) > 0 => After(r) >= keep /\ After(r) >= target[r]
                         /\ Got(r) > 0 => After(r) <= target[r]
                    /\ \/ \A r \in Present : After(r) >= target[r]
                       \/ \A r \in Present : After(r) <= target[r] \/ After(r) <= keep
                    /\ keep = 0 => \A r \in Present : After(r) = target[r]
  BY DEF MovesReachPlan
<1>1. ASSUME NEW r \in Present
      PROVE  /\ stock[r] \in Nat /\ target[r] \in Nat /\ delta[r] \in Int /\ left[r] \in Int
             /\ keep \in Nat
             /\ delta[r] < 0 => left[r] >= delta[r] /\ left[r] <= 0
             /\ delta[r] >= 0 => left[r] >= 0 /\ left[r] <= delta[r]
             /\ Given(r) = IF delta[r] < 0 THEN left[r] - delta[r] ELSE 0
             /\ Got(r) = IF delta[r] > 0 THEN delta[r] - left[r] ELSE 0
             /\ After(r) = stock[r] - Given(r) + Got(r)
  BY DEF QuantityInv, MovesInv, After
<1>2. ASSUME NEW r \in Present
      PROVE  /\ keep = 0 => delta[r] = target[r] - stock[r]
             /\ delta[r] >= target[r] - stock[r]
             /\ delta[r] > 0 => delta[r] = target[r] - stock[r]
             /\ delta[r] < 0 => stock[r] + delta[r] >= keep
             /\ delta[r] <= 0 => \/ stock[r] + delta[r] = target[r]
                                 \/ stock[r] + delta[r] <= keep
  <2>1. delta[r] = LET d == target[r] - stock[r]
                   IN  IF d < 0 /\ keep > 0
                       THEN -Least(-d, AtLeastZero(stock[r] - keep)) ELSE d
    BY DEF MovesInv
  <2>2. stock[r] \in Nat /\ target[r] \in Nat /\ keep \in Nat
    BY <1>1
  <2> QED BY <2>1, <2>2 DEF Least, AtLeastZero
<1>3. \A r \in Present : After(r) = stock[r] + delta[r] - left[r]
  BY <1>1
<1>4. NothingToPair
  BY DEF MovesInv
<1>5. ASSUME NEW r \in Present
      PROVE  /\ Given(r) = 0 \/ Got(r) = 0
             /\ Given(r) > 0 => After(r) >= keep /\ After(r) >= target[r]
             /\ Got(r) > 0 => After(r) <= target[r]
  <2>1. stock[r] \in Nat /\ target[r] \in Nat /\ delta[r] \in Int /\ left[r] \in Int /\ keep \in Nat
        /\ (delta[r] < 0 => left[r] >= delta[r] /\ left[r] <= 0)
        /\ (delta[r] >= 0 => left[r] >= 0 /\ left[r] <= delta[r])
    BY <1>1
  <2>2. delta[r] >= target[r] - stock[r]
        /\ (delta[r] > 0 => delta[r] = target[r] - stock[r])
        /\ (delta[r] < 0 => stock[r] + delta[r] >= keep)
        /\ (delta[r] <= 0 => stock[r] + delta[r] = target[r] \/ stock[r] + delta[r] <= keep)
    BY <1>2
  <2>3. /\ Given(r) = IF delta[r] < 0 THEN left[r] - delta[r] ELSE 0
        /\ Got(r) = IF delta[r] > 0 THEN delta[r] - left[r] ELSE 0
        /\ After(r) = stock[r] - Given(r) + Got(r)
    BY <1>1
  <2> QED BY ONLY <2>1, <2>2, <2>3
<1>6. ASSUME keep = 0 PROVE Sum(left, Present) = 0
  <2>1. IsFiniteSet(Present)
    BY FinitePresent
  <2>2. \A r \in Present : delta[r] \in Int /\ stock[r] \in Int /\ target[r] = delta[r] + stock[r]
    BY <1>1, <1>2, <1>6
  <2>3. Sum(target, Present) = Sum(delta, Present) + Sum(stock, Present)
    BY <2>1, <2>2, SumAdds
  <2>4. Sum(target, Present) = Sum(stock, Present) /\ Sum(left, Present) = Sum(delta, Present)
    BY RegionSums DEF PlanIsProportional, MovesInv
  <2>5. Sum(delta, Present) \in Int /\ Sum(stock, Present) \in Int
    BY <1>1, <2>1, SumType
  <2> QED BY <2>3, <2>4, <2>5
<1>7. CASE Donors = {}
  <2>1. \A r \in Present : left[r] >= 0
    BY <1>1, <1>7 DEF Donors
  <2>2. ASSUME NEW r \in Present PROVE After(r) <= target[r] \/ After(r) <= keep
    <3>1. stock[r] \in Nat /\ target[r] \in Nat /\ delta[r] \in Int /\ left[r] \in Int /\ keep \in Nat
          /\ (delta[r] < 0 => left[r] >= delta[r] /\ left[r] <= 0)
          /\ (delta[r] >= 0 => left[r] >= 0 /\ left[r] <= delta[r])
      BY <1>1
    <3>2. delta[r] >= target[r] - stock[r]
          /\ (delta[r] > 0 => delta[r] = target[r] - stock[r])
          /\ (delta[r] < 0 => stock[r] + delta[r] >= keep)
          /\ (delta[r] <= 0 => stock[r] + delta[r] = target[r] \/ stock[r] + delta[r] <= keep)
      BY <1>2
    <3>3. left[r] >= 0 /\ After(r) = stock[r] + delta[r] - left[r]
      BY <1>3, <2>1
    <3> QED BY ONLY <3>1, <3>2, <3>3
  <2>3. ASSUME keep = 0 PROVE \A r \in Present : After(r) = target[r]
    <3>1. IsFiniteSet(Present) /\ Sum(left, Present) = 0
      BY <1>6, <2>3, FinitePresent
    <3>2. \A r \in Present : left[r] \in Nat
      BY <1>1, <2>1
    <3>3. \A r \in Present : left[r] <= 0
      BY <3>1, <3>2, SumBounds
    <3> QED BY <1>1, <1>2, <1>3, <2>3, <3>2, <3>3
  <2> QED BY <1>5, <2>2, <2>3
<1>8. CASE Recipients = {}
  <2>1. \A r \in Present : left[r] <= 0
    BY <1>1, <1>8 DEF Recipients
  <2>2. \A r \in Present : After(r) >= target[r]
    BY <1>1, <1>2, <1>3, <2>1
  <2>3. ASSUME keep = 0 PROVE \A r \in Present : After(r) = target[r]
    <3>1. IsFiniteSet(Present) /\ Sum(left, Present) = 0
      BY <1>6, <2>3, FinitePresent
    <3> DEFINE z == [r \in Present |-> 0]
    <3>2. \A r \in Present : z[r] = 0 /\ left[r] \in Int /\ z[r] \in Int /\ left[r] <= z[r]
      BY <1>1, <2>1
    <3> HIDE DEF z
    <3>3. Sum(left, Present) >= Sum(z, Present)
      BY <3>1, <3>2, SumOfZeros
    <3>4. \A r \in Present : left[r] = z[r]
      BY <3>1, <3>2, <3>3, SumEqual
    <3> QED BY <1>1, <1>2, <1>3, <2>3, <3>2, <3>4
  <2> QED BY <1>5, <2>2, <2>3
<1> QED BY <1>4, <1>7, <1>8 DEF NothingToPair

-----------------------------------------------------------------------------
(***************************************************************************)
(* ship_from_hand.                                                         *)
(***************************************************************************)

\* The weights of a row at hand are natural numbers of some regions.
Weighs(w) ==
    /\ DOMAIN w \subseteq Regions /\ IsFiniteSet(DOMAIN w)
    /\ \A r \in DOMAIN w : w[r] \in Nat

LEMMA ScaledSum ==
    ASSUME NEW u, IsFiniteSet(DOMAIN u), \A r \in DOMAIN u : u[r] \in Nat
    PROVE  /\ DOMAIN Scaled(u) = DOMAIN u
           /\ \A r \in DOMAIN u : Scaled(u)[r] \in Nat /\ Scaled(u)[r] = Scale * u[r] /\ Scaled(u)[r] % Scale = 0
           /\ SumFunction(u) \in Nat
           /\ SumFunction(Scaled(u)) = Scale * SumFunction(u)
<1>1. Scale \in Nat /\ Scale > 0
  BY ProfileAssumption
<1>2. DOMAIN Scaled(u) = DOMAIN u
  BY DEF Scaled
<1>3. ASSUME NEW r \in DOMAIN u
      PROVE  Scaled(u)[r] \in Nat /\ Scaled(u)[r] = Scale * u[r] /\ Scaled(u)[r] % Scale = 0
  <2>1. Scaled(u)[r] = u[r] * Scale
    BY DEF Scaled
  <2>2. u[r] * Scale \in Nat /\ u[r] * Scale = Scale * u[r]
    BY <1>1, Products
  <2>3. (u[r] * Scale) % Scale = 0
    BY <1>1, Multiples
  <2> QED BY <2>1, <2>2, <2>3
<1> DEFINE h == Scaled(u)
<1>4. \A r \in DOMAIN u : u[r] \in Int /\ h[r] = Scale * u[r]
  BY <1>3
<1> HIDE DEF h
<1>5. Sum(h, DOMAIN u) = Scale * Sum(u, DOMAIN u)
  BY <1>1, <1>4, SumScales
<1>6. SumFunction(u) = Sum(u, DOMAIN u) /\ SumFunction(Scaled(u)) = Sum(h, DOMAIN u)
  BY <1>2, SumFunctionIs DEF h
<1>7. SumFunction(u) \in Nat
  BY <1>6, SumType
<1> QED BY <1>2, <1>3, <1>5, <1>6, <1>7

LEMMA ScaledWeighs ==
    ASSUME NEW u, DOMAIN u \subseteq Regions, \A r \in DOMAIN u : u[r] \in Nat
    PROVE  Weighs(Scaled(u)) /\ DOMAIN Scaled(u) = DOMAIN u
<1>1. IsFiniteSet(DOMAIN u)
  BY FS_Subset, RegionsAssumption
<1> QED BY <1>1, ScaledSum DEF Weighs

LEMMA HandWeigh ==
    ASSUME RunInv, QuantityInv, phase = "ship", ~Unmatched, NEW w \in HandWeights
    PROVE  /\ Weighs(w)
           /\ DOMAIN w = {} => DOMAIN Profile \cap Present = {}
<1>1. Present \subseteq Regions /\ Present # {} /\ hand \in Hands
  BY DEF RunInv
<1>2. \A r \in Present : demand[r] \in Nat /\ stock[r] \in Nat
  BY DEF QuantityInv
<1>3. DOMAIN Profile \subseteq Regions /\ \A r \in DOMAIN Profile : Profile[r] \in Nat
  BY ProfileAssumption
<1>4. ASSUME NEW u, u \in [Present -> Nat], w = Scaled(u) PROVE Weighs(w) /\ DOMAIN w # {}
  <2>1. DOMAIN u = Present /\ \A r \in DOMAIN u : u[r] \in Nat
    BY <1>4
  <2> QED BY <1>1, <1>4, <2>1, ScaledWeighs
<1>5. CASE hand.match = "none"
  <2>1. w = Profile /\ DOMAIN Profile # {}
    BY <1>5 DEF HandWeights, Unmatched
  <2> QED BY <1>3, <2>1, FS_Subset, RegionsAssumption DEF Weighs
<1>6. CASE hand.match = "product"
  <2>1. w = Scaled(demand) /\ demand \in [Present -> Nat]
    BY <1>6 DEF HandWeights, QuantityInv
  <2> QED BY <1>4, <2>1
<1>7. CASE hand.match = "exact"
  <2>1. w \in Weights
    BY <1>7 DEF HandWeights
  <2>2. CASE Orders < MinHistory /\ DOMAIN Profile # {}
    <3> DEFINE D == DOMAIN Profile \cap Present
    <3>1. w = [r \in D |-> Profile[r]]
      BY <2>1, <2>2 DEF Weights, Restrict
    <3>2. DOMAIN w = D /\ \A r \in D : w[r] \in Nat
      BY <1>3, <3>1
    <3>3. IsFiniteSet(D) /\ D \subseteq Regions
      BY <1>1, FS_Subset, RegionsAssumption
    <3> QED BY <3>2, <3>3 DEF Weighs
  <2>3. CASE ~(Orders < MinHistory /\ DOMAIN Profile # {}) /\ hand.mode = "balance"
    <3> DEFINE n == SumFunction(stock) + (IF Orders = 0 THEN 1 ELSE Orders)
    <3>1. PICK t \in Allocations(n, IF Orders = 0 THEN Equal ELSE demand) :
            w = Scaled([r \in Present |-> AtLeastZero(t[r] - stock[r])])
      BY <2>1, <2>3 DEF Weights
    <3>2. n \in Nat
      BY StockSum
    <3> HIDE DEF n
    <3>3. t \in [Present -> Nat]
      BY <3>1, <3>2, ShareWeights
    <3>4. [r \in Present |-> AtLeastZero(t[r] - stock[r])] \in [Present -> Nat]
      BY <1>2, <3>3 DEF AtLeastZero
    <3> QED BY <1>4, <3>1, <3>4
  <2>4. CASE ~(Orders < MinHistory /\ DOMAIN Profile # {}) /\ hand.mode # "balance"
    <3>1. w = Scaled([r \in Present |-> AtLeastZero(demand[r] - stock[r])])
      BY <2>1, <2>4 DEF Weights
    <3>2. [r \in Present |-> AtLeastZero(demand[r] - stock[r])] \in [Present -> Nat]
      BY <1>2 DEF AtLeastZero
    <3> QED BY <1>4, <3>1, <3>2
  <2> QED BY <2>2, <2>3, <2>4
<1>8. hand.match \in {"exact", "product", "none"}
  BY <1>1 DEF Unmatched, Hands
<1> QED BY <1>5, <1>6, <1>7, <1>8

LEMMA NeedsType ==
    ASSUME NEW w, Weighs(w), NEW n \in Needs(w)
    PROVE  n \in Nat /\ (SumFunction(w) = 0 => n = 0)
<1>1. Scale \in Nat /\ Scale > 0
  BY ProfileAssumption
<1>2. SumFunction(w) \in Nat /\ \A r \in DOMAIN w : w[r] <= SumFunction(w) /\ w[r] \in Nat
  BY SumFunctionIs, SumType, SumBounds DEF Weighs
<1> DEFINE s == SumFunction(w)
           d == s \div Scale
           fractions == \E r \in DOMAIN w : w[r] % Scale # 0
<1>3. d \in Nat /\ s % Scale \in Nat /\ s = Scale * d + (s % Scale)
  <2> HIDE DEF s
  <2> QED BY <1>1, <1>2, Division DEF s
<1>4. n = d \/ (fractions /\ s % Scale = 0 /\ n = d - 1)
  BY DEF Needs
<1>5. ASSUME fractions PROVE s > 0
  <2>1. PICK r \in DOMAIN w : w[r] % Scale # 0
    BY <1>5
  <2>2. w[r] # 0
    <3>1. 0 % Scale = 0
      BY <1>1
    <3> QED BY <2>1, <3>1
  <2> QED BY <1>2, <2>2
<1>6. s = 0 => d = 0
  <2> HIDE DEF d
  <2>1. ASSUME s = 0, d >= 1 PROVE FALSE
    <3>1. Scale * 1 <= Scale * d
      BY <1>1, <1>3, <2>1, ProductGrows
    <3> QED BY <1>1, <1>3, <2>1, <3>1
  <2> QED BY <1>3, <2>1
<1>7. s % Scale = 0 /\ s > 0 => d > 0
  <2> HIDE DEF d
  <2>1. ASSUME s % Scale = 0, d = 0 PROVE s = 0
    BY <1>1, <1>3, <2>1
  <2> QED BY <1>2, <1>3, <2>1
<1> HIDE DEF s, d, fractions
<1>8. n \in Nat /\ (s = 0 => n = 0)
  BY <1>2, <1>3, <1>4, <1>5, <1>6, <1>7 DEF s
<1> QED BY <1>8 DEF s

LEMMA HandQuantity == RunInv /\ phase = "ship" => hand.qty \in Nat /\ hand.all \in BOOLEAN
BY NumbersAssumption DEF RunInv, Hands

LEMMA AllowedType ==
    ASSUME NEW w, Weighs(w), hand.qty \in Nat, NEW n \in Allowed(w)
    PROVE  /\ n \in Nat /\ n <= hand.qty
           /\ ~hand.all => (SumFunction(w) = 0 => n = 0)
<1>1. CASE hand.all
  BY <1>1 DEF Allowed
<1>2. CASE ~hand.all
  <2>1. PICK m \in Needs(w) : n = Least(hand.qty, m)
    BY <1>2 DEF Allowed
  <2>2. m \in Nat /\ (SumFunction(w) = 0 => m = 0)
    BY <2>1, NeedsType
  <2> QED BY <2>1, <2>2 DEF Least
<1> QED BY <1>1, <1>2

LEMMA ShipKeepsUnits ==
    ASSUME RunInv, QuantityInv, phase = "ship", ~Unmatched,
           NEW w \in HandWeights, NEW n \in Allowed(w), NEW a \in Allocations(n, w)
    PROVE  /\ a \in [DOMAIN w -> Nat] /\ DOMAIN w \subseteq Regions
           /\ hand.qty - n \in Nat
           /\ \/ SumFunction(a) + (hand.qty - n) = hand.qty
              \/ hand.all /\ DOMAIN Profile \cap Present = {}
<1>1. Weighs(w) /\ (DOMAIN w = {} => DOMAIN Profile \cap Present = {})
  BY HandWeigh
<1>2. hand.qty \in Nat
  BY HandQuantity
<1>3. n \in Nat /\ n <= hand.qty /\ (~hand.all => (SumFunction(w) = 0 => n = 0))
  BY <1>1, <1>2, AllowedType
<1>4. a \in [DOMAIN w -> Nat] /\ SumFunction(a) = IF DOMAIN w = {} THEN 0 ELSE n
  BY <1>1, <1>3, AllocationSums DEF Weighs
<1>5. DOMAIN w = {} => SumFunction(w) = 0
  BY SumFunctionIs, SumOfNone
<1> QED BY <1>1, <1>2, <1>3, <1>4, <1>5 DEF Weighs

Uncovered == [r \in Present |-> AtLeastZero(demand[r] - stock[r])]

\* No more units are shared out than are uncovered, so that no share is above what is
\* uncovered; if they are as many, all shares are what is uncovered.
LEMMA ShipCovers ==
    ASSUME RunInv, QuantityInv, phase = "ship",
           hand.match = "exact", hand.mode = "redistribute", ~hand.all,
           Orders >= MinHistory \/ DOMAIN Profile = {},
           NEW w \in HandWeights, NEW n \in Allowed(w), NEW a \in Allocations(n, w)
    PROVE  /\ \A r \in Present : a[r] <= Uncovered[r]
           /\ hand.qty - n > 0 => a = Uncovered
<1> DEFINE U == SumFunction(Uncovered)
           S == Scale * U
<1>1. Uncovered \in [Present -> Nat] /\ IsFiniteSet(Present)
  BY FinitePresent DEF Uncovered, AtLeastZero, QuantityInv
<1>2. w = Scaled(Uncovered)
  <2>1. w \in Weights
    BY DEF HandWeights
  <2>2. ~(Orders < MinHistory /\ DOMAIN Profile # {}) /\ hand.mode # "balance"
    BY StockSum, NumbersAssumption
  <2> QED BY <2>1, <2>2 DEF Weights, Uncovered
<1>3. /\ DOMAIN w = Present /\ U \in Nat /\ SumFunction(w) = S
      /\ \A r \in Present : w[r] \in Nat /\ w[r] = Scale * Uncovered[r] /\ w[r] % Scale = 0
      /\ Uncovered = [r \in Present |-> Uncovered[r]]
  BY <1>1, <1>2, ScaledSum
<1>4. Scale \in Nat /\ Scale > 0
  BY ProfileAssumption
<1>5. n = Least(hand.qty, U) /\ n \in Nat /\ n <= U /\ (hand.qty - n > 0 => n = U)
  <2>1. SumFunction(w) \div Scale = U
    <3> HIDE DEF U
    <3> QED BY <1>3, <1>4, Multiples
  <2>2. Needs(w) = {U}
    BY <1>3, <2>1 DEF Needs
  <2>3. n = Least(hand.qty, U)
    BY <2>2 DEF Allowed
  <2>4. hand.qty \in Nat
    BY HandQuantity
  <2> HIDE DEF U
  <2> QED BY <1>3, <2>3, <2>4 DEF Least
<1>6. U = Sum(Uncovered, Present)
  BY <1>1, SumFunctionIs
<1>7. a \in [Present -> Nat] /\ SumFunction(a) = IF Present = {} THEN 0 ELSE n
  BY <1>1, <1>3, <1>5, AllocationSums
<1> HIDE DEF U
<1>8. ASSUME NEW r \in Present PROVE a[r] <= Uncovered[r]
  <2> DEFINE u == Uncovered[r]
             b == a[r]
  <2>1. u \in Nat /\ b \in Nat
    BY <1>1, <1>7
  <2>2. CASE U = 0
    <3>1. n = 0
      BY <1>5, <2>2
    <3>2. Sum(a, Present) = 0
      BY <1>7, <3>1, SumFunctionIs, SumOfNone
    <3>3. a[r] <= Sum(a, Present)
      BY <1>1, <1>7, SumBounds
    <3> QED BY <2>1, <3>2, <3>3
  <2>3. CASE U # 0
    <3>1. S \in Nat /\ S > 0
      <4>1. U >= 1 /\ Scale * 1 <= Scale * U
        BY <1>3, <1>4, <2>3, ProductGrows
      <4> QED BY <1>3, <1>4, <4>1, Products
    <3>2. a \in WithRest(n, w)
      BY <1>3, <3>1 DEF Allocations
    <3>3. a[r] * S < n * w[r] + S
      <4>1. /\ IsFiniteSet(DOMAIN w) /\ \A k \in DOMAIN w : w[k] \in Nat
            /\ SumFunction(w) # 0 /\ n \in Nat /\ r \in DOMAIN w
        BY <1>1, <1>3, <1>5, <3>1
      <4>2. a[r] * SumFunction(w) < n * w[r] + SumFunction(w)
        BY <3>2, <4>1, RestIsFair
      <4> QED BY <1>3, <4>2
    <3>4. n * w[r] <= S * u
      <4>1. w[r] \in Nat /\ w[r] = Scale * u
        BY <1>3
      <4>2. w[r] * n <= w[r] * U
        BY <1>3, <1>5, <4>1, ProductGrows
      <4>3. w[r] * U = S * u
        <5> HIDE DEF u
        <5> QED BY <1>3, <1>4, <2>1, <4>1
      <4>4. n * w[r] = w[r] * n
        BY <1>5, <4>1, Products
      <4> QED BY <4>2, <4>3, <4>4
    <3> HIDE DEF S, u, b
    <3>5. b * S < S * u + S
      <4>1. n * w[r] \in Int /\ b * S \in Int /\ S * u \in Int
        BY <1>3, <1>5, <2>1, <3>1, Products
      <4> QED BY <3>1, <3>3, <3>4, <4>1 DEF b
    <3>6. ~ b >= u + 1
      <4> SUFFICES ASSUME b >= u + 1 PROVE FALSE
        OBVIOUS
      <4>1. S * (u + 1) <= S * b
        BY <2>1, <3>1, ProductGrows
      <4>2. S * (u + 1) = S * u + S
        BY <2>1, <3>1
      <4>3. S * b = b * S /\ S * b \in Int /\ S * u \in Int
        BY <2>1, <3>1, Products
      <4> QED BY <3>1, <3>5, <4>1, <4>2, <4>3
    <3> QED BY <2>1, <3>6 DEF u, b
  <2> QED BY <2>2, <2>3
<1>9. ASSUME hand.qty - n > 0 PROVE a = Uncovered
  <2>1. Present # {}
    BY DEF RunInv
  <2>2. Sum(a, Present) = U
    BY <1>5, <1>7, <1>9, <2>1, SumFunctionIs
  <2>3. \A r \in Present : a[r] \in Int /\ Uncovered[r] \in Int /\ a[r] <= Uncovered[r]
    BY <1>1, <1>7, <1>8
  <2>4. Sum(a, Present) >= Sum(Uncovered, Present)
    BY <1>3, <1>6, <2>2
  <2>5. \A r \in Present : a[r] = Uncovered[r]
    BY <1>1, <2>3, <2>4, SumEqual
  <2> QED BY <1>1, <1>7, <2>5
<1> QED BY <1>8, <1>9

LEMMA ShipStep ==
    RunInv /\ QuantityInv /\ ShipsByNeed /\ [ComputeNext]_computeVars => ShipsByNeed'
<1> SUFFICES ASSUME RunInv, QuantityInv, ShipsByNeed, [ComputeNext]_computeVars
             PROVE  ShipsByNeed'
  OBVIOUS
<1>1. UNCHANGED <<demand, stock, keep, hand, balance, Present>>
  BY InputsStay
<1>2. UNCHANGED Orders
  BY <1>1 DEF Orders
<1>3. CASE Plan
  BY <1>3 DEF Plan, ShipsByNeed
<1>4. ASSUME NEW r \in Present, NEW q \in Present, Move(r, q) PROVE ShipsByNeed'
  BY <1>4 DEF Move, ShipsByNeed
<1>5. CASE MovesEnd
  BY <1>1, <1>5 DEF MovesEnd, RunInv, ShipsByNeed
<1>6. CASE Ship
  <2>1. phase = "ship" /\ ~Unmatched
    BY <1>6 DEF Ship
  <2>2. PICK w \in HandWeights : \E n \in Allowed(w) : \E a \in Allocations(n, w) :
          shipment' = [sent |-> a, over |-> hand.qty - n]
    BY <1>6 DEF Ship
  <2> PICK n \in Allowed(w) : \E a \in Allocations(n, w) :
          shipment' = [sent |-> a, over |-> hand.qty - n]
    BY <2>2
  <2> PICK a \in Allocations(n, w) : shipment' = [sent |-> a, over |-> hand.qty - n]
    OBVIOUS
  <2>3. shipment'.sent = a /\ shipment'.over = hand.qty - n
    OBVIOUS
  <2>4. \/ SumFunction(a) + (hand.qty - n) = hand.qty
        \/ hand.all /\ DOMAIN Profile \cap Present = {}
    BY <2>1, ShipKeepsUnits
  <2>5. (/\ hand.match = "exact" /\ hand.mode = "redistribute" /\ ~hand.all
         /\ Orders >= MinHistory \/ DOMAIN Profile = {})
        => /\ \A r \in Present : a[r] <= Uncovered[r]
           /\ hand.qty - n > 0 => a = Uncovered
    BY <2>1, ShipCovers
  <2> QED BY <1>1, <1>2, <2>3, <2>4, <2>5 DEF ShipsByNeed, Uncovered
<1>7. CASE LeaveOut
  <2>1. shipment' = [NoShipment EXCEPT !.over = hand.qty] /\ Unmatched /\ phase = "ship"
    BY <1>7 DEF LeaveOut
  <2>2. shipment'.sent = [r \in {} |-> 0] /\ shipment'.over = hand.qty
    BY <2>1 DEF NoShipment
  <2>3. DOMAIN shipment'.sent = {}
    BY <2>2
  <2>4. SumFunction(shipment'.sent) = 0
    BY <2>3, SumFunctionIs, SumOfNone
  <2>5. hand.match # "exact" /\ hand.qty \in Nat
    BY <2>1, HandQuantity DEF Unmatched
  <2> QED BY <1>1, <1>2, <2>2, <2>4, <2>5 DEF ShipsByNeed
<1>8. CASE Balance
  BY <1>1, <1>8 DEF Balance, RunInv, ShipsByNeed
<1>9. CASE UNCHANGED computeVars
  BY <1>1, <1>2, <1>9 DEF computeVars, ShipsByNeed
<1> QED BY <1>3, <1>4, <1>5, <1>6, <1>7, <1>8, <1>9 DEF ComputeNext

-----------------------------------------------------------------------------
(***************************************************************************)
(* store_balance, and what the three results are.                          *)
(***************************************************************************)

LEMMA TransferIsLargest ==
    ASSUME NEW b \in Balances
    PROVE  LET n == Least(Movable(b), Needed(b))
           IN  /\ n \in Nat /\ (n > 0 => MayMove(b, n))
               /\ \A m \in 1 .. b.from : MayMove(b, m) => m <= n
<1>1. /\ b.from \in Nat /\ b.to \in Nat /\ b.min \in Nat /\ b.max \in Nat
      /\ b.mode \in {"equalize", "donor_recipient"}
  <2>1. /\ b.from \in 1 .. MaxQty /\ b.to \in 0 .. MaxQty /\ b.max \in 0 .. MaxQty
        /\ b.min \in Keeps /\ b.mode \in {"equalize", "donor_recipient"}
    BY DEF Balances
  <2>2. MaxQty \in Nat /\ Keeps \subseteq Nat
    BY NumbersAssumption
  <2>3. b.min \in Nat
    BY <2>1, <2>2
  <2>4. b.from \in Nat /\ b.to \in Nat /\ b.max \in Nat
    BY <2>1, <2>2
  <2> QED BY <2>1, <2>3, <2>4
<1> DEFINE h == Half(b)
<1>2. h \in Nat /\ 2 * h <= b.from + b.to /\ b.from + b.to <= 2 * h + 1
  BY <1>1 DEF Half
<1> HIDE DEF h
<1>3. CASE b.mode = "equalize"
  BY <1>1, <1>2, <1>3 DEF Movable, Needed, MayMove, Least, AtLeastZero, h
<1>4. CASE b.mode = "donor_recipient"
  BY <1>1, <1>4 DEF Movable, Needed, MayMove, Least, AtLeastZero
<1> QED BY <1>1, <1>3, <1>4

LEMMA BalanceStep ==
    RunInv /\ BalanceIsLargest /\ [ComputeNext]_computeVars => BalanceIsLargest'
<1> SUFFICES ASSUME RunInv, BalanceIsLargest, [ComputeNext]_computeVars
             PROVE  BalanceIsLargest'
  OBVIOUS
<1>1. UNCHANGED <<hand, balance>>
  BY InputsStay
<1>2. CASE Plan
  BY <1>2 DEF Plan, BalanceIsLargest
<1>3. ASSUME NEW r \in Present, NEW q \in Present, Move(r, q) PROVE BalanceIsLargest'
  BY <1>3 DEF Move, BalanceIsLargest
<1>4. CASE MovesEnd
  BY <1>1, <1>4 DEF MovesEnd, RunInv, BalanceIsLargest
<1>5. CASE Ship
  BY <1>1, <1>5 DEF Ship, RunInv, BalanceIsLargest
<1>6. CASE LeaveOut
  BY <1>1, <1>6 DEF LeaveOut, RunInv, BalanceIsLargest
<1>7. CASE Balance
  <2>1. balance \in Balances /\ transfer' = Least(Movable(balance), Needed(balance))
    BY <1>7 DEF Balance, RunInv
  <2>2. /\ transfer' > 0 => MayMove(balance, transfer')
        /\ \A n \in 1 .. balance.from : MayMove(balance, n) => n <= transfer'
    BY <2>1, TransferIsLargest
  <2> QED BY <1>1, <2>2 DEF BalanceIsLargest, MayMove
<1>8. CASE UNCHANGED computeVars
  BY <1>1, <1>8 DEF computeVars, BalanceIsLargest, MayMove
<1> QED BY <1>2, <1>3, <1>4, <1>5, <1>6, <1>7, <1>8 DEF ComputeNext

ResultInv ==
    /\ shipment.over \in Nat
    /\ \A r \in DOMAIN shipment.sent : r \in Regions /\ shipment.sent[r] \in Nat
    /\ transfer \in Nat

LEMMA ResultStep == RunInv /\ QuantityInv /\ ResultInv /\ [ComputeNext]_computeVars => ResultInv'
<1> SUFFICES ASSUME RunInv, QuantityInv, ResultInv, [ComputeNext]_computeVars PROVE ResultInv'
  OBVIOUS
<1>1. CASE Plan
  BY <1>1 DEF Plan, ResultInv
<1>2. ASSUME NEW r \in Present, NEW q \in Present, Move(r, q) PROVE ResultInv'
  BY <1>2 DEF Move, ResultInv
<1>3. CASE MovesEnd
  BY <1>3 DEF MovesEnd, ResultInv
<1>4. CASE Ship
  <2>1. phase = "ship" /\ ~Unmatched /\ UNCHANGED transfer
    BY <1>4 DEF Ship
  <2>2. PICK w \in HandWeights : \E n \in Allowed(w) : \E a \in Allocations(n, w) :
          shipment' = [sent |-> a, over |-> hand.qty - n]
    BY <1>4 DEF Ship
  <2> PICK n \in Allowed(w) : \E a \in Allocations(n, w) :
          shipment' = [sent |-> a, over |-> hand.qty - n]
    BY <2>2
  <2> PICK a \in Allocations(n, w) : shipment' = [sent |-> a, over |-> hand.qty - n]
    OBVIOUS
  <2>3. shipment'.sent = a /\ shipment'.over = hand.qty - n
    OBVIOUS
  <2>4. a \in [DOMAIN w -> Nat] /\ DOMAIN w \subseteq Regions /\ hand.qty - n \in Nat
    BY <2>1, ShipKeepsUnits
  <2> QED BY <2>1, <2>3, <2>4 DEF ResultInv
<1>5. CASE LeaveOut
  <2>1. shipment' = [NoShipment EXCEPT !.over = hand.qty] /\ phase = "ship" /\ UNCHANGED transfer
    BY <1>5 DEF LeaveOut
  <2>2. shipment'.sent = [r \in {} |-> 0] /\ shipment'.over = hand.qty
    BY <2>1 DEF NoShipment
  <2>3. DOMAIN shipment'.sent = {} /\ hand.qty \in Nat
    BY <2>1, <2>2, HandQuantity
  <2> QED BY <2>1, <2>2, <2>3 DEF ResultInv
<1>6. CASE Balance
  <2>1. balance \in Balances /\ transfer' = Least(Movable(balance), Needed(balance)) /\ UNCHANGED shipment
    BY <1>6 DEF Balance, RunInv
  <2>2. transfer' \in Nat
    BY <2>1, TransferIsLargest
  <2> QED BY <2>1, <2>2 DEF ResultInv
<1>7. CASE UNCHANGED computeVars
  BY <1>7 DEF computeVars, ResultInv
<1> QED BY <1>1, <1>2, <1>3, <1>4, <1>5, <1>6, <1>7 DEF ComputeNext

-----------------------------------------------------------------------------
(***************************************************************************)
(* The inductive invariant of a computation and the theorems.              *)
(***************************************************************************)

LEMMA PhaseStep ==
    phase \in {"plan", "move", "ship", "balance", "done"} /\ [ComputeNext]_computeVars
        => phase' \in {"plan", "move", "ship", "balance", "done"}
BY DEF ComputeNext, Plan, Move, MovesEnd, Ship, LeaveOut, Balance, computeVars

ComputeInv ==
    /\ phase \in {"plan", "move", "ship", "balance", "done"}
    /\ RunInv /\ QuantityInv /\ PlanIsProportional /\ MovesInv
    /\ ResultInv /\ ShipsByNeed /\ BalanceIsLargest

LEMMA ComputeInvInit == ComputeInit => ComputeInv
<1> SUFFICES ASSUME ComputeInit PROVE ComputeInv
  OBVIOUS
<1>1. RunInv /\ QuantityInv /\ MovesInv
  BY RunInvInit, QuantityInit, MovesInit
<1>2. phase \in {"plan", "ship", "balance"}
  BY DEF ComputeInit
<1>3. shipment = NoShipment /\ transfer = 0
  BY DEF ComputeInit
<1>4. shipment.sent = [r \in {} |-> 0] /\ shipment.over = 0
  BY <1>3 DEF NoShipment
<1>5. ResultInv
  BY <1>3, <1>4 DEF ResultInv
<1>6. PlanIsProportional /\ ShipsByNeed /\ BalanceIsLargest
  BY <1>2 DEF PlanIsProportional, Planned, ShipsByNeed, BalanceIsLargest
<1> QED BY <1>1, <1>2, <1>5, <1>6 DEF ComputeInv

LEMMA ComputeInvStep == ComputeInv /\ [ComputeNext]_computeVars => ComputeInv'
<1> SUFFICES ASSUME ComputeInv, [ComputeNext]_computeVars PROVE ComputeInv'
  OBVIOUS
<1>1. phase' \in {"plan", "move", "ship", "balance", "done"}
  BY PhaseStep DEF ComputeInv
<1>2. RunInv' /\ QuantityInv'
  BY RunInvStep, QuantityStep DEF ComputeInv
<1>3. PlanIsProportional' /\ MovesInv'
  BY <1>2, ProportionalStep, MovesStep DEF ComputeInv
<1>4. ResultInv' /\ ShipsByNeed' /\ BalanceIsLargest'
  BY ResultStep, ShipStep, BalanceStep DEF ComputeInv
<1> QED BY <1>1, <1>2, <1>3, <1>4 DEF ComputeInv

LEMMA ComputeInductive == ComputeSpec => []ComputeInv
<1>1. ComputeInit => ComputeInv
  BY ComputeInvInit
<1>2. ComputeInv /\ [ComputeNext]_computeVars => ComputeInv'
  BY ComputeInvStep
<1> QED BY <1>1, <1>2, PTL DEF ComputeSpec

(***************************************************************************)
(* The types of a computation; a region is a donor or a recipient and      *)
(* never becomes the other.                                                *)
(***************************************************************************)
THEOREM ComputeTypeCorrect == ComputeSpec => []ComputeTypes
<1>1. ComputeInv => ComputeTypes
  BY DEF ComputeInv, ComputeTypes, RunInv, QuantityInv, ResultInv
<1> QED BY <1>1, ComputeInductive, PTL

(***************************************************************************)
(* The whole stock is shared out, and each region's target is its exact    *)
(* share of it rounded up or down, for any demands, stocks and number of   *)
(* regions and any order among equal remainders                            *)
(* (largest_remainder_allocation).                                         *)
(***************************************************************************)
THEOREM SharesProportional == ComputeSpec => []PlanIsProportional
<1>1. ComputeInv => PlanIsProportional
  BY DEF ComputeInv
<1> QED BY <1>1, ComputeInductive, PTL

(***************************************************************************)
(* Pairing the donors with the recipients ends where no further movement   *)
(* could be made: nobody gives and gets, a donor keeps the minimum, a      *)
(* recipient stays within its target, and without a minimum the plan is    *)
(* reached (_allocate_movements).                                          *)
(***************************************************************************)
THEOREM PlanReached == ComputeSpec => []MovesReachPlan
<1>1. ComputeInv => MovesReachPlan
  BY MovesReach DEF ComputeInv
<1> QED BY <1>1, ComputeInductive, PTL

(***************************************************************************)
(* Every unit at hand is sent or reported as left over but for a run that  *)
(* ships all by a profile of other regions, and what is measured against   *)
(* the uncovered demand never exceeds it and falls short of it in no       *)
(* region while units are left over (compute_ship_from_hand).              *)
(***************************************************************************)
THEOREM ShippedByNeed == ComputeSpec => []ShipsByNeed
<1>1. ComputeInv => ShipsByNeed
  BY DEF ComputeInv
<1> QED BY <1>1, ComputeInductive, PTL

(***************************************************************************)
(* The transfer between two accounts is the largest that keeps the minimum *)
(* of the one, the maximum of the other, and the order of the two when     *)
(* equalizing (compute_store_balance).                                     *)
(***************************************************************************)
THEOREM BalancedMost == ComputeSpec => []BalanceIsLargest
<1>1. ComputeInv => BalanceIsLargest
  BY DEF ComputeInv
<1> QED BY <1>1, ComputeInductive, PTL

=============================================================================
