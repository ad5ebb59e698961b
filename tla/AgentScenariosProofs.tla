------------------------ MODULE AgentScenariosProofs ------------------------
(***************************************************************************)
(* Theorems about the schedule of the scenarios, for any sets of           *)
(* scenarios, processes and requests and any bounds.                       *)
(*                                                                         *)
(* The argument is about what is locked: a claimed scenario is due and     *)
(* nobody else's (LockInv), so that a commit counts a run for a due time   *)
(* that no run has been counted for (CountInv).  A request only ever       *)
(* writes a next time that is absent or in the future, and one that fits   *)
(* the rest of what it writes (RequestInv).                                *)
(***************************************************************************)
EXTENDS AgentScenarios, TLAPS

LockInv == \A j \in Jobs : \A s \in claimed[j] : Due(row[s])

\* A scenario that is due has not been run for that time.
CountInv ==
    \A s \in Scenarios :
        /\ runs[s] <= dues[s]
        /\ row[s].next \in Nat => runs[s] < dues[s]

\* A row with a next time is to run by itself and has times, and the other way round.
Fits(r) == r.next # None <=> Eligible(r) /\ r.sched = "timed"

RequestInv ==
    \A q \in Requests :
        /\ request[q] = NoRequest \/ request[q].scenario \in Scenarios
        /\ request[q].new.next \notin Nat
        /\ request[q].scenario \in Scenarios \ raced =>
             Fits(request[q].view) /\ Fits(request[q].new)

IInv == TypeOK /\ LockInv /\ CountInv /\ RequestInv /\ ScheduleMatches

-----------------------------------------------------------------------------
(* Rows.                                                                   *)

LEMMA AbsentFits == Absent \in Row /\ Fits(Absent)
BY DEF Absent, Row, Fits, Eligible

\* What has been computed anew fits.
LEMMA NextFits ==
    ASSUME NEW r \in Row
    PROVE  LET n == [r EXCEPT !.next = NextRun(r)]
           IN n \in Row /\ n.next \notin Nat /\ Fits(n)
BY NamesAssumption DEF Row, NextRun, Fits, Eligible

\* What a request writes is a row; it does not become due by it, and it fits if the
\* columns that were read have not changed.
LEMMA WrittenFits ==
    ASSUME NEW now \in Row, NEW view \in Row, NEW new \in Row, new.next \notin Nat,
           NEW r \in Written(now, view, new)
    PROVE  /\ r \in Row
           /\ r.next \in Nat => now.next = r.next
           /\ (~Outdated(now, view) /\ Fits(now) /\ Fits(view) /\ Fits(new)) => Fits(r)
<1>1. Merged(now, view, new) \in Row
  BY DEF Merged, Column, Row
<1>2. /\ r \in Row
      /\ r.status = Merged(now, view, new).status
      /\ r.auto = Merged(now, view, new).auto
      /\ r.sched = Merged(now, view, new).sched
      /\ \/ r.next = Merged(now, view, new).next
         \/ r.next = Later /\ view.next = Later /\ new.next = Later
  <2>1. CASE r = Merged(now, view, new)
    BY <1>1, <2>1
  <2>2. CASE /\ view.next = Later /\ new.next = Later
             /\ r = [Merged(now, view, new) EXCEPT !.next = Later]
    BY <1>1, <2>2 DEF Row
  <2> QED BY <2>1, <2>2 DEF Written
<1>3. r.next \in Nat => now.next = r.next
  BY <1>2, NamesAssumption DEF Merged, Column
<1>4. ASSUME ~Outdated(now, view), Fits(now), Fits(view), Fits(new) PROVE Fits(r)
  <2>1. now.status = view.status /\ now.auto = view.auto /\ now.sched = view.sched
    BY <1>4 DEF Outdated, Row
  <2>2. r.status = new.status /\ r.auto = new.auto /\ r.sched = new.sched
    BY <1>2, <2>1 DEF Merged, Column
  <2>3. r.next # None <=> new.next # None
    BY <1>2, <1>4, <2>1, NamesAssumption DEF Merged, Column, Fits, Eligible
  <2> QED BY <1>4, <2>2, <2>3 DEF Fits, Eligible
<1> QED BY <1>2, <1>3, <1>4

LEMMA InitHolds == Init => IInv
<1> SUFFICES ASSUME Init PROVE IInv
  OBVIOUS
<1>1. TypeOK
  BY AbsentFits, NamesAssumption DEF Init, TypeOK, NoRequest
<1>2. LockInv /\ CountInv
  BY NamesAssumption DEF Init, LockInv, CountInv, Absent
<1>3. RequestInv /\ ScheduleMatches
  BY AbsentFits, NamesAssumption DEF Init, RequestInv, ScheduleMatches, NoRequest, Fits, Absent
<1> QED BY <1>1, <1>2, <1>3 DEF IInv

-----------------------------------------------------------------------------
(* The steps of time and of the job.                                       *)

LEMMA ElapseKeeps == ASSUME IInv, NEW s \in Scenarios, Elapse(s) PROVE IInv'
<1> USE NamesAssumption DEF IInv, Elapse, job
<1>1. TypeOK'
  <2>1. row[s] \in Row /\ used.dues + 1 \in Nat
    BY DEF TypeOK
  <2>2. [row[s] EXCEPT !.next = used.dues + 1] \in Row
    BY <2>1 DEF Row
  <2> QED BY <2>1, <2>2 DEF TypeOK
<1>2. LockInv'
  BY DEF TypeOK, LockInv, Due, Eligible, Row
<1>3. CountInv'
  BY DEF TypeOK, CountInv, Row
<1>4. RequestInv' /\ ScheduleMatches'
  BY DEF TypeOK, RequestInv, ScheduleMatches, Eligible, Row
<1> QED BY <1>1, <1>2, <1>3, <1>4

\* Only free rows that are due are claimed.
LEMMA ClaimKeeps == ASSUME IInv, NEW j \in Jobs, Claim(j) PROVE IInv'
<1> USE DEF IInv, Claim
<1>1. Oldest \subseteq Scenarios /\ \A s \in Oldest : Due(row[s]) /\ ~Locked(s)
  BY DEF Oldest, Free
<1>2. TypeOK'
  BY <1>1 DEF TypeOK, Locked
<1>3. LockInv'
  BY <1>1 DEF TypeOK, LockInv
<1>4. CountInv' /\ RequestInv' /\ ScheduleMatches'
  BY DEF CountInv, RequestInv, ScheduleMatches
<1> QED BY <1>2, <1>3, <1>4

LEMMA ExecuteKeeps == ASSUME IInv, NEW j \in Jobs, NEW s \in Scenarios, Execute(j, s) PROVE IInv'
BY DEF IInv, Execute, Remaining, TypeOK, LockInv, CountInv, RequestInv, ScheduleMatches

LEMMA PassFailsKeeps == ASSUME IInv, NEW j \in Jobs, PassFails(j) PROVE IInv'
BY DEF IInv, PassFails, Ends, TypeOK, LockInv, CountInv, RequestInv, ScheduleMatches

LEMMA PassLostKeeps == ASSUME IInv, NEW j \in Jobs, PassLost(j) PROVE IInv'
BY DEF IInv, PassLost, Ends, TypeOK, LockInv, CountInv, RequestInv, ScheduleMatches

LEMMA CommitPassKeeps == ASSUME IInv, NEW j \in Jobs, CommitPass(j) PROVE IInv'
<1> USE DEF IInv, CommitPass, Ends
<1>1. \A s \in claimed[j] :
        s \in Scenarios /\ Due(row[s]) /\ row'[s] \in Row /\ row'[s].next \notin Nat /\ Fits(row'[s])
  BY NextFits DEF TypeOK, LockInv
<1>2. \A s \in Scenarios \ claimed[j] : row'[s] = row[s] /\ runs'[s] = runs[s]
  OBVIOUS
<1>3. TypeOK'
  <2>1. row' \in [Scenarios -> Row]
    <3>1. \A s \in Scenarios : row'[s] \in Row
      BY <1>1, <1>2 DEF TypeOK
    <3>2. row' = [s \in Scenarios |-> row'[s]]
      OBVIOUS
    <3> QED BY <3>1, <3>2
  <2>2. runs' \in [Scenarios -> Nat]
    BY DEF TypeOK
  <2>3. /\ claimed' \in [Jobs -> SUBSET Scenarios] /\ done' \in [Jobs -> SUBSET Scenarios]
        /\ \A k \in Jobs : claimed'[k] \subseteq claimed[k] /\ done'[k] \subseteq claimed'[k]
    BY DEF TypeOK
  <2> QED BY <2>1, <2>2, <2>3 DEF TypeOK
<1>4. LockInv'
  BY <1>2 DEF TypeOK, LockInv
<1>5. CountInv'
  <2> SUFFICES ASSUME NEW s \in Scenarios
               PROVE  runs'[s] <= dues[s] /\ (row'[s].next \in Nat => runs'[s] < dues[s])
    BY DEF CountInv
  <2>1. CASE s \in claimed[j]
    <3>1. row'[s].next \notin Nat /\ runs[s] < dues[s]
      BY <1>1, <2>1 DEF CountInv, Due
    <3>2. runs'[s] = runs[s] + 1 /\ runs[s] \in Nat /\ dues[s] \in Nat
      BY <2>1 DEF TypeOK
    <3> QED BY <3>1, <3>2
  <2>2. CASE s \notin claimed[j]
    BY <1>2, <2>2 DEF CountInv
  <2> QED BY <2>1, <2>2
<1>6. RequestInv' /\ ScheduleMatches'
  BY <1>1, <1>2 DEF RequestInv, ScheduleMatches, Fits
<1> QED BY <1>3, <1>4, <1>5, <1>6

-----------------------------------------------------------------------------
(* The steps of users.                                                     *)

LEMMA CreateKeeps == ASSUME IInv, NEW s \in Scenarios, Create(s) PROVE IInv'
<1> USE DEF IInv, Create, job
<1>1. /\ row' = [row EXCEPT ![s] = row'[s]]
      /\ row'[s] \in Row /\ row'[s].next \notin Nat /\ Fits(row'[s])
  <2> DEFINE New(auto, c) ==
        [status |-> IF auto = "on" THEN "active" ELSE "other",
         auto |-> auto, sched |-> c.sched, titles |-> c.titles, next |-> None]
  <2>1. PICK auto \in {"on", "off"}, c \in Contents[s] :
          row' = [row EXCEPT ![s] = [New(auto, c) EXCEPT !.next = NextRun(New(auto, c))]]
    OBVIOUS
  <2>2. New(auto, c) \in Row
    BY NamesAssumption DEF Row
  <2> DEFINE new == New(auto, c)
             made == [new EXCEPT !.next = NextRun(new)]
  <2>3. made \in Row /\ made.next \notin Nat /\ Fits(made)
    BY <2>2, NextFits
  <2>4. row' = [row EXCEPT ![s] = made]
    BY <2>1
  <2> HIDE DEF made
  <2> QED BY <2>3, <2>4 DEF TypeOK
<1>2. TypeOK'
  BY <1>1 DEF TypeOK
<1>3. LockInv'
  BY <1>1 DEF TypeOK, LockInv, Due, Eligible, Absent
<1>4. CountInv'
  BY <1>1 DEF TypeOK, CountInv
<1>5. RequestInv' /\ ScheduleMatches'
  BY <1>1 DEF TypeOK, RequestInv, ScheduleMatches, Fits
<1> QED BY <1>2, <1>3, <1>4, <1>5

LEMMA LoadKeeps ==
    ASSUME IInv, NEW q \in Requests, NEW s \in Scenarios, Load(q, s) PROVE IInv'
<1> USE DEF IInv, Load, job
<1>1. PICK r \in Updated(s, row[s]) :
        request' = [request EXCEPT ![q] =
          [scenario |-> s, view |-> row[s], new |-> [r EXCEPT !.next = NextRun(r)]]]
  OBVIOUS
<1>2. r \in Row
  <2>1. row[s] \in Row
    BY DEF TypeOK
  <2> QED BY <2>1, NamesAssumption DEF Updated, Row
<1>3. TypeOK'
  BY <1>1, <1>2, NextFits DEF TypeOK
<1>4. RequestInv'
  <2> DEFINE new == [r EXCEPT !.next = NextRun(r)]
  <2>1. new \in Row /\ new.next \notin Nat /\ Fits(new)
    BY <1>2, NextFits
  <2>2. s \notin raced => Fits(row[s])
    BY DEF ScheduleMatches, Fits
  <2>3. request'[q].scenario = s /\ request'[q].view = row[s] /\ request'[q].new = new
    BY <1>1 DEF TypeOK
  <2>4. \A p \in Requests \ {q} : request'[p] = request[p]
    BY <1>1 DEF TypeOK
  <2>5. raced' = raced
    OBVIOUS
  <2> HIDE DEF new
  <2> SUFFICES ASSUME NEW p \in Requests
               PROVE  /\ request'[p] = NoRequest \/ request'[p].scenario \in Scenarios
                      /\ request'[p].new.next \notin Nat
                      /\ request'[p].scenario \in Scenarios \ raced =>
                           Fits(request'[p].view) /\ Fits(request'[p].new)
    BY <2>5 DEF RequestInv
  <2>6. CASE p = q
    BY <2>1, <2>2, <2>3, <2>6
  <2>7. CASE p # q
    BY <2>4, <2>7 DEF RequestInv
  <2> QED BY <2>6, <2>7
<1>5. LockInv' /\ CountInv' /\ ScheduleMatches'
  BY DEF LockInv, CountInv, ScheduleMatches
<1> QED BY <1>3, <1>4, <1>5

LEMMA WriteKeeps == ASSUME IInv, NEW q \in Requests, Write(q) PROVE IInv'
<1> USE DEF IInv, Write, job
<1> DEFINE s == request[q].scenario
           view == request[q].view
           new == request[q].new
<1>1. s \in Scenarios
  BY DEF RequestInv
<1>2. PICK r \in Written(row[s], view, new) : row' = [row EXCEPT ![s] = r]
  OBVIOUS
<1>3. /\ r \in Row
      /\ r.next \in Nat => row[s].next = r.next
      /\ (~Outdated(row[s], view) /\ Fits(row[s]) /\ Fits(view) /\ Fits(new)) => Fits(r)
  BY <1>1, WrittenFits DEF TypeOK, RequestInv
<1>4. raced \subseteq raced' /\ (s \notin raced' => ~Outdated(row[s], view))
  OBVIOUS
<1>5. TypeOK'
  BY <1>1, <1>2, <1>3, AbsentFits DEF TypeOK, NoRequest
<1>6. LockInv'
  BY <1>1, <1>2 DEF TypeOK, LockInv, Writable, Locked
<1>7. CountInv'
  BY <1>1, <1>2, <1>3 DEF TypeOK, CountInv
<1>8. RequestInv'
  BY <1>4, AbsentFits, NamesAssumption DEF TypeOK, RequestInv, NoRequest, Absent
<1>9. ScheduleMatches'
  BY <1>1, <1>2, <1>3, <1>4 DEF TypeOK, ScheduleMatches, RequestInv, Fits
<1> QED BY <1>5, <1>6, <1>7, <1>8, <1>9

-----------------------------------------------------------------------------
LEMMA StepHolds == IInv /\ [Next]_vars => IInv'
<1> SUFFICES ASSUME IInv, [Next]_vars PROVE IInv'
  OBVIOUS
<1>1. CASE \E s \in Scenarios : Elapse(s) \/ Create(s)
  BY <1>1, ElapseKeeps, CreateKeeps
<1>2. CASE \E j \in Jobs : Work(j) \/ PassLost(j)
  BY <1>2, ClaimKeeps, ExecuteKeeps, PassFailsKeeps, CommitPassKeeps, PassLostKeeps DEF Work
<1>3. CASE \E q \in Requests : Write(q) \/ \E s \in Scenarios : Load(q, s)
  BY <1>3, WriteKeeps, LoadKeeps
<1>4. CASE UNCHANGED vars
  BY <1>4 DEF vars, job, IInv, TypeOK, LockInv, CountInv, RequestInv, ScheduleMatches
<1> QED BY <1>1, <1>2, <1>3, <1>4 DEF Next

LEMMA Invariant == Spec => []IInv
BY InitHolds, StepHolds, PTL DEF Spec

\* A due time is served at most once, whatever processes run the job and whatever
\* passes are lost (process_due_scenarios 561-592).
THEOREM ServedOnce == Spec => []OncePerDueTime
<1>1. IInv => OncePerDueTime
  BY DEF IInv, CountInv, OncePerDueTime
<1> QED BY <1>1, Invariant, PTL

\* Unless two requests have met on it, a scenario's next time agrees with its schedule
\* (update_scenario 315-321, run_scenario 404-412).
THEOREM TimeAgrees == Spec => []ScheduleMatches
<1>1. IInv => ScheduleMatches
  BY DEF IInv
<1> QED BY <1>1, Invariant, PTL

\* A run by the schedule is committed only for a scenario that is due then: nobody has
\* paused it between its selection and the commit (with_for_update, 574).
THEOREM RunsOnlyEligible == Spec => RunsWhileEligible
<1> DEFINE Runs == \A s \in Scenarios : runs'[s] # runs[s] => Due(row[s])
<1>1. IInv /\ [Next]_vars => [Runs]_vars
  <2> SUFFICES ASSUME IInv, Next, NEW s \in Scenarios, runs'[s] # runs[s]
               PROVE  Due(row[s])
    OBVIOUS
  <2>1. PICK j \in Jobs : CommitPass(j)
    BY DEF Next, Work, Elapse, Create, Claim, Execute, PassFails, PassLost, Write, Load
  <2> QED BY <2>1 DEF CommitPass, IInv, LockInv
<1> QED BY <1>1, Invariant, PTL DEF Spec, RunsWhileEligible
=============================================================================
