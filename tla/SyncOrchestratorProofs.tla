----------------------- MODULE SyncOrchestratorProofs -----------------------
(***************************************************************************)
(* Proofs about SyncOrchestrator, for any sets of runs, workers and        *)
(* connections and any bounds.                                             *)
(***************************************************************************)
EXTENDS SyncOrchestrator, TLAPS

\* A worker has a connection from its first statement to its last; only the
\* service can lose it.
SessInv ==
    \A w \in Workers :
        /\ pc[w] \notin {"idle", "load", "service", "store"} => sess[w] # NoConn
        /\ pc[w] \in {"idle", "load"} => sess[w] = NoConn
        /\ psess[w] # NoConn <=> pc[w] = "pubwrite"

\* No connection is in use twice, or in use and at rest in the pool.
ConnInv ==
    /\ \A w \in Workers : sess[w] \notin free /\ psess[w] \notin free
    /\ \A v, w \in Workers :
         /\ v # w /\ sess[v] # NoConn => sess[v] # sess[w]
         /\ psess[v] # NoConn => psess[v] # sess[w]
         /\ v # w /\ psess[v] # NoConn => psess[v] # psess[w]

\* Whoever is between lock and unlock on a working connection owns the lock.
LockInv == \A w \in Workers : Live(w) => lock.conn = sess[w]

\* Only a service leaves the cursor out of what it prepares.
PrepInv ==
    \A w \in Workers :
        prep[w] = Nothing => pc[w] \in {"store", "unlock", "flush", "commit"}

IInv == TypeOK /\ SessInv /\ ConnInv /\ LockInv /\ PrepInv

\* What every step needs: the shape of the state and the names of its parts.
USE DEF rows, queue, orm, txn, progress, bounds, vars

LEMMA TypeInit == Init => IInv
  BY WorkersAssumption, AbsentAssumption
     DEF Init, UsedBounds, IInv, TypeOK, SessInv, ConnInv, LockInv, PrepInv, Live, Locked, Statuses,
         Terminal, Cursors, NoWrite, Nothing, Steps, Clear, Writes, Unlocked

LEMMA ClearType == Clear \in [Runs -> Writes] /\ Clear = [r \in Runs |-> "none"]
  BY DEF Clear, Writes

LEMMA NothingIsAWrite == NoWrite # Nothing
  BY DEF NoWrite, Nothing

LEMMA UsedType ==
    ASSUME used \in UsedBounds
    PROVE  /\ [used EXCEPT !.crashes = @ + 1] \in UsedBounds
           /\ [used EXCEPT !.kills = @ + 1] \in UsedBounds
           /\ [used EXCEPT !.timeouts = @ + 1] \in UsedBounds
           /\ [used EXCEPT !.triggers = @ + 1] \in UsedBounds
  BY DEF UsedBounds

LEMMA WriteType ==
    ASSUME NEW f \in [Runs -> Writes], NEW x, NEW e, x \in Runs => e \in Writes
    PROVE  [f EXCEPT ![x] = e] \in [Runs -> Writes]
  OBVIOUS

LEMMA PublishedType ==
    ASSUME status \in [Runs -> Statuses], NEW w, cur[w] \in Runs
    PROVE  Published(w) \in Statuses
  BY DEF Published, Statuses, Active

LEMMA EnvironmentStep == IInv /\ Environment => IInv'
<1> SUFFICES ASSUME IInv, Environment PROVE IInv'
  OBVIOUS
<1> USE AbsentAssumption DEF IInv, TypeOK, SessInv, ConnInv, LockInv, PrepInv, Live
<1>1. ASSUME NEW r \in Runs, Enqueue(r) PROVE IInv'
  BY <1>1 DEF Enqueue, Statuses, Active
<1>2. ASSUME NEW r \in Runs, Age(r) PROVE IInv'
  BY <1>2 DEF Age
<1>3. CASE ResetCursor
  BY <1>3 DEF ResetCursor, Cursors
<1>4. CASE AgeCursor
  <2>1. cursor' \in Cursors
    BY <1>4 DEF AgeCursor, Cursors
  <2> QED
    BY <1>4, <2>1 DEF AgeCursor
<1>5. CASE Crash
  <2>1. TypeOK'
    <3>1. used' \in UsedBounds
      BY <1>5, UsedType DEF Crash
    <3>2. pend' \in [Workers -> [Runs -> Writes]]
      BY <1>5, ClearType DEF Crash, NewProcess
    <3> QED
      BY <1>5, <3>1, <3>2 DEF Crash, NewProcess, Unlocked, Statuses, Steps
  <2>2. SessInv' /\ ConnInv' /\ LockInv' /\ PrepInv'
    BY <1>5, NothingIsAWrite DEF Crash, NewProcess, Locked
  <2> QED
    BY <2>1, <2>2
<1>6. ASSUME NEW c \in Conns, Recycle(c) PROVE IInv'
  BY <1>6 DEF Recycle, Unlocked
<1>7. ASSUME NEW w \in Workers, Kill(w) PROVE IInv'
  <2>1. TypeOK'
    <3>1. used' \in UsedBounds
      BY <1>7, UsedType DEF Kill
    <3>2. pend' \in [Workers -> [Runs -> Writes]]
      BY <1>7, ClearType DEF Kill
    <3>3. lock' \in [conn : Conns \cup {NoConn}, depth : Nat] /\ (lock'.conn = NoConn <=> lock'.depth = 0)
      BY <1>7 DEF Kill, LockAfterClose, Unlocked
    <3> QED
      BY <1>7, <3>1, <3>2, <3>3 DEF Kill
  <2>2. SessInv' /\ ConnInv'
    BY <1>7 DEF Kill
  <2>3. LockInv' /\ PrepInv'
    BY <1>7 DEF Kill, LockAfterClose, Locked
  <2> QED
    BY <2>1, <2>2, <2>3
<1>8. ASSUME NEW w \in Triggers, NEW c \in Conns, StartTrigger(w, c) PROVE IInv'
  BY <1>8, UsedType DEF StartTrigger, CheckOut, Goto, Workers, Steps, Locked, Idle
<1> QED
  BY <1>1, <1>2, <1>3, <1>4, <1>5, <1>6, <1>7, <1>8 DEF Environment

\* A worker that closes its session gives back what it had and nothing else.
LEMMA CloseStep ==
    ASSUME IInv, NEW w \in Workers, Close(w),
           status' \in [Runs -> Statuses], cursor' \in Cursors, used' = used,
           UNCHANGED <<old, lock, queue, fetched>>
    PROVE  IInv'
<1> USE AbsentAssumption DEF IInv, TypeOK, SessInv, ConnInv, LockInv, PrepInv, Live
<1>1. TypeOK'
  BY DEF Close, Statuses, Steps, Clear, Writes
<1>2. SessInv'
  BY DEF Close
<1>3. ConnInv'
  BY DEF Close
<1>4. LockInv' /\ PrepInv'
  BY NothingIsAWrite DEF Close, Locked
<1> QED
  BY <1>1, <1>2, <1>3, <1>4

LEMMA AbortStep ==
    ASSUME IInv, NEW w \in Workers, Abort(w), used' \in UsedBounds
    PROVE  IInv'
<1> USE AbsentAssumption DEF IInv, TypeOK, SessInv, ConnInv, LockInv, PrepInv, Live
<1>1. TypeOK'
  BY ClearType DEF Abort, Close, Statuses, Steps
<1>2. SessInv'
  BY DEF Abort, Close
<1>3. ConnInv'
  BY DEF Abort, Close
<1>4. LockInv' /\ PrepInv'
  BY NothingIsAWrite DEF Abort, Close, Locked
<1> QED
  BY <1>1, <1>2, <1>3, <1>4

LEMMA WorkerStep == \A w \in Workers : IInv /\ Step(w) => IInv'
<1> SUFFICES ASSUME NEW w \in Workers, IInv, Step(w) PROVE IInv'
  OBVIOUS
<1> USE AbsentAssumption DEF IInv, TypeOK, SessInv, ConnInv, LockInv, PrepInv, Live
<1>1. ASSUME NEW c \in Conns, Load(w, c) PROVE IInv'
  <2>1. CASE status[cur[w]] \in Active
    <3>1. view' \in [Workers -> Statuses]
      BY <1>1, <2>1 DEF Load, Active, Statuses
    <3>2. free' \subseteq Conns /\ sess' \in [Workers -> Conns \cup {NoConn}]
      <4>1. free' = free \ {c} /\ sess' = [sess EXCEPT ![w] = c]
        BY <1>1, <2>1 DEF Load, CheckOut
      <4> QED
        BY <4>1
    <3>3. pc' \in [Workers -> Steps]
      BY <1>1, <2>1 DEF Load, Goto, Steps
    <3>5. TypeOK'
      BY <1>1, <2>1, <3>1, <3>2, <3>3 DEF Load, Goto
    <3>6. SessInv' /\ LockInv'
      <4>1. /\ pc[w] = "load" /\ pc' = [pc EXCEPT ![w] = "reset"]
            /\ sess' = [sess EXCEPT ![w] = c] /\ c \in Conns
            /\ UNCHANGED <<cur, psess, lock>>
        BY <1>1, <2>1 DEF Load, CheckOut, Goto
      <4> QED
        BY <4>1 DEF Locked
    <3>8. PrepInv'
      <4>1. pc[w] = "load" /\ pc' = [pc EXCEPT ![w] = "reset"] /\ prep' = prep
        BY <1>1, <2>1 DEF Load, Goto
      <4> QED
        BY <4>1
    <3>7. ConnInv'
      <4>1. c \in free /\ free' = free \ {c} /\ psess' = psess
            /\ sess' = [sess EXCEPT ![w] = c]
        BY <1>1, <2>1 DEF Load, CheckOut
      <4> QED
        BY <4>1
    <3> QED
      BY <3>5, <3>6, <3>7, <3>8
  <2>2. CASE status[cur[w]] \notin Active
    BY <1>1, <2>2, CloseStep DEF Load, rows, bounds
  <2> QED
    BY <2>1, <2>2
<1>2. ASSUME NEW c \in Conns, PublishRead(w, c) PROVE IInv'
  <2>1. CASE status[cur[w]] \in Active
    <3>1. pview' \in [Workers -> Statuses]
      <4>1. pview' = [pview EXCEPT ![w] = status[cur[w]]]
        BY <1>2, <2>1 DEF PublishRead
      <4>2. status[cur[w]] \in Statuses
        BY <2>1 DEF Active, Statuses
      <4> QED
        BY <4>1, <4>2
    <3>2. free' \subseteq Conns /\ psess' \in [Workers -> Conns \cup {NoConn}]
      BY <1>2, <2>1 DEF PublishRead
    <3>3. pc' \in [Workers -> Steps]
      BY <1>2, <2>1 DEF PublishRead, Goto, Steps
    <3>5. TypeOK'
      BY <1>2, <2>1, <3>1, <3>2, <3>3 DEF PublishRead
    <3>6. SessInv' /\ LockInv'
      BY <1>2, <2>1 DEF PublishRead, Goto, Locked
    <3>8. PrepInv'
      <4>1. pc[w] = "publish" /\ pc' = [pc EXCEPT ![w] = "pubwrite"] /\ prep' = prep
        BY <1>2, <2>1 DEF PublishRead, Goto
      <4> QED
        BY <4>1
    <3>7. ConnInv'
      <4>1. c \in free /\ free' = free \ {c} /\ sess' = sess
            /\ psess' = [psess EXCEPT ![w] = c]
        BY <1>2, <2>1 DEF PublishRead
      <4> QED
        BY <4>1
    <3> QED
      BY <3>5, <3>6, <3>7, <3>8
  <2>2. CASE status[cur[w]] \notin Active
    <3>1. pc' = [pc EXCEPT ![w] = "service"]
          /\ UNCHANGED <<rows, lock, free, queue, sess, orm, txn, progress, bounds>>
          /\ pc[w] = "publish"
      BY <1>2, <2>2 DEF PublishRead, Goto
    <3>2. TypeOK'
      BY <3>1 DEF Steps
    <3>3. SessInv' /\ ConnInv'
      BY <3>1
    <3>4. LockInv' /\ PrepInv'
      BY <3>1 DEF Locked
    <3> QED
      BY <3>2, <3>3, <3>4
  <2> QED
    BY <2>1, <2>2
<1>3. CASE ResetRead(w)
  <2>1. prep' \in [Workers -> Cursors \cup {NoWrite, Nothing}]
    BY <1>3 DEF ResetRead, Cursors
  <2>2. PrepInv'
    BY <1>3, CursorStatesAssumption DEF ResetRead, Goto, Cursors, NoWrite, Nothing
  <2>3. TypeOK'
    BY <1>3, <2>1 DEF ResetRead, Goto, Steps
  <2>4. SessInv' /\ ConnInv' /\ LockInv'
    BY <1>3 DEF ResetRead, Goto, Locked
  <2> QED
    BY <2>2, <2>3, <2>4
<1>17. CASE ResetFlush(w)
  <2>1. /\ pc[w] = "resetflush" /\ pc' = [pc EXCEPT ![w] = "resetwrite"]
        /\ cpend' = [cpend EXCEPT ![w] = prep[w]]
        /\ UNCHANGED <<rows, lock, free, queue, sess, orm, pend, progress, bounds>>
    BY <1>17 DEF ResetFlush, Goto
  <2>2. prep[w] \in Cursors \cup {NoWrite}
    BY <2>1
  <2>3. TypeOK'
    BY <2>1, <2>2 DEF Steps
  <2>4. SessInv' /\ ConnInv'
    BY <2>1
  <2>5. LockInv' /\ PrepInv'
    BY <2>1 DEF Locked
  <2> QED
    BY <2>3, <2>4, <2>5
<1>4. CASE ResetWrite(w)
  BY <1>4 DEF ResetWrite, Goto, Steps, Locked, Writes, Terminal, Statuses
<1>5. CASE Acquire(w)
  BY <1>5 DEF Acquire, LockFree, Goto, Steps, Locked
<1>6. CASE Overlap(w)
  <2>1. out' \in [Workers -> {"none"} \cup Terminal]
    BY <1>6 DEF Overlap, Terminal
  <2>2. \E s \in {"flush", "commit"} : pc' = [pc EXCEPT ![w] = s]
    BY <1>6 DEF Overlap, WriteRun, Goto
  <2>3. pc[w] = "lock" /\ UNCHANGED <<rows, lock, free, queue, sess, cur, view, prep,
                                     txn, progress, bounds>>
    BY <1>6 DEF Overlap
  <2>4. TypeOK'
    BY <2>1, <2>2, <2>3 DEF Steps
  <2>5. SessInv' /\ ConnInv'
    BY <2>2, <2>3
  <2>6. LockInv' /\ PrepInv'
    BY <2>2, <2>3 DEF Locked
  <2> QED
    BY <2>4, <2>5, <2>6
<1>7. CASE PublishWrite(w)
  <2>1. status' \in [Runs -> Statuses]
    <3>1. cur[w] \in Runs => Published(w) \in Statuses
      BY PublishedType
    <3>2. status' = [status EXCEPT ![cur[w]] = Published(w)]
      BY <1>7 DEF PublishWrite
    <3> QED
      BY <3>1, <3>2
  <2>2. /\ pc[w] = "pubwrite" /\ pc' = [pc EXCEPT ![w] = "service"]
        /\ psess' = [psess EXCEPT ![w] = NoConn]
        /\ free' = free \cup {psess[w]}
        /\ pview' = [pview EXCEPT ![w] = "absent"]
        /\ UNCHANGED <<old, cursor, lock, queue, sess, orm, txn, bounds>>
    BY <1>7 DEF PublishWrite, Returned, Goto
  <2>3. psess[w] \in Conns
    BY <2>2
  <2>4. TypeOK'
    BY <2>1, <2>2, <2>3 DEF Steps, Statuses
  <2>5. SessInv'
    BY <2>2
  <2>6. ConnInv'
    BY <2>2, <2>3
  <2>7. LockInv' /\ PrepInv'
    BY <2>2 DEF Locked
  <2> QED
    BY <2>4, <2>5, <2>6, <2>7
<1>8. CASE Fetch(w)
  <2>1. prep' \in [Workers -> Cursors \cup {NoWrite, Nothing}]
    <3>1. \/ \E st \in CursorStates :
               prep' = [prep EXCEPT ![w] = [val |-> fetched + 1, st |-> st, old |-> FALSE]]
          \/ prep' = [prep EXCEPT ![w] = Nothing]
      BY <1>8 DEF Fetch
    <3>2. \A st \in CursorStates : [val |-> fetched + 1, st |-> st, old |-> FALSE] \in Cursors
      BY DEF Cursors
    <3>3. \E p \in Cursors \cup {Nothing} : prep' = [prep EXCEPT ![w] = p]
      <4>1. ASSUME NEW st \in CursorStates,
                   prep' = [prep EXCEPT ![w] = [val |-> fetched + 1, st |-> st, old |-> FALSE]]
            PROVE  \E p \in Cursors : prep' = [prep EXCEPT ![w] = p]
        BY <3>2, <4>1
      <4> QED
        BY <3>1, <4>1
    <3>4. prep \in [Workers -> Cursors \cup {NoWrite, Nothing}]
      OBVIOUS
    <3> QED
      BY ONLY <3>3, <3>4
  <2> QED
    BY <1>8, <2>1 DEF Fetch, Goto, Steps, Locked
<1>9. CASE Store(w)
  BY <1>9 DEF Store, Results, Goto, Steps, Locked, Terminal
<1>10. CASE ServiceFails(w)
  BY <1>10 DEF ServiceFails, Fail, Goto, Steps, Locked, Terminal
<1>11. CASE Disconnected(w)
  BY <1>11, AbortStep DEF Disconnected
<1>12. CASE Unlock(w)
  <2>1. PICK s \in {"flush", "commit"} : pc' = [pc EXCEPT ![w] = s]
    BY <1>12 DEF Unlock, WriteRun, Goto
  <2>2. /\ pc[w] = "unlock" /\ lock' = LockAfterUnlock
        /\ UNCHANGED <<rows, free, queue, sess, orm, txn, progress, bounds>>
    BY <1>12 DEF Unlock
  <2>3. Live(w)
    BY <2>2 DEF Locked
  <2>4. \A v \in Workers : Live(v) => v = w
    BY <2>3
  <2>5. TypeOK'
    <3>1. lock.conn \in Conns /\ lock.depth \in Nat \ {0}
      BY <2>3
    <3>2. lock' \in [conn : Conns \cup {NoConn}, depth : Nat] /\ (lock'.conn = NoConn <=> lock'.depth = 0)
      <4>1. lock' = LockAfterUnlock /\ lock \in [conn : Conns \cup {NoConn}, depth : Nat]
        BY <2>2
      <4>2. CASE lock.depth = 1
        BY <3>1, <4>1, <4>2, AbsentAssumption DEF LockAfterUnlock, Unlocked
      <4>3. CASE lock.depth # 1
        <5>1. lock' = [lock EXCEPT !.depth = lock.depth - 1]
          BY <4>1, <4>3 DEF LockAfterUnlock
        <5>2. lock.depth - 1 \in Nat \ {0}
          BY <3>1, <4>3
        <5> QED
          BY ONLY <3>1, <4>1, <5>1, <5>2, AbsentAssumption
      <4> QED
        BY <4>2, <4>3
    <3>3. pc' \in [Workers -> Steps]
      BY <2>1 DEF Steps
    <3> QED
      BY <2>2, <3>2, <3>3
  <2>6. SessInv' /\ ConnInv' /\ PrepInv'
    BY <2>1, <2>2
  <2>7. LockInv'
    BY <2>1, <2>2, <2>4 DEF Locked
  <2> QED
    BY <2>5, <2>6, <2>7
<1>13. CASE Flush(w)
  <2>1. pend' \in [Workers -> [Runs -> Writes]]
    <3> DEFINE e == IF out[w] # view[w] THEN out[w]
                    ELSE IF pend[w][cur[w]] = "none" THEN "touch" ELSE pend[w][cur[w]]
    <3>1. cur[w] \in Runs => e \in Writes
      BY DEF Writes, Terminal
    <3>2. [pend[w] EXCEPT ![cur[w]] = e] \in [Runs -> Writes]
      <4> HIDE DEF e
      <4> QED
        BY <3>1, WriteType
    <3> QED
      BY <1>13, <3>2 DEF Flush
  <2>2. TypeOK' /\ SessInv' /\ ConnInv' /\ LockInv' /\ PrepInv'
    BY <1>13, <2>1 DEF Flush, Goto, Steps, Locked
  <2> QED
    BY <2>2
<1>14. CASE Commit(w)
  <2>1. status' \in [Runs -> Statuses] /\ cursor' \in Cursors
    BY <1>14 DEF Commit, Statuses
  <2> QED
    BY <1>14, <2>1, CloseStep DEF Commit
<1>15. CASE Timeout(w)
  BY <1>15, AbortStep, UsedType DEF Timeout
<1>16. CASE StoreTimeout(w)
  BY <1>16, UsedType DEF StoreTimeout, Fail, Goto, Steps, Locked, Terminal
<1> QED
  BY <1>1, <1>2, <1>3, <1>4, <1>5, <1>6, <1>7, <1>8, <1>9, <1>10, <1>11, <1>12,
     <1>13, <1>14, <1>15, <1>16, <1>17 DEF Step

LEMMA InductiveStep == IInv /\ [Next]_vars => IInv'
<1> SUFFICES ASSUME IInv, [Next]_vars PROVE IInv'
  OBVIOUS
<1>1. CASE Environment
  BY <1>1, EnvironmentStep
<1>2. CASE CronSelect
  BY <1>2 DEF CronSelect, IInv, TypeOK, SessInv, ConnInv, LockInv, PrepInv, Live, Batch, ActiveRuns
<1>3. ASSUME NEW r \in Runs, CronNext(r) PROVE IInv'
  BY <1>3 DEF CronNext, IInv, TypeOK, SessInv, ConnInv, LockInv, PrepInv, Live, Goto, Idle,
     Workers, Steps, Locked
<1>4. ASSUME NEW r \in Runs, NEW w \in Tasks, StartTask(w, r) PROVE IInv'
  BY <1>4 DEF StartTask, IInv, TypeOK, SessInv, ConnInv, LockInv, PrepInv, Live, Goto, Idle,
     Workers, Steps, Locked
<1>5. ASSUME NEW w \in Workers, Step(w) PROVE IInv'
  BY <1>5, WorkerStep
<1>6. CASE UNCHANGED vars
  BY <1>6 DEF IInv, TypeOK, SessInv, ConnInv, LockInv, PrepInv, Live
<1> QED
  BY <1>1, <1>2, <1>3, <1>4, <1>5, <1>6 DEF Next, Start

\* The types are correct in every reachable state.
THEOREM TypeCorrect == Spec => []TypeOK
<1>1. Init => IInv
  BY TypeInit
<1>2. IInv /\ [Next]_vars => IInv'
  BY InductiveStep
<1>3. IInv => TypeOK
  BY DEF IInv
<1> QED
  BY <1>1, <1>2, <1>3, PTL DEF Spec

\* Two workers on working connections are never both between lock and unlock:
\* the lock has one connection, and a connection has one worker.
THEOREM Exclusion == Spec => []ServiceExclusive
<1>1. Init => IInv
  BY TypeInit
<1>2. IInv /\ [Next]_vars => IInv'
  BY InductiveStep
<1>3. IInv => ServiceExclusive
  BY DEF IInv, ConnInv, LockInv, ServiceExclusive, Live
<1> QED
  BY <1>1, <1>2, <1>3, PTL DEF Spec

-----------------------------------------------------------------------------
(***************************************************************************)
(* The second strengthening: why a finished run is not published as        *)
(* running.  The publisher holds the lock, so whoever could have finished  *)
(* the run was past its own publish before the publisher read the row, and *)
(* left the row no longer queued.                                          *)
(***************************************************************************)
Finals == {"completed", "partial", "failed"}
Fresh == {"absent", "queued"}

\* Runs at hand exist; only steps on a run have one, idle workers are clean.
HandInv ==
    /\ \A r \in tasks \cup todo : status[r] # "absent"
    /\ \A w \in Workers :
         /\ cur[w] \in Runs => status[cur[w]] # "absent"
         /\ pc[w] \in {"load", "publish", "pubwrite", "flush"} => cur[w] \in Runs
         /\ pc[w] \in {"idle", "load", "reset", "resetflush", "resetwrite"} => out[w] = "none"
         /\ pc[w] = "idle" => cur[w] = NoRun
         /\ pc[w] \in {"idle", "load", "reset", "resetflush", "resetwrite"} =>
              \A r \in Runs : pend[w][r] = "none"

\* Past its publish, a worker's run is no longer queued.
BehindInv ==
    \A w \in Workers :
        /\ cur[w] \in Runs /\ (pc[w] \in {"service", "store"} \/ out[w] \in Finals)
             => status[cur[w]] \notin Fresh
        /\ pc[w] = "pubwrite" => pview[w] \in Active
        /\ pc[w] = "pubwrite" /\ pview[w] = "running" => status[cur[w]] \notin Fresh

\* Row locks are exclusive, and what is about to be written agrees with the row.
HeldInv ==
    /\ \A v, w \in Workers, r \in Runs :
         pend[v][r] # "none" /\ pend[w][r] # "none" => v = w
    /\ \A w \in Workers, r \in Runs :
         /\ pend[w][r] \in Finals => status[r] \notin Fresh
         /\ pend[w][r] # "none" /\ r # cur[w] =>
              pend[w][r] = "failed" /\ status[r] = "running"

\* While a worker publishes a run it has read as queued, nobody can finish it.
TakenInv ==
    \A w \in Workers : pc[w] = "pubwrite" /\ pview[w] = "queued" =>
        /\ status[cur[w]] \in {"queued", "skipped"}
        /\ \A v \in Workers :
             /\ pend[v][cur[w]] \notin Finals
             /\ v # w /\ cur[v] = cur[w] =>
                  pc[v] \notin {"service", "store"} /\ out[v] \notin Finals

RunInv == HandInv /\ BehindInv /\ HeldInv /\ TakenInv

\* Whoever publishes is alone between lock and unlock.
LEMMA Alone ==
    ASSUME IInv, NEW v \in Workers, NEW w \in Workers, pc[v] = "pubwrite", Live(w)
    PROVE  v = w
  BY DEF IInv, SessInv, ConnInv, LockInv, PrepInv, Live, Locked

LEMMA RunInvStep == IInv /\ RunInv /\ [Next]_vars => RunInv'
<1> SUFFICES ASSUME IInv, RunInv, [Next]_vars PROVE RunInv'
  OBVIOUS
<1> USE AbsentAssumption, ClearType DEF IInv, TypeOK, RunInv, Finals, Fresh
<1>1. ASSUME NEW r \in Runs, Enqueue(r) PROVE RunInv'
  <2>1. HandInv'
    BY <1>1 DEF Enqueue, HandInv
  <2>2. BehindInv'
    BY <1>1 DEF Enqueue, BehindInv
  <2>3. HeldInv'
    BY <1>1 DEF Enqueue, HeldInv
  <2>4. TakenInv'
    BY <1>1 DEF Enqueue, TakenInv
  <2> QED
    BY <2>1, <2>2, <2>3, <2>4
<1>2. ASSUME NEW r \in Runs, Age(r) PROVE RunInv'
  <2>1. HandInv'
    BY <1>2 DEF Age, HandInv
  <2>2. BehindInv'
    BY <1>2 DEF Age, BehindInv
  <2>3. HeldInv'
    BY <1>2 DEF Age, HeldInv
  <2>4. TakenInv'
    BY <1>2 DEF Age, TakenInv
  <2> QED
    BY <2>1, <2>2, <2>3, <2>4
<1>3. CASE ResetCursor
  <2>1. HandInv'
    BY <1>3 DEF ResetCursor, HandInv
  <2>2. BehindInv'
    BY <1>3 DEF ResetCursor, BehindInv
  <2>3. HeldInv'
    BY <1>3 DEF ResetCursor, HeldInv
  <2>4. TakenInv'
    BY <1>3 DEF ResetCursor, TakenInv
  <2> QED
    BY <2>1, <2>2, <2>3, <2>4
<1>4. CASE AgeCursor
  <2>1. HandInv'
    BY <1>4 DEF AgeCursor, HandInv
  <2>2. BehindInv'
    BY <1>4 DEF AgeCursor, BehindInv
  <2>3. HeldInv'
    BY <1>4 DEF AgeCursor, HeldInv
  <2>4. TakenInv'
    BY <1>4 DEF AgeCursor, TakenInv
  <2> QED
    BY <2>1, <2>2, <2>3, <2>4
<1>5. CASE Crash
  <2>1. HandInv'
    BY <1>5 DEF Crash, NewProcess, Clear, HandInv
  <2>2. BehindInv'
    BY <1>5 DEF Crash, NewProcess, Clear, BehindInv
  <2>3. HeldInv'
    BY <1>5 DEF Crash, NewProcess, Clear, HeldInv
  <2>4. TakenInv'
    BY <1>5 DEF Crash, NewProcess, Clear, TakenInv
  <2> QED
    BY <2>1, <2>2, <2>3, <2>4
<1>6. ASSUME NEW c \in Conns, Recycle(c) PROVE RunInv'
  <2>1. HandInv'
    BY <1>6 DEF Recycle, HandInv
  <2>2. BehindInv'
    BY <1>6 DEF Recycle, BehindInv
  <2>3. HeldInv'
    BY <1>6 DEF Recycle, HeldInv
  <2>4. TakenInv'
    BY <1>6 DEF Recycle, TakenInv
  <2> QED
    BY <2>1, <2>2, <2>3, <2>4
<1>7. ASSUME NEW w \in Workers, Kill(w) PROVE RunInv'
  <2>1. HandInv'
    BY <1>7 DEF Kill, Clear, HandInv
  <2>2. BehindInv'
    BY <1>7 DEF Kill, Clear, BehindInv
  <2>3. HeldInv'
    BY <1>7 DEF Kill, Clear, HeldInv
  <2>4. TakenInv'
    <3>1. \A v \in Workers, q \in Runs : pend'[v][q] \in {pend[v][q], "none"}
      BY <1>7 DEF Kill
    <3> QED
      BY <1>7, <3>1 DEF Kill, TakenInv, HandInv
  <2> QED
    BY <2>1, <2>2, <2>3, <2>4
<1>8. ASSUME NEW w \in Triggers, NEW c \in Conns, StartTrigger(w, c) PROVE RunInv'
  <2>1. HandInv'
    BY <1>8 DEF StartTrigger, CheckOut, Goto, Idle, Workers, HandInv
  <2>2. BehindInv'
    BY <1>8 DEF StartTrigger, CheckOut, Goto, Idle, Workers, BehindInv
  <2>3. HeldInv'
    BY <1>8 DEF StartTrigger, CheckOut, Goto, Idle, Workers, HeldInv
  <2>4. TakenInv'
    BY <1>8 DEF StartTrigger, CheckOut, Goto, Idle, Workers, TakenInv
  <2> QED
    BY <2>1, <2>2, <2>3, <2>4
<1>9. CASE CronSelect
  <2>1. HandInv'
    BY <1>9 DEF CronSelect, Batch, ActiveRuns, Active, HandInv
  <2>2. BehindInv'
    BY <1>9 DEF CronSelect, Batch, ActiveRuns, Active, BehindInv
  <2>3. HeldInv'
    BY <1>9 DEF CronSelect, Batch, ActiveRuns, Active, HeldInv
  <2>4. TakenInv'
    BY <1>9 DEF CronSelect, Batch, ActiveRuns, Active, TakenInv
  <2> QED
    BY <2>1, <2>2, <2>3, <2>4
<1>10. ASSUME NEW r \in Runs, CronNext(r) PROVE RunInv'
  <2>1. HandInv'
    BY <1>10 DEF CronNext, Goto, Idle, Workers, HandInv
  <2>2. BehindInv'
    BY <1>10 DEF CronNext, Goto, Idle, Workers, HandInv, BehindInv
  <2>3. HeldInv'
    BY <1>10 DEF CronNext, Goto, Idle, Workers, HandInv, HeldInv
  <2>4. TakenInv'
    BY <1>10 DEF CronNext, Goto, Idle, Workers, HandInv, TakenInv
  <2> QED
    BY <2>1, <2>2, <2>3, <2>4
<1>11. ASSUME NEW r \in Runs, NEW w \in Tasks, StartTask(w, r) PROVE RunInv'
  <2>1. HandInv'
    BY <1>11 DEF StartTask, Goto, Idle, Workers, HandInv
  <2>2. BehindInv'
    BY <1>11 DEF StartTask, Goto, Idle, Workers, HandInv, BehindInv
  <2>3. HeldInv'
    BY <1>11 DEF StartTask, Goto, Idle, Workers, HandInv, HeldInv
  <2>4. TakenInv'
    BY <1>11 DEF StartTask, Goto, Idle, Workers, HandInv, TakenInv
  <2> QED
    BY <2>1, <2>2, <2>3, <2>4
<1>12. ASSUME NEW w \in Workers, NEW c \in Conns, Load(w, c) PROVE RunInv'
  <2>1. HandInv'
    BY <1>12 DEF Load, CheckOut, Close, Goto, Clear, HandInv
  <2>2. BehindInv'
    <3>1. CASE status[cur[w]] \in Active
      <4>1. /\ pc[w] = "load" /\ pc' = [pc EXCEPT ![w] = "reset"]
            /\ UNCHANGED <<status, cur, out, pview>>
        BY <1>12, <3>1 DEF Load, Goto
      <4> QED BY <4>1 DEF BehindInv
    <3>2. CASE status[cur[w]] \notin Active
      <4>1. /\ pc' = [pc EXCEPT ![w] = "idle"] /\ out' = [out EXCEPT ![w] = "none"]
            /\ cur' = [cur EXCEPT ![w] = NoRun] /\ pview' = [pview EXCEPT ![w] = "absent"]
            /\ UNCHANGED status
        BY <1>12, <3>2 DEF Load, Close
      <4> QED BY <4>1, AbsentAssumption DEF BehindInv
    <3> QED BY <3>1, <3>2
  <2>3. HeldInv'
    BY <1>12 DEF Load, CheckOut, Close, Goto, Clear, HandInv, HeldInv
  <2>4. TakenInv'
    BY <1>12 DEF Load, CheckOut, Close, Goto, Clear, HandInv, TakenInv
  <2> QED
    BY <2>1, <2>2, <2>3, <2>4
<1>13. ASSUME NEW w \in Workers, NEW c \in Conns, PublishRead(w, c) PROVE RunInv'
  <2>1. HandInv'
    BY <1>13 DEF PublishRead, Goto, Active, HandInv
  <2>2. BehindInv'
    BY <1>13 DEF PublishRead, Goto, Active, HandInv, BehindInv
  <2>3. HeldInv'
    BY <1>13 DEF PublishRead, Goto, Active, HeldInv
  <2>4. TakenInv'
    <3>1. CASE status[cur[w]] = "queued"
      <4>1. \A v \in Workers : pend[v][cur[w]] \notin Finals
        BY <1>13, <3>1 DEF PublishRead, HandInv, HeldInv
      <4>2. \A v \in Workers : cur[v] = cur[w] =>
              pc[v] \notin {"service", "store"} /\ out[v] \notin Finals
        BY <1>13, <3>1 DEF PublishRead, HandInv, BehindInv
      <4>3. \A v \in Workers : v # w => pc[v] # "pubwrite"
        BY <1>13, Alone DEF PublishRead, SessInv, Live, Locked
      <4> QED
        <5>1. /\ pc' = [pc EXCEPT ![w] = "pubwrite"]
              /\ UNCHANGED <<status, cur, out, pend>>
          BY <1>13, <3>1 DEF PublishRead, Goto, Active
        <5> QED
          BY <3>1, <4>1, <4>2, <4>3, <5>1 DEF TakenInv
    <3>2. CASE status[cur[w]] # "queued"
      <4>1. \A v \in Workers : v # w => pc[v] # "pubwrite"
        BY <1>13, Alone DEF PublishRead, SessInv, Live, Locked
      <4> QED
        <5>1. \/ /\ pc' = [pc EXCEPT ![w] = "pubwrite"]
                 /\ pview' = [pview EXCEPT ![w] = status[cur[w]]]
              \/ pc' = [pc EXCEPT ![w] = "service"] /\ pview' = pview
          BY <1>13 DEF PublishRead, Goto
        <5>2. ~\E v \in Workers : pc'[v] = "pubwrite" /\ pview'[v] = "queued"
          BY <3>2, <4>1, <5>1
        <5> QED
          BY <5>2 DEF TakenInv
    <3> QED
      BY <3>1, <3>2
  <2> QED
    BY <2>1, <2>2, <2>3, <2>4
<1>14. ASSUME NEW w \in Workers, ResetRead(w) PROVE RunInv'
  <2>1. HandInv'
    BY <1>14 DEF ResetRead, Goto, HandInv
  <2>2. BehindInv'
    BY <1>14 DEF ResetRead, Goto, BehindInv
  <2>3. HeldInv'
    BY <1>14 DEF ResetRead, Goto, HeldInv
  <2>4. TakenInv'
    BY <1>14 DEF ResetRead, Goto, TakenInv
  <2> QED
    BY <2>1, <2>2, <2>3, <2>4
<1>30. ASSUME NEW w \in Workers, ResetFlush(w) PROVE RunInv'
  <2>1. HandInv'
    BY <1>30 DEF ResetFlush, Goto, HandInv
  <2>2. BehindInv'
    BY <1>30 DEF ResetFlush, Goto, BehindInv
  <2>3. HeldInv'
    BY <1>30 DEF ResetFlush, Goto, HeldInv
  <2>4. TakenInv'
    BY <1>30 DEF ResetFlush, Goto, TakenInv
  <2> QED
    BY <2>1, <2>2, <2>3, <2>4
<1>15. ASSUME NEW w \in Workers, ResetWrite(w) PROVE RunInv'
  <2>1. HandInv'
    BY <1>15 DEF ResetWrite, ResetBlocked, RowBusy, RowHolders, StaleRuns, Goto, HandInv
  <2>2. BehindInv'
    BY <1>15 DEF ResetWrite, ResetBlocked, RowBusy, RowHolders, StaleRuns, Goto, BehindInv
  <2>3. HeldInv'
    BY <1>15 DEF ResetWrite, ResetBlocked, RowBusy, RowHolders, StaleRuns, Goto, HeldInv
  <2>4. TakenInv'
    BY <1>15 DEF ResetWrite, StaleRuns, Goto, HandInv, TakenInv
  <2> QED
    BY <2>1, <2>2, <2>3, <2>4
<1>16. ASSUME NEW w \in Workers, Acquire(w) PROVE RunInv'
  <2>1. HandInv'
    BY <1>16 DEF Acquire, Goto, HandInv
  <2>2. BehindInv'
    BY <1>16 DEF Acquire, Goto, BehindInv
  <2>3. HeldInv'
    BY <1>16 DEF Acquire, Goto, HeldInv
  <2>4. TakenInv'
    <3>1. ASSUME NEW v \in Workers, pc[v] = "pubwrite" PROVE FALSE
      <4>1. v # w /\ sess[v] # NoConn /\ sess[w] # NoConn
        BY <1>16, <3>1 DEF Acquire, SessInv
      <4>2. lock.conn = sess[v]
        BY <3>1, <4>1 DEF LockInv, Live, Locked
      <4>3. sess[v] # sess[w]
        BY <4>1 DEF ConnInv
      <4> QED
        BY <1>16, <4>1, <4>2, <4>3 DEF Acquire, LockFree
    <3> QED
      BY <1>16, <3>1 DEF Acquire, Goto, TakenInv
  <2> QED
    BY <2>1, <2>2, <2>3, <2>4
<1>17. ASSUME NEW w \in Workers, Overlap(w) PROVE RunInv'
  <2>1. HandInv'
    BY <1>17 DEF Overlap, WriteRun, Goto, HandInv
  <2>2. BehindInv'
    BY <1>17 DEF Overlap, WriteRun, Goto, BehindInv
  <2>3. HeldInv'
    BY <1>17 DEF Overlap, WriteRun, Goto, HeldInv
  <2>4. TakenInv'
    BY <1>17 DEF Overlap, WriteRun, Goto, TakenInv
  <2> QED
    BY <2>1, <2>2, <2>3, <2>4
<1>18. ASSUME NEW w \in Workers, PublishWrite(w) PROVE RunInv'
  <2>1. HandInv'
    BY <1>18 DEF PublishWrite, Published, PublishBlocked, RowHolders, Goto, Active, HandInv
  <2>2. BehindInv'
    BY <1>18 DEF PublishWrite, Published, PublishBlocked, RowHolders, Goto, Active, BehindInv
  <2>3. HeldInv'
    BY <1>18 DEF PublishWrite, Published, PublishBlocked, RowHolders, Goto, Active, HeldInv
  <2>4. TakenInv'
    <3>1. \A v \in Workers : v # w => pc[v] # "pubwrite"
      BY <1>18, Alone DEF PublishWrite, SessInv, Live, Locked
    <3> QED
      BY <1>18, <3>1 DEF PublishWrite, Goto, TakenInv
  <2> QED
    BY <2>1, <2>2, <2>3, <2>4
<1>19. ASSUME NEW w \in Workers, Fetch(w) PROVE RunInv'
  <2>1. HandInv'
    BY <1>19 DEF Fetch, Goto, HandInv
  <2>2. BehindInv'
    BY <1>19 DEF Fetch, Goto, BehindInv
  <2>3. HeldInv'
    BY <1>19 DEF Fetch, Goto, HeldInv
  <2>4. TakenInv'
    BY <1>19 DEF Fetch, Goto, TakenInv
  <2> QED
    BY <2>1, <2>2, <2>3, <2>4
<1>20. ASSUME NEW w \in Workers, Store(w) PROVE RunInv'
  <2>1. HandInv'
    BY <1>20 DEF Store, Results, Goto, HandInv
  <2>2. BehindInv'
    BY <1>20 DEF Store, Results, Goto, BehindInv
  <2>3. HeldInv'
    BY <1>20 DEF Store, Results, Goto, HeldInv
  <2>4. TakenInv'
    BY <1>20 DEF Store, Results, Goto, TakenInv
  <2> QED
    BY <2>1, <2>2, <2>3, <2>4
<1>21. ASSUME NEW w \in Workers, ServiceFails(w) PROVE RunInv'
  <2>1. HandInv'
    BY <1>21 DEF ServiceFails, Fail, Goto, HandInv
  <2>2. BehindInv'
    BY <1>21 DEF ServiceFails, Fail, Goto, BehindInv
  <2>3. HeldInv'
    BY <1>21 DEF ServiceFails, Fail, Goto, HeldInv
  <2>4. TakenInv'
    BY <1>21 DEF ServiceFails, Fail, Goto, TakenInv
  <2> QED
    BY <2>1, <2>2, <2>3, <2>4
<1>22. ASSUME NEW w \in Workers, Disconnected(w) PROVE RunInv'
  <2>1. HandInv'
    BY <1>22 DEF Disconnected, Abort, Close, Clear, HandInv
  <2>2. BehindInv'
    BY <1>22 DEF Disconnected, Abort, Close, Clear, BehindInv
  <2>3. HeldInv'
    BY <1>22 DEF Disconnected, Abort, Close, Clear, HeldInv
  <2>4. TakenInv'
    <3>1. \A v \in Workers, q \in Runs : pend'[v][q] \in {pend[v][q], "none"}
      BY <1>22 DEF Disconnected, Abort, Close
    <3> QED
      BY <1>22, <3>1 DEF Disconnected, Abort, Close, TakenInv, HandInv
  <2> QED
    BY <2>1, <2>2, <2>3, <2>4
<1>23. ASSUME NEW w \in Workers, Unlock(w) PROVE RunInv'
  <2>1. HandInv'
    BY <1>23 DEF Unlock, WriteRun, Goto, HandInv
  <2>2. BehindInv'
    BY <1>23 DEF Unlock, WriteRun, Goto, BehindInv
  <2>3. HeldInv'
    BY <1>23 DEF Unlock, WriteRun, Goto, HeldInv
  <2>4. TakenInv'
    BY <1>23 DEF Unlock, WriteRun, Goto, TakenInv
  <2> QED
    BY <2>1, <2>2, <2>3, <2>4
<1>24. ASSUME NEW w \in Workers, Flush(w) PROVE RunInv'
  <2>1. HandInv'
    BY <1>24 DEF Flush, RowBusy, RowHolders, Goto, HandInv
  <2>2. BehindInv'
    BY <1>24 DEF Flush, RowBusy, RowHolders, Goto, BehindInv
  <2>3. HeldInv'
    <3>1. \A v \in Workers : v # w => pend'[v] = pend[v] /\ pend[v][cur[w]] = "none"
      BY <1>24 DEF Flush, RowBusy, RowHolders
    <3>2. \A q \in Runs : q # cur[w] => pend'[w][q] = pend[w][q]
      BY <1>24 DEF Flush
    <3>3. pend'[w][cur[w]] \in {out[w], pend[w][cur[w]], "touch"}
      BY <1>24 DEF Flush, HandInv
    <3>4. UNCHANGED <<status, cur>>
      BY <1>24 DEF Flush
    <3>5. out[w] \in Finals => status[cur[w]] \notin Fresh
      BY <1>24 DEF Flush, BehindInv, HandInv
    <3>6. ASSUME NEW u \in Workers, NEW v \in Workers, NEW q \in Runs,
                 pend'[u][q] # "none", pend'[v][q] # "none"
          PROVE  u = v
      <4>1. CASE q = cur[w]
        BY <3>1, <3>6, <4>1
      <4>2. CASE q # cur[w]
        <5>1. pend'[u][q] = pend[u][q] /\ pend'[v][q] = pend[v][q]
          BY <3>1, <3>2, <4>2
        <5> QED
          BY <3>6, <5>1 DEF HeldInv
      <4> QED
        BY <4>1, <4>2
    <3>7. ASSUME NEW v \in Workers, NEW q \in Runs
          PROVE  /\ pend'[v][q] \in Finals => status'[q] \notin Fresh
                 /\ pend'[v][q] # "none" /\ q # cur'[v] =>
                      pend'[v][q] = "failed" /\ status'[q] = "running"
      <4>1. CASE v = w /\ q = cur[w]
        BY <3>3, <3>4, <3>5, <4>1 DEF HeldInv
      <4>2. CASE ~(v = w /\ q = cur[w])
        <5>1. pend'[v][q] = pend[v][q]
          BY <3>1, <3>2, <4>2
        <5> QED
          BY <3>4, <5>1 DEF HeldInv
      <4> QED
        BY <4>1, <4>2
    <3> QED
      BY <3>6, <3>7 DEF HeldInv
  <2>4. TakenInv'
    BY <1>24 DEF Flush, RowBusy, RowHolders, Goto, TakenInv
  <2> QED
    BY <2>1, <2>2, <2>3, <2>4
<1>25. ASSUME NEW w \in Workers, Commit(w) PROVE RunInv'
  <2>1. HandInv'
    BY <1>25 DEF Commit, Close, Clear, Terminal, HandInv
  <2>2. BehindInv'
    <3>1. \A q \in Runs : status[q] \notin Fresh => status'[q] \notin Fresh
      BY <1>25 DEF Commit, Terminal
    <3> QED
      BY <1>25, <3>1 DEF Commit, Close, HandInv, BehindInv
  <2>3. HeldInv'
    BY <1>25 DEF Commit, Close, Clear, Terminal, HeldInv
  <2>4. TakenInv'
    <3>1. \A v \in Workers, q \in Runs : pend'[v][q] \in {pend[v][q], "none"}
      BY <1>25 DEF Commit, Close
    <3>2. ASSUME NEW v \in Workers, pc[v] = "pubwrite", pview[v] = "queued"
          PROVE  status'[cur[v]] \in {"queued", "skipped"}
      BY <1>25, <3>2 DEF Commit, Terminal, TakenInv, HandInv
    <3> QED
      <4>1. \A v \in Workers : v # w =>
              pc'[v] = pc[v] /\ cur'[v] = cur[v] /\ out'[v] = out[v] /\ pview'[v] = pview[v]
        BY <1>25 DEF Commit, Close
      <4>2. pc'[w] = "idle" /\ cur'[w] = NoRun /\ out'[w] = "none"
        BY <1>25 DEF Commit, Close
      <4>3. SUFFICES ASSUME NEW v \in Workers, pc'[v] = "pubwrite", pview'[v] = "queued"
                     PROVE  /\ status'[cur'[v]] \in {"queued", "skipped"}
                            /\ \A u \in Workers :
                                 /\ pend'[u][cur'[v]] \notin Finals
                                 /\ u # v /\ cur'[u] = cur'[v] =>
                                      pc'[u] \notin {"service", "store"} /\ out'[u] \notin Finals
        BY DEF TakenInv
      <4>4. v # w /\ pc[v] = "pubwrite" /\ pview[v] = "queued" /\ cur'[v] = cur[v]
            /\ cur[v] \in Runs
        BY <4>1, <4>2, <4>3 DEF HandInv
      <4>5. \A u \in Workers : pend'[u][cur[v]] \notin Finals
        BY <3>1, <4>4 DEF TakenInv
      <4> QED
        <5>1. status'[cur[v]] \in {"queued", "skipped"}
          BY <3>2, <4>4
        <5>2. ASSUME NEW u \in Workers, u # v, cur'[u] = cur[v]
              PROVE  pc'[u] \notin {"service", "store"} /\ out'[u] \notin Finals
          BY <4>1, <4>2, <4>4, <5>2 DEF TakenInv, Finals
        <5> QED
          BY <4>4, <4>5, <5>1, <5>2
  <2> QED
    BY <2>1, <2>2, <2>3, <2>4
<1>26. ASSUME NEW w \in Workers, Timeout(w) PROVE RunInv'
  <2>1. HandInv'
    BY <1>26 DEF Timeout, Abort, Close, Clear, HandInv
  <2>2. BehindInv'
    BY <1>26 DEF Timeout, Abort, Close, Clear, BehindInv
  <2>3. HeldInv'
    BY <1>26 DEF Timeout, Abort, Close, Clear, HeldInv
  <2>4. TakenInv'
    <3>1. \A v \in Workers, q \in Runs : pend'[v][q] \in {pend[v][q], "none"}
      BY <1>26 DEF Timeout, Abort, Close
    <3> QED
      BY <1>26, <3>1 DEF Timeout, Abort, Close, TakenInv, HandInv
  <2> QED
    BY <2>1, <2>2, <2>3, <2>4
<1>27. ASSUME NEW w \in Workers, StoreTimeout(w) PROVE RunInv'
  <2>1. HandInv'
    BY <1>27 DEF StoreTimeout, Fail, Goto, HandInv
  <2>2. BehindInv'
    BY <1>27 DEF StoreTimeout, Fail, Goto, BehindInv
  <2>3. HeldInv'
    BY <1>27 DEF StoreTimeout, Fail, Goto, HeldInv
  <2>4. TakenInv'
    BY <1>27 DEF StoreTimeout, Fail, Goto, TakenInv
  <2> QED
    BY <2>1, <2>2, <2>3, <2>4
<1>28. CASE UNCHANGED vars
  BY <1>28 DEF HandInv, BehindInv, HeldInv, TakenInv
<1> QED
  BY <1>1, <1>2, <1>3, <1>4, <1>5, <1>6, <1>7, <1>8, <1>9, <1>10, <1>11, <1>12, <1>13, <1>14,
     <1>15, <1>16, <1>17, <1>18, <1>19, <1>20, <1>21, <1>22, <1>23, <1>24, <1>25, <1>26, <1>27,
     <1>28, <1>30 DEF Next, Environment, Start, Step

LEMMA RunInvInit == Init => RunInv
  BY AbsentAssumption
     DEF Init, RunInv, HandInv, BehindInv, HeldInv, TakenInv, Clear, Finals

\* How a step changes the committed statuses, in the terms of SyncRunBoard.
LEMMA BoardStep == IInv /\ RunInv /\ [Next]_vars => [Board!Next]_status
<1> SUFFICES ASSUME IInv, RunInv, [Next]_vars, status' # status PROVE Board!Next
  OBVIOUS
<1>1. ASSUME NEW r \in Runs, Enqueue(r) PROVE Board!Next
  BY <1>1 DEF Enqueue, Board!Next, Board!Queue
<1>2. ASSUME NEW w \in Workers, PublishWrite(w) PROVE Board!Next
  <2>1. cur[w] \in Runs
    BY <1>2 DEF PublishWrite, RunInv, HandInv
  <2>2. pview[w] = "queued"
    BY <1>2, <2>1 DEF PublishWrite, Published, IInv, TypeOK
  <2>3. status[cur[w]] \in {"queued", "skipped"}
    BY <1>2, <2>2 DEF PublishWrite, RunInv, TakenInv
  <2>4. status' = [status EXCEPT ![cur[w]] = "running"]
    BY <1>2, <2>2 DEF PublishWrite, Published
  <2> QED
    BY <2>1, <2>3, <2>4 DEF Board!Next, Board!Publish
<1>3. ASSUME NEW w \in Workers, Commit(w) PROVE Board!Next
  <2> DEFINE written == {q \in Runs : pend[w][q] \in Terminal}
             reset == {q \in Runs : q # cur[w] /\ pend[w][q] = "failed"}
  <2>1. status' = [q \in Runs |-> IF pend[w][q] \in Terminal THEN pend[w][q] ELSE status[q]]
    BY <1>3 DEF Commit
  <2>2. \A q \in Runs : q # cur[w] /\ pend[w][q] # "none" =>
          pend[w][q] = "failed" /\ status[q] = "running"
    BY DEF RunInv, HeldInv
  <2>3. reset \in SUBSET Runs /\ \A q \in reset : status[q] = "running"
    BY <2>2
  <2>4. CASE cur[w] \in Runs
    <3> DEFINE end == status'[cur[w]]
    <3>1. status[cur[w]] # "absent" /\ end \in Board!Terminal \cup {status[cur[w]]}
      BY <2>1, <2>4 DEF RunInv, HandInv, Board!Terminal, Terminal
    <3>2. status' = [q \in Runs |-> IF q = cur[w] THEN end
                                   ELSE IF q \in reset THEN "failed" ELSE status[q]]
      BY <2>1, <2>2, <2>4 DEF Terminal
    <3>3. Board!Settle(cur[w], end, reset)
      BY <2>3, <3>1, <3>2 DEF Board!Settle
    <3> QED
      BY <2>3, <2>4, <3>1, <3>3 DEF Board!Next
  <2>5. CASE cur[w] \notin Runs
    <3>1. PICK own \in Runs : pend[w][own] = "failed"
      <4>1. \E q \in Runs : pend[w][q] \in Terminal
        <5>1. SUFFICES ASSUME \A q \in Runs : pend[w][q] \notin Terminal PROVE FALSE
          OBVIOUS
        <5>2. status' = [q \in Runs |-> status[q]]
          BY <2>1, <5>1
        <5>3. status = [q \in Runs |-> status[q]]
          BY DEF IInv, TypeOK
        <5> QED
          BY <5>2, <5>3
      <4> QED
        BY <2>2, <2>5, <4>1 DEF Terminal
    <3>2. status[own] = "running" /\ status'[own] = "failed"
      BY <2>1, <2>2, <2>5, <3>1 DEF Terminal
    <3>3. status' = [q \in Runs |-> IF q = own THEN "failed"
                                   ELSE IF q \in reset THEN "failed" ELSE status[q]]
      BY <2>1, <2>2, <2>5, <3>1 DEF Terminal
    <3>4. Board!Settle(own, "failed", reset)
      BY <2>3, <3>2, <3>3 DEF Board!Settle, Board!Terminal
    <3> QED
      BY <2>3, <3>4 DEF Board!Next, Board!Terminal
  <2> QED
    BY <2>4, <2>5
<1>4. ASSUME NEW w \in Workers, Step(w), ~PublishWrite(w), ~Commit(w) PROVE status' = status
  BY <1>4 DEF Step, Load, PublishRead, ResetRead, ResetFlush, ResetWrite, Acquire, Overlap, Fetch,
     Store, ServiceFails, Fail, Disconnected, Abort, Unlock, Flush, Timeout, StoreTimeout
<1>5. ASSUME Environment, \A r \in Runs : ~Enqueue(r) PROVE status' = status
  BY <1>5 DEF Environment, Age, ResetCursor, AgeCursor, Crash, Recycle, Kill, StartTrigger
<1>6. ASSUME CronSelect \/ Start \/ UNCHANGED vars PROVE status' = status
  BY <1>6 DEF CronSelect, Start, CronNext, StartTask
<1> QED
  BY <1>1, <1>2, <1>3, <1>4, <1>5, <1>6 DEF Next

\* The board only changes as SyncRunBoard says: its steps are the enqueue, the
\* publish and the commit of the orchestrator, everything else leaves it alone.
THEOREM Refinement == Spec => ImplementsBoard
<1>1. Init => IInv /\ RunInv /\ Board!Init
  BY TypeInit, RunInvInit DEF Init, Board!Init
<1>2. IInv /\ RunInv /\ [Next]_vars => IInv' /\ RunInv'
  BY InductiveStep, RunInvStep
<1>3. IInv /\ RunInv /\ [Next]_vars => [Board!Next]_status
  BY BoardStep
<1> QED
  BY <1>1, <1>2, <1>3, PTL DEF Spec, ImplementsBoard, Board!Spec

\* On the board, and so in the orchestrator, a finished run is never reopened.
THEOREM NeverReopened == Spec => FinishedNeverReopened
<1> DEFINE Keeps == \A r \in Runs : status[r] \in {"completed", "partial", "failed"}
                                  => status'[r] \in Terminal
<1>1. Init => IInv /\ RunInv
  BY TypeInit, RunInvInit
<1>2. IInv /\ RunInv /\ [Next]_vars => IInv' /\ RunInv'
  BY InductiveStep, RunInvStep
<1>3. IInv /\ [Board!Next]_status => Keeps
  BY DEF IInv, TypeOK, Board!Next, Board!Queue, Board!Publish, Board!Settle,
     Board!Terminal, Terminal
<1>4. IInv /\ RunInv /\ [Next]_vars => [Keeps]_vars
  BY <1>3, BoardStep
<1> QED
  BY <1>1, <1>2, <1>4, PTL DEF Spec, FinishedNeverReopened

\* Once nobody has it in hand, a terminal status stays: resets write rows that are still
\* running when they commit, all others write their own run.
THEOREM FinalWhenSettled == Spec => SettledIsFinal
<1> DEFINE Final == \A r \in Runs : (status[r] \in Terminal /\ \A w \in Workers : cur[w] # r)
                                   => status'[r] = status[r]
<1>1. Init => IInv /\ RunInv
  BY TypeInit, RunInvInit
<1>2. IInv /\ RunInv /\ [Next]_vars => IInv' /\ RunInv'
  BY InductiveStep, RunInvStep
<1>3. ASSUME IInv, RunInv, [Next]_vars PROVE Final
  <2> SUFFICES ASSUME NEW r \in Runs, status[r] \in Terminal, \A w \in Workers : cur[w] # r
               PROVE  status'[r] = status[r]
    OBVIOUS
  <2>1. ASSUME NEW q \in Runs, Enqueue(q) PROVE status'[r] = status[r]
    BY <1>3, <2>1 DEF Enqueue, IInv, TypeOK, Terminal
  <2>2. ASSUME NEW w \in Workers, PublishWrite(w) PROVE status'[r] = status[r]
    BY <1>3, <2>2 DEF PublishWrite, IInv, TypeOK
  <2>3. ASSUME NEW w \in Workers, Commit(w) PROVE status'[r] = status[r]
    <3>1. pend[w][r] = "none" \/ status[r] = "running"
      BY <1>3 DEF RunInv, HeldInv
    <3> QED BY <2>3, <3>1 DEF Commit, Terminal
  <2>4. ASSUME NEW w \in Workers, Step(w), ~PublishWrite(w), ~Commit(w) PROVE status' = status
    BY <2>4 DEF Step, Load, PublishRead, ResetRead, ResetFlush, ResetWrite, Acquire, Overlap, Fetch,
       Store, ServiceFails, Fail, Disconnected, Abort, Unlock, Flush, Timeout, StoreTimeout
  <2>5. ASSUME Environment, \A q \in Runs : ~Enqueue(q) PROVE status' = status
    BY <2>5 DEF Environment, Age, ResetCursor, AgeCursor, Crash, Recycle, Kill, StartTrigger
  <2>6. ASSUME CronSelect \/ Start \/ UNCHANGED vars PROVE status' = status
    BY <2>6 DEF CronSelect, Start, CronNext, StartTask
  <2> QED BY <1>3, <2>1, <2>2, <2>3, <2>4, <2>5, <2>6 DEF Next
<1>4. IInv /\ RunInv /\ [Next]_vars => [Final]_vars
  BY <1>3
<1> QED BY <1>1, <1>2, <1>4, PTL DEF Spec, SettledIsFinal

-----------------------------------------------------------------------------
(***************************************************************************)
(* What a finished run has stored.  A worker with such a result has in its *)
(* transaction the cursor it fetched, and only its commit writes the       *)
(* result.                                                                 *)
(***************************************************************************)
Finished == {"completed", "partial"}

DataInv ==
    \A w \in Workers :
        /\ out[w] \in Finished =>
             /\ pc[w] \in {"unlock", "flush", "commit"}
             /\ \/ cpend[w] = prep[w] /\ prep[w].val > 0
                \/ /\ out[w] = "completed" /\ prep[w] = Nothing
                   /\ cpend[w] = NoWrite \/ cpend[w].st = "idle"
        /\ pc[w] = "store" => prep[w] = Nothing \/ prep[w].val > 0
        /\ pc[w] = "resetflush" => prep[w] = NoWrite \/ prep[w].st = "idle"
        /\ pc[w] \in {"resetwrite", "lock", "publish", "pubwrite", "service", "store"} =>
             cpend[w] = NoWrite \/ cpend[w].st = "idle"
        /\ pc[w] \in {"idle", "load", "reset", "resetflush"} => cpend[w] = NoWrite
        /\ \A r \in Runs : pend[w][r] \in Finished =>
             pc[w] = "commit" /\ cur[w] = r /\ out[w] = pend[w][r]

LEMMA DataInvInit == Init => DataInv
  BY DEF Init, DataInv, Finished, Clear

LEMMA DataInvStep == IInv /\ DataInv /\ [Next]_vars => DataInv'
<1> SUFFICES ASSUME IInv, DataInv, [Next]_vars PROVE DataInv'
  OBVIOUS
<1> USE ClearType DEF IInv, TypeOK, DataInv, Finished
<1>1. ASSUME Environment, \A w \in Workers : ~Kill(w), ~Crash,
             \A w \in Triggers, c \in Conns : ~StartTrigger(w, c)
      PROVE  DataInv'
  BY <1>1 DEF Environment, Enqueue, Age, ResetCursor, AgeCursor, Recycle
<1>2. CASE Crash
  BY <1>2 DEF Crash, NewProcess, Clear
<1>3. ASSUME NEW w \in Workers, Kill(w) PROVE DataInv'
  BY <1>3 DEF Kill, Clear
<1>4. ASSUME NEW w \in Triggers, NEW c \in Conns, StartTrigger(w, c) PROVE DataInv'
  BY <1>4 DEF StartTrigger, Goto, Idle, Workers
<1>5. CASE CronSelect
  BY <1>5 DEF CronSelect
<1>6. ASSUME NEW r \in Runs, CronNext(r) PROVE DataInv'
  BY <1>6 DEF CronNext, Goto, Idle, Workers
<1>7. ASSUME NEW r \in Runs, NEW w \in Tasks, StartTask(w, r) PROVE DataInv'
  BY <1>7 DEF StartTask, Goto, Idle, Workers
<1>8. ASSUME NEW w \in Workers, Close(w), UNCHANGED lock PROVE DataInv'
  BY <1>8 DEF Close, Clear
<1>9. ASSUME NEW w \in Workers, NEW c \in Conns, Load(w, c) PROVE DataInv'
  <2>1. CASE status[cur[w]] \in Active
    <3>1. /\ pc[w] = "load" /\ pc' = [pc EXCEPT ![w] = "reset"]
          /\ UNCHANGED <<cur, prep, out, pend, cpend>>
      BY <1>9, <2>1 DEF Load, Goto
    <3> QED BY <3>1
  <2>2. CASE status[cur[w]] \notin Active
    BY <1>8, <1>9, <2>2 DEF Load
  <2> QED BY <2>1, <2>2
<1>10. ASSUME NEW w \in Workers, NEW c \in Conns, PublishRead(w, c) PROVE DataInv'
  <2>1. /\ pc[w] = "publish" /\ UNCHANGED <<orm, txn>>
        /\ pc' \in {[pc EXCEPT ![w] = "pubwrite"], [pc EXCEPT ![w] = "service"]}
    BY <1>10 DEF PublishRead, Goto
  <2> QED BY <2>1
<1>11. ASSUME NEW w \in Workers, ResetRead(w) PROVE DataInv'
  BY <1>11 DEF ResetRead, Goto
<1>25. ASSUME NEW w \in Workers, ResetFlush(w) PROVE DataInv'
  BY <1>25 DEF ResetFlush, Goto
<1>12. ASSUME NEW w \in Workers, ResetWrite(w) PROVE DataInv'
  BY <1>12 DEF ResetWrite, Goto
<1>13. ASSUME NEW w \in Workers, Acquire(w) PROVE DataInv'
  BY <1>13 DEF Acquire, Goto
<1>14. ASSUME NEW w \in Workers, Overlap(w) PROVE DataInv'
  BY <1>14 DEF Overlap, WriteRun, Goto
<1>15. ASSUME NEW w \in Workers, PublishWrite(w) PROVE DataInv'
  BY <1>15 DEF PublishWrite, Goto
<1>16. ASSUME NEW w \in Workers, Fetch(w) PROVE DataInv'
  BY <1>16 DEF Fetch, Goto
<1>17. ASSUME NEW w \in Workers, Store(w) PROVE DataInv'
  BY <1>17 DEF Store, Results, Goto
<1>18. ASSUME NEW w \in Workers, ServiceFails(w) \/ StoreTimeout(w) PROVE DataInv'
  BY <1>18 DEF ServiceFails, StoreTimeout, Fail, Goto
<1>19. ASSUME NEW w \in Workers, Unlock(w) PROVE DataInv'
  BY <1>19 DEF Unlock, WriteRun, Goto
<1>20. ASSUME NEW w \in Workers, Flush(w) PROVE DataInv'
  <2>1. /\ pc' = [pc EXCEPT ![w] = "commit"] /\ pc[w] = "flush"
        /\ \A v \in Workers \ {w} : pend'[v] = pend[v]
        /\ \A r \in Runs : pend'[w][r] \in Finished => r = cur[w] /\ pend'[w][r] = out[w]
        /\ UNCHANGED <<orm, cpend>>
    BY <1>20 DEF Flush, Goto
  <2> QED BY <2>1
<1>21. ASSUME NEW w \in Workers, Commit(w) \/ Disconnected(w) \/ Timeout(w) PROVE DataInv'
  BY <1>8, <1>21 DEF Commit, Disconnected, Timeout, Abort
<1>22. CASE UNCHANGED vars
  BY <1>22
<1>23. ASSUME NEW w \in Workers, Step(w) PROVE DataInv'
  BY <1>9, <1>10, <1>11, <1>12, <1>13, <1>14, <1>15, <1>16, <1>17, <1>18, <1>19, <1>20, <1>21,
     <1>23, <1>25 DEF Step
<1>24. CASE Environment
  BY <1>1, <1>2, <1>3, <1>4, <1>24
<1> QED BY <1>5, <1>6, <1>7, <1>22, <1>23, <1>24 DEF Next, Start

\* A run becomes completed or partial only together with the data its worker fetched, or
\* completed with the cursor where it was when there was nothing to fetch.
THEOREM CompletionHasData == Spec => CompletedWithData
<1> DEFINE HasData == \A r \in Runs :
      (status'[r] \in {"completed", "partial"} /\ status'[r] # status[r])
         => \E w \in Workers :
              /\ pc[w] = "commit" /\ cur[w] = r
              /\ \/ cursor' = prep[w] /\ cursor'.val > 0
                 \/ /\ status'[r] = "completed" /\ prep[w] = Nothing
                    /\ cursor' = cursor \/ cursor'.st = "idle"
<1>1. Init => IInv /\ RunInv /\ DataInv
  BY TypeInit, RunInvInit, DataInvInit
<1>2. IInv /\ RunInv /\ DataInv /\ [Next]_vars => IInv' /\ RunInv' /\ DataInv'
  BY InductiveStep, RunInvStep, DataInvStep
<1>3. ASSUME IInv, DataInv, [Next]_vars PROVE HasData
  <2> SUFFICES ASSUME NEW r \in Runs, status'[r] \in Finished, status'[r] # status[r]
               PROVE  \E w \in Workers :
                        /\ pc[w] = "commit" /\ cur[w] = r
                        /\ \/ cursor' = prep[w] /\ cursor'.val > 0
                           \/ /\ status'[r] = "completed" /\ prep[w] = Nothing
                              /\ cursor' = cursor \/ cursor'.st = "idle"
    BY DEF Finished
  <2>1. ASSUME NEW q \in Runs PROVE ~Enqueue(q)
    BY <1>3, <2>1 DEF Enqueue, IInv, TypeOK, Finished
  <2>2. ASSUME NEW w \in Workers PROVE ~PublishWrite(w)
    <3> SUFFICES ASSUME PublishWrite(w) PROVE FALSE
      OBVIOUS
    <3>1. status' = [status EXCEPT ![cur[w]] = Published(w)]
      BY DEF PublishWrite
    <3> QED BY <1>3, <3>1 DEF Published, IInv, TypeOK, Finished
  <2>3. PICK w \in Workers : Commit(w)
    <3>1. ASSUME NEW w \in Workers, Step(w), ~PublishWrite(w), ~Commit(w) PROVE status' = status
      BY <3>1 DEF Step, Load, PublishRead, ResetRead, ResetFlush, ResetWrite, Acquire, Overlap, Fetch,
         Store, ServiceFails, Fail, Disconnected, Abort, Unlock, Flush, Timeout, StoreTimeout
    <3>2. ASSUME Environment, \A q \in Runs : ~Enqueue(q) PROVE status' = status
      BY <3>2 DEF Environment, Age, ResetCursor, AgeCursor, Crash, Recycle, Kill, StartTrigger
    <3>3. ASSUME CronSelect \/ Start \/ UNCHANGED vars PROVE status' = status
      BY <3>3 DEF CronSelect, Start, CronNext, StartTask
    <3> QED BY <1>3, <2>1, <2>2, <3>1, <3>2, <3>3 DEF Next
  <2>4. pend[w][r] \in Finished /\ pc[w] = "commit"
    BY <2>3 DEF Commit
  <2>5. cur[w] = r /\ out[w] \in Finished /\ status'[r] = out[w]
    BY <1>3, <2>3, <2>4 DEF DataInv, Commit, Finished, Terminal
  <2>6. CASE cpend[w] = prep[w] /\ prep[w].val > 0
    <3>1. cpend[w] # NoWrite
      BY <2>6 DEF NoWrite
    <3>2. cursor' = prep[w]
      BY <2>3, <2>6, <3>1 DEF Commit
    <3> QED BY <2>4, <2>5, <2>6, <3>2
  <2>7. CASE /\ out[w] = "completed" /\ prep[w] = Nothing
             /\ cpend[w] = NoWrite \/ cpend[w].st = "idle"
    <3>1. cursor' = cursor \/ cursor'.st = "idle"
      BY <2>3, <2>7 DEF Commit
    <3> QED BY <2>4, <2>5, <2>7, <3>1
  <2> QED BY <1>3, <2>5, <2>6, <2>7 DEF DataInv
<1>4. IInv /\ DataInv /\ [Next]_vars => [HasData]_vars
  BY <1>3
<1> QED BY <1>1, <1>2, <1>4, PTL DEF Spec, CompletedWithData

-----------------------------------------------------------------------------
(***************************************************************************)
(* Why the cursor does not go back, in the domains whose services never    *)
(* leave it running.  A reset then has no cursor to write, so that only a  *)
(* service writes it; whoever is about to has fetched last, since nobody   *)
(* fetches while a worker is between lock and unlock; and a second worker  *)
(* that fetches after the unlock waits for the first one's row lock.       *)
(***************************************************************************)
CursorInv ==
    /\ cursor.val <= fetched
    /\ \A w \in Workers :
         /\ pc[w] \in {"idle", "load", "reset", "resetflush", "resetwrite"} => prep[w] = NoWrite
         /\ cpend[w] # NoWrite => cursor.val <= cpend[w].val /\ cpend[w].val <= fetched
         /\ pc[w] = "store" /\ sess[w] # NoConn => prep[w] = Nothing \/ prep[w].val = fetched
    /\ \A v, w \in Workers : cpend[v] # NoWrite /\ cpend[w] # NoWrite => v = w

NotRunning == "running" \notin CursorStates

LEMMA CursorInvInit == Init => CursorInv
  BY AbsentAssumption DEF Init, CursorInv, NoWrite

LEMMA CursorInvStep ==
    ASSUME NotRunning PROVE IInv /\ CursorInv /\ [Next]_vars => CursorInv'
<1> SUFFICES ASSUME IInv, CursorInv, [Next]_vars PROVE CursorInv'
  OBVIOUS
<1> DEFINE Same == UNCHANGED <<cursor, prep, cpend, fetched>>
<1>1. /\ cursor.st # "running" /\ cursor.val \in Nat /\ fetched \in Nat
      /\ cursor \in Cursors /\ pc \in [Workers -> Steps] /\ sess \in [Workers -> Conns \cup {NoConn}]
      /\ prep \in [Workers -> Cursors \cup {NoWrite, Nothing}]
      /\ cpend \in [Workers -> Cursors \cup {NoWrite}]
  BY DEF IInv, TypeOK, Cursors, NotRunning
<1>2. \A w \in Workers : cpend[w] # NoWrite =>
         cpend[w].st # "none" /\ cpend[w].val \in Nat /\ w \in CursorHolders
  BY <1>1, CursorStatesAssumption DEF Cursors, CursorHolders
<1>3. ASSUME NEW w \in Workers, Close(w), UNCHANGED <<cursor, fetched>> PROVE CursorInv'
  BY <1>1, <1>3 DEF Close, CursorInv
<1>4. ASSUME NEW w \in Workers, NEW s \in Steps, pc' = [pc EXCEPT ![w] = s], Same,
             \A v \in Workers \ {w} : sess'[v] = sess[v],
             s \in {"idle", "load", "reset", "resetflush", "resetwrite"}
                => pc[w] \in {"idle", "load", "reset", "resetflush", "resetwrite"},
             s # "store"
      PROVE  CursorInv'
  BY <1>1, <1>4 DEF CursorInv
<1>5. ASSUME Same, UNCHANGED <<pc, sess>> PROVE CursorInv'
  BY <1>5 DEF CursorInv
<1>6. CASE Crash
  BY <1>1, <1>6 DEF Crash, NewProcess, CursorInv
<1>7. ASSUME NEW w \in Workers, Kill(w) PROVE CursorInv'
  BY <1>1, <1>7 DEF Kill, CursorInv
<1>8. CASE ResetCursor
  BY <1>1, <1>2, <1>8 DEF ResetCursor, CursorInv
<1>9. CASE Environment
  <2>1. ASSUME NEW w \in Triggers, NEW c \in Conns, StartTrigger(w, c) PROVE CursorInv'
    BY <1>1, <1>4, <2>1 DEF StartTrigger, Goto, Idle, Workers, CheckOut, Steps
  <2>2. ASSUME NEW r \in Runs, Enqueue(r) \/ Age(r) PROVE CursorInv'
    BY <1>5, <2>2 DEF Enqueue, Age
  <2>3. ~AgeCursor
    BY <1>1 DEF AgeCursor
  <2>4. ASSUME NEW c \in Conns, Recycle(c) PROVE CursorInv'
    BY <1>5, <2>4 DEF Recycle
  <2> QED BY <1>6, <1>7, <1>8, <1>9, <2>1, <2>2, <2>3, <2>4 DEF Environment
<1>10. CASE CronSelect
  BY <1>5, <1>10 DEF CronSelect
<1>11. CASE Start
  <2>1. ASSUME NEW r \in Runs, CronNext(r) PROVE CursorInv'
    BY <1>4, <2>1 DEF CronNext, Goto, Idle, Workers, Steps
  <2>2. ASSUME NEW r \in Runs, NEW w \in Tasks, StartTask(w, r) PROVE CursorInv'
    BY <1>4, <2>2 DEF StartTask, Goto, Idle, Workers, Steps
  <2> QED BY <1>11, <2>1, <2>2 DEF Start
<1>12. ASSUME NEW w \in Workers, Step(w) PROVE CursorInv'
  <2>1. ASSUME NEW c \in Conns, Load(w, c) PROVE CursorInv'
    <3>1. CASE status[cur[w]] \in Active
      BY <1>1, <1>4, <2>1, <3>1 DEF Load, Goto, CheckOut, Steps
    <3>2. CASE status[cur[w]] \notin Active
      BY <1>3, <2>1, <3>2 DEF Load
    <3> QED BY <3>1, <3>2
  <2>2. ASSUME NEW c \in Conns, PublishRead(w, c) PROVE CursorInv'
    <3>1. /\ pc[w] = "publish" /\ Same /\ UNCHANGED sess
          /\ \E s \in {"pubwrite", "service"} : pc' = [pc EXCEPT ![w] = s]
      BY <2>2 DEF PublishRead, Goto
    <3> QED BY <1>4, <3>1 DEF Steps
  <2>3. CASE ResetRead(w)
    <3>1. prep'[w] = NoWrite /\ \A v \in Workers \ {w} : prep'[v] = prep[v]
      BY <1>1, <2>3 DEF ResetRead
    <3> QED BY <1>1, <2>3, <3>1 DEF ResetRead, Goto, CursorInv
  <2>4. CASE ResetWrite(w)
    BY <1>1, <2>4 DEF ResetWrite, Goto, CursorInv
  <2>12. CASE ResetFlush(w)
    BY <1>1, <2>12 DEF ResetFlush, Goto, CursorInv
  <2>5. CASE Acquire(w) \/ Overlap(w) \/ Unlock(w) \/ PublishWrite(w)
    <3>1. /\ Same /\ UNCHANGED sess
          /\ \E s \in {"service", "publish", "commit", "flush"} : pc' = [pc EXCEPT ![w] = s]
      BY <2>5 DEF Acquire, Overlap, Unlock, PublishWrite, WriteRun, Goto
    <3> QED BY <1>4, <3>1 DEF Steps
  <2>6. CASE Fetch(w)
    <3>1. \A v \in Workers : pc[v] = "store" /\ sess[v] # NoConn => v = w
      BY <2>6 DEF Fetch, Live, Locked, IInv, ConnInv, LockInv
    <3>2. /\ \/ fetched' = fetched + 1 /\ prep'[w].val = fetched + 1
             \/ fetched' = fetched /\ prep'[w] = Nothing
          /\ \A v \in Workers \ {w} : prep'[v] = prep[v] /\ pc'[v] = pc[v]
          /\ pc'[w] = "store" /\ pc[w] = "service" /\ UNCHANGED <<cursor, cpend, sess>>
      BY <1>1, <2>6 DEF Fetch, Goto
    <3> QED BY <1>1, <1>2, <3>1, <3>2 DEF CursorInv
  <2>7. CASE Store(w)
    <3>1. CASE prep[w] = Nothing
      <4>1. Same /\ pc' = [pc EXCEPT ![w] = "unlock"] /\ UNCHANGED sess
        BY <1>1, <2>7, <3>1 DEF Store, Goto
      <4> QED BY <1>4, <4>1 DEF Steps
    <3>2. CASE prep[w] # Nothing
      <4>1. \A v \in Workers \ {w} : cpend[v] = NoWrite
        BY <1>2, <2>7, <3>2 DEF Store, CursorBusy
      <4>2. /\ cpend' = [cpend EXCEPT ![w] = prep[w]] /\ prep[w].val = fetched
            /\ pc' = [pc EXCEPT ![w] = "unlock"] /\ UNCHANGED <<cursor, fetched, prep, sess>>
        BY <2>7, <3>2 DEF Store, Goto, CursorInv
      <4> QED BY <1>1, <4>1, <4>2 DEF CursorInv
    <3> QED BY <3>1, <3>2
  <2>8. CASE ServiceFails(w) \/ StoreTimeout(w)
    BY <1>4, <2>8 DEF ServiceFails, StoreTimeout, Fail, Goto, Steps
  <2>9. CASE Flush(w)
    BY <1>4, <2>9 DEF Flush, Goto, Steps
  <2>10. CASE Disconnected(w) \/ Timeout(w)
    BY <1>3, <2>10 DEF Disconnected, Timeout, Abort
  <2>11. CASE Commit(w)
    <3>1. CASE cpend[w] = NoWrite
      BY <1>3, <2>11, <3>1 DEF Commit
    <3>2. CASE cpend[w] # NoWrite
      <4>1. cursor' = cpend[w] /\ fetched' = fetched
        BY <2>11, <3>2 DEF Commit
      <4>2. \A v \in Workers : cpend'[v] = NoWrite
        BY <1>1, <2>11, <3>2 DEF Commit, Close, CursorInv
      <4> QED BY <1>1, <1>2, <2>11, <3>2, <4>1, <4>2 DEF Commit, Close, CursorInv
    <3> QED BY <3>1, <3>2
  <2> QED
    BY <1>12, <2>1, <2>2, <2>3, <2>4, <2>5, <2>6, <2>7, <2>8, <2>9, <2>10, <2>11, <2>12 DEF Step
<1>13. CASE UNCHANGED vars
  BY <1>5, <1>13
<1> QED BY <1>9, <1>10, <1>11, <1>12, <1>13 DEF Next

\* Where no service leaves the cursor running, only the API's reset sends it back.
THEOREM NoStepBack == ASSUME NotRunning PROVE Spec => CursorMonotone
<1> DEFINE Back == cursor'.val < cursor.val => ResetCursor
<1>1. Init => IInv /\ CursorInv
  BY TypeInit, CursorInvInit
<1>2. IInv /\ CursorInv /\ [Next]_vars => IInv' /\ CursorInv'
  BY InductiveStep, CursorInvStep
<1>3. ASSUME IInv, CursorInv, [Next]_vars, cursor'.val < cursor.val PROVE ResetCursor
  <2>1. cursor' # cursor /\ cursor.val \in Nat
    BY <1>3 DEF IInv, TypeOK, Cursors
  <2>2. ASSUME AgeCursor PROVE FALSE
    BY <1>3, <2>2 DEF AgeCursor, IInv, TypeOK, Cursors, NotRunning
  <2>3. ASSUME NEW w \in Workers, Commit(w) PROVE FALSE
    <3>1. cpend[w] # NoWrite /\ cursor' = cpend[w]
      BY <2>1, <2>3 DEF Commit
    <3>2. cpend[w].val \in Nat
      BY <1>3, <3>1 DEF IInv, TypeOK, Cursors
    <3> QED BY <1>3, <2>1, <3>1, <3>2 DEF CursorInv
  <2>4. ASSUME NEW w \in Workers, Step(w) PROVE FALSE
    BY <2>1, <2>3, <2>4 DEF Step, Load, PublishRead, ResetRead, ResetFlush, ResetWrite, Acquire, Overlap,
       PublishWrite, Fetch, Store, ServiceFails, Fail, Disconnected, Abort, Unlock, Flush,
       Timeout, StoreTimeout
  <2>5. Environment
    BY <1>3, <2>1, <2>4 DEF Next, CronSelect, Start, CronNext, StartTask
  <2> QED
    BY <2>1, <2>2, <2>5 DEF Environment, Enqueue, Age, Crash, Recycle, Kill, StartTrigger
<1>4. IInv /\ CursorInv /\ [Next]_vars => [Back]_vars
  BY <1>3
<1> QED BY <1>1, <1>2, <1>4, PTL DEF Spec, CursorMonotone
=============================================================================
