----------------------- MODULE ProblemLifecycleProofs -----------------------
(***************************************************************************)
(* Proofs about ProblemLifecycle, for any sets of transactions, any rule   *)
(* and any bounds.                                                         *)
(***************************************************************************)
EXTENDS ProblemLifecycle, TLAPS

-----------------------------------------------------------------------------
(***************************************************************************)
(* The types, and that a transaction which has written has the row's lock  *)
(* alone.                                                                  *)
(***************************************************************************)
LEMMA InitialType == \A v : InitialStatus(v) \in Statuses
  BY RuleAssumption DEF InitialStatus, Statuses

LEMMA EvaluatedType ==
  ASSUME NEW old \in Rows, NEW v
  PROVE  Evaluated(old, v) \in Rows
<1>1. StatusOnMatch(old, v) \in Statuses \cup {"absent"}
  BY InitialType DEF StatusOnMatch, Rows, Statuses
<1>2. OnNoMatch(old, v) \in Rows
  BY DEF OnNoMatch, Rows, Statuses
<1> QED
  BY <1>1, <1>2, InitialType DEF Evaluated, Rows

LEMMA ColumnsType == \A old, v : EvaluatedColumns(old, v) \in SUBSET Columns
  BY DEF EvaluatedColumns, Columns

LEMMA AbsentType == Absent \in Rows /\ Absent.st = "absent"
  BY DEF Absent, Rows

LEMMA FoundType ==
  ASSUME TypeOK, NEW t \in Txns
  PROVE  Found(t) \in Rows
  BY DEF TypeOK, Found

LEMMA MergedType ==
  ASSUME TypeOK, NEW t \in Txns
  PROVE  /\ Merged(t) \in Rows
         /\ "st" \notin held[t] => Merged(t).st = row.st
         /\ held[t] = {} => Merged(t) = row
<1>1. row \in Rows /\ mem[t] \in Rows
  BY DEF TypeOK
<1> QED
  BY <1>1 DEF Merged, Rows

LEMMA TypeInit == Init => TypeOK
  BY AbsentType, RuleAssumption DEF Init, TypeOK, Steps, Statuses

LEMMA ForgetStep ==
  ASSUME TypeOK, NEW t \in Txns, Forget(t)
  PROVE  /\ pc' \in [Txns -> Steps]
         /\ seen' \in [Txns -> Verdicts \cup {"none", "failed"}]
         /\ first' \in [Txns -> Statuses \cup {"absent"}]
         /\ mem' \in [Txns -> Rows]
         /\ base' \in [Txns -> SUBSET Nat]
         /\ dirty' \in [Txns -> SUBSET Columns]
         /\ held' \in [Txns -> SUBSET Columns]
         /\ \A u, v \in Txns : held'[u] # {} /\ held'[v] # {} => u = v
  BY AbsentType DEF TypeOK, Forget, Steps

LEMMA SpendType ==
  ASSUME TypeOK, NEW bound \in {"requests", "failures"}, NEW limit, Spend(bound, limit)
  PROVE  used' \in [requests : Nat, failures : Nat]
<1>1. used \in [requests : Nat, failures : Nat]
  BY DEF TypeOK
<1>2. used' = [used EXCEPT ![bound] = @ + 1]
  BY DEF Spend
<1>3. CASE bound = "requests"
  BY <1>1, <1>2, <1>3
<1>4. CASE bound = "failures"
  BY <1>1, <1>2, <1>4
<1> QED
  BY <1>3, <1>4

\* The part of the type invariant a failed evaluation touches.
LEMMA FailsStep ==
  ASSUME TypeOK, NEW t \in Txns, Fails(t), used' \in [requests : Nat, failures : Nat]
  PROVE  TypeOK'
<1>1. pc' \in [Txns -> Steps]
  BY DEF TypeOK, Fails, Goto, Steps
<1>2. seen' \in [Txns -> Verdicts \cup {"none", "failed"}]
  BY DEF TypeOK, Fails
<1>3. mem' \in [Txns -> Rows]
  BY AbsentType DEF TypeOK, Fails
<1>4. /\ dirty' \in [Txns -> SUBSET Columns]
      /\ held' \in [Txns -> SUBSET Columns]
      /\ \A u, v \in Txns : held'[u] # {} /\ held'[v] # {} => u = v
  BY DEF TypeOK, Fails
<1>5. UNCHANGED <<row, cond, first, base>>
  BY DEF Fails
<1> QED
  BY <1>1, <1>2, <1>3, <1>4, <1>5 DEF TypeOK

LEMMA TypeStep == TypeOK /\ [Next]_vars => TypeOK'
<1> SUFFICES ASSUME TypeOK, [Next]_vars
             PROVE  TypeOK'
  OBVIOUS
<1>1. CASE Change
  BY <1>1 DEF Change, TypeOK
<1>2. ASSUME NEW t \in Txns, LoadForRecheck(t)
      PROVE  TypeOK'
  <2>1. used' \in [requests : Nat, failures : Nat]
    BY <1>2, SpendType DEF LoadForRecheck
  <2>2. row.st \in Statuses \cup {"absent"} /\ row.task \in SUBSET Nat
    BY DEF TypeOK, Rows
  <2> QED
    BY <1>2, <2>1, <2>2 DEF LoadForRecheck, Goto, TypeOK, Steps
<1>3. ASSUME NEW t \in Txns, Measure(t)
      PROVE  TypeOK'
  <2>1. cond \in Verdicts
    BY RuleAssumption DEF TypeOK
  <2> QED
    BY <1>3, <2>1 DEF Measure, Goto, TypeOK, Steps
<1>4. ASSUME NEW t \in Txns, Find(t)
      PROVE  TypeOK'
  <2>1. mem' \in [Txns -> Rows]
    BY <1>4, FoundType, EvaluatedType DEF Find, TypeOK
  <2>2. dirty' \in [Txns -> SUBSET Columns]
    BY <1>4, ColumnsType DEF Find, TypeOK
  <2>3. first' \in [Txns -> Statuses \cup {"absent"}]
    BY <1>4, FoundType DEF Find, TypeOK, Rows
  <2>4. pc' \in [Txns -> Steps]
    BY <1>4 DEF Find, Goto, TypeOK, Steps
  <2> QED
    BY <1>4, <2>1, <2>2, <2>3, <2>4 DEF Find, TypeOK
<1>5. ASSUME NEW t \in Txns, Flush(t)
      PROVE  TypeOK'
  <2>1. pc' \in [Txns -> Steps]
    BY <1>5 DEF Flush, Goto, TypeOK, Steps
  <2>2. held' \in [Txns -> SUBSET Columns] /\ dirty' \in [Txns -> SUBSET Columns]
    BY <1>5 DEF Flush, TypeOK
  <2>3. \A u \in Txns \ {t} : held[u] = {} /\ held'[u] = {}
    BY <1>5 DEF Flush, Busy, TypeOK
  <2> QED
    BY <1>5, <2>1, <2>2, <2>3 DEF Flush, TypeOK
<1>6. ASSUME NEW t \in Txns, EvaluationEnds(t)
      PROVE  TypeOK'
  BY <1>6 DEF EvaluationEnds, Goto, TypeOK, Steps
<1>7. ASSUME NEW t \in Txns, EvaluationFails(t)
      PROVE  TypeOK'
  BY <1>7, SpendType, FailsStep DEF EvaluationFails
<1>8. ASSUME NEW t \in Txns, InsertFails(t)
      PROVE  TypeOK'
  BY <1>8, FailsStep DEF InsertFails, TypeOK
<1>9. ASSUME NEW t \in Txns, Conclude(t)
      PROVE  TypeOK'
  <2>1. Refreshed(t) \in Rows
    BY DEF Refreshed, TypeOK
  <2>2. [st |-> "reopened", task |-> Refreshed(t).task] \in Rows
    BY <2>1 DEF Rows, Statuses
  <2>3. mem' \in [Txns -> Rows] /\ dirty' \in [Txns -> SUBSET Columns]
    BY <1>9, <2>2 DEF Conclude, TypeOK
  <2>5. base' \in [Txns -> SUBSET Nat]
    BY <1>9 DEF Conclude, TypeOK, Rows
  <2>4. pc' \in [Txns -> Steps]
    BY <1>9 DEF Conclude, Goto, TypeOK, Steps
  <2> QED
    BY <1>9, <2>3, <2>4, <2>5 DEF Conclude, TypeOK
<1>10. ASSUME NEW t \in Users, NEW s \in Statuses, Update(t, s)
       PROVE  TypeOK'
  <2>1. used' \in [requests : Nat, failures : Nat]
    BY <1>10, SpendType DEF Update
  <2>2. /\ row.st \in Statuses \cup {"absent"} /\ row.task \in SUBSET Nat
        /\ [st |-> s, task |-> WithSaved(row.task, used'.requests)] \in Rows
    BY <2>1 DEF TypeOK, Rows, WithSaved
  <2>3. mem' \in [Txns -> Rows] /\ dirty' \in [Txns -> SUBSET Columns]
    BY <1>10, <2>2 DEF Update, TypeOK, Columns
  <2> QED
    BY <1>10, <2>1, <2>2, <2>3 DEF Update, Goto, TypeOK, Steps
<1>11. ASSUME NEW t \in Txns, Commit(t)
       PROVE  TypeOK'
  BY <1>11, ForgetStep, MergedType DEF Commit, TypeOK
<1>12. ASSUME NEW t \in Txns, Rollback(t)
       PROVE  TypeOK'
  BY <1>12, ForgetStep, SpendType DEF Rollback, TypeOK
<1>13. CASE UNCHANGED vars
  BY <1>13 DEF vars, TypeOK
<1> QED
  BY <1>1, <1>2, <1>3, <1>4, <1>5, <1>6, <1>7, <1>8, <1>9, <1>10, <1>11, <1>12,
     <1>13 DEF Next, Work

\* Type correctness: every action of evaluations, rechecks and users keeps the
\* types, and at most one transaction has flushed without ending.
THEOREM TypeCorrect == Spec => []TypeOK
  BY TypeInit, TypeStep, PTL DEF Spec

-----------------------------------------------------------------------------
(***************************************************************************)
(* The strengthening for what an evaluation may do to a row it has read.   *)
(***************************************************************************)

\* An evaluation writes nothing before its flush.
CleanInv ==
    \A t \in Evaluators :
       /\ pc[t] \in {"idle", "find", "flush", "rest", "commit"}
       /\ pc[t] \in {"idle", "find", "flush"} => held[t] = {}

\* One that inserts has the unique key: nobody else's row can be committed.
InsertInv ==
    \A t \in Evaluators : first[t] = "absent" /\ held[t] # {} => row = Absent

\* One that has seen a user's decision does not have the status among the columns
\* it writes, so a commit leaves the status that is there by then.
DecisionInv ==
    \A t \in Evaluators :
       (/\ pc[t] \in {"flush", "rest", "commit"}
        /\ seen[t] \in Matching
        /\ first[t] \in Preserved \ Reopening)
         => "st" \notin dirty[t] \cup held[t]

IInv == TypeOK /\ CleanInv /\ InsertInv /\ DecisionInv

LEMMA KeptColumns ==
  ASSUME NEW old \in Rows, NEW v \in Matching, old.st \in Preserved \ Reopening
  PROVE  "st" \notin EvaluatedColumns(old, v)
<1>1. old # Absent
  BY DEF Absent, Preserved
<1>2. Evaluated(old, v).st = old.st
  BY <1>1 DEF Evaluated, StatusOnMatch
<1>3. v # "inactive"
  BY DEF Matching
<1> QED
  BY <1>2, <1>3 DEF EvaluatedColumns

LEMMA EvaluatorInit == Init => IInv
<1> SUFFICES ASSUME Init
             PROVE  IInv
  OBVIOUS
<1>1. TypeOK
  BY TypeInit
<1>2. \A t \in Evaluators : t \in Txns
  BY DEF Txns
<1>3. CleanInv /\ InsertInv /\ DecisionInv
  BY <1>2 DEF Init, CleanInv, InsertInv, DecisionInv
<1> QED
  BY <1>1, <1>3 DEF IInv

\* What holds of an evaluation survives a step of another transaction, which leaves
\* its variables alone and, while it has the row, the row too.
LEMMA OthersStep ==
  ASSUME IInv, NEW t \in Evaluators,
         pc'[t] = pc[t], seen'[t] = seen[t], first'[t] = first[t],
         dirty'[t] = dirty[t], held'[t] = held[t],
         held[t] # {} => row' = row
  PROVE  /\ pc'[t] \in {"idle", "find", "flush", "rest", "commit"}
         /\ pc'[t] \in {"idle", "find", "flush"} => held'[t] = {}
         /\ first'[t] = "absent" /\ held'[t] # {} => row' = Absent
         /\ (/\ pc'[t] \in {"flush", "rest", "commit"}
             /\ seen'[t] \in Matching
             /\ first'[t] \in Preserved \ Reopening)
              => "st" \notin dirty'[t] \cup held'[t]
  BY DEF IInv, CleanInv, InsertInv, DecisionInv

\* The end of a transaction, its own or another's.
LEMMA ForgetEvaluator ==
  ASSUME IInv, NEW u \in Txns, Forget(u), row' = row \/ row' = Merged(u)
  PROVE  (CleanInv /\ InsertInv /\ DecisionInv)'
<1> SUFFICES ASSUME NEW t \in Evaluators
             PROVE  /\ pc'[t] \in {"idle", "find", "flush", "rest", "commit"}
                    /\ pc'[t] \in {"idle", "find", "flush"} => held'[t] = {}
                    /\ first'[t] = "absent" /\ held'[t] # {} => row' = Absent
                    /\ (/\ pc'[t] \in {"flush", "rest", "commit"}
                        /\ seen'[t] \in Matching
                        /\ first'[t] \in Preserved \ Reopening)
                         => "st" \notin dirty'[t] \cup held'[t]
  BY DEF CleanInv, InsertInv, DecisionInv
<1> t \in Txns
  BY DEF Txns
<1>1. CASE t = u
  BY <1>1 DEF Forget, IInv, TypeOK
<1>2. CASE t # u
  <2>1. held[t] # {} => held[u] = {}
    BY <1>2 DEF IInv, TypeOK
  <2>2. held[t] # {} => row' = row
    BY <2>1, MergedType DEF IInv
  <2>3. /\ pc'[t] = pc[t] /\ seen'[t] = seen[t] /\ first'[t] = first[t]
        /\ dirty'[t] = dirty[t] /\ held'[t] = held[t]
    BY <1>2 DEF Forget, IInv, TypeOK
  <2> QED
    BY <2>2, <2>3, OthersStep
<1> QED
  BY <1>1, <1>2

\* A failed evaluation is back before its first write.
LEMMA FailsEvaluator ==
  ASSUME IInv, NEW u \in Txns, Fails(u)
  PROVE  (CleanInv /\ InsertInv /\ DecisionInv)'
<1> SUFFICES ASSUME NEW t \in Evaluators
             PROVE  /\ pc'[t] \in {"idle", "find", "flush", "rest", "commit"}
                    /\ pc'[t] \in {"idle", "find", "flush"} => held'[t] = {}
                    /\ first'[t] = "absent" /\ held'[t] # {} => row' = Absent
                    /\ (/\ pc'[t] \in {"flush", "rest", "commit"}
                        /\ seen'[t] \in Matching
                        /\ first'[t] \in Preserved \ Reopening)
                         => "st" \notin dirty'[t] \cup held'[t]
  BY DEF CleanInv, InsertInv, DecisionInv
<1> t \in Txns
  BY DEF Txns
<1>1. CASE t = u
  <2>1. t \notin Rechecks
    BY TxnsAssumption
  <2> QED
    BY <1>1, <2>1 DEF Fails, Goto, IInv, TypeOK
<1>2. CASE t # u
  BY <1>2, OthersStep DEF Fails, Goto, IInv, TypeOK
<1> QED
  BY <1>1, <1>2

LEMMA EvaluatorStep == IInv /\ [Next]_vars => IInv'
<1> SUFFICES ASSUME IInv, [Next]_vars
             PROVE  (CleanInv /\ InsertInv /\ DecisionInv)'
  BY TypeStep DEF IInv
<1> USE DEF Txns
<1>0. \A t \in Evaluators : t \in Txns /\ t \notin Rechecks /\ t \notin Users
  BY TxnsAssumption
<1> DEFINE Same(t) == /\ pc'[t] = pc[t] /\ seen'[t] = seen[t] /\ first'[t] = first[t]
                      /\ dirty'[t] = dirty[t] /\ held'[t] = held[t]
                      /\ held[t] # {} => row' = row
           Good(t) == /\ pc'[t] \in {"idle", "find", "flush", "rest", "commit"}
                      /\ pc'[t] \in {"idle", "find", "flush"} => held'[t] = {}
                      /\ first'[t] = "absent" /\ held'[t] # {} => row' = Absent
                      /\ (/\ pc'[t] \in {"flush", "rest", "commit"}
                          /\ seen'[t] \in Matching
                          /\ first'[t] \in Preserved \ Reopening)
                           => "st" \notin dirty'[t] \cup held'[t]
<1>good. (\A t \in Evaluators : Same(t) \/ Good(t))
           => (CleanInv /\ InsertInv /\ DecisionInv)'
  BY OthersStep DEF CleanInv, InsertInv, DecisionInv
<1>1. CASE Change \/ UNCHANGED vars
  <2>1. \A t \in Evaluators : Same(t)
    BY <1>1 DEF Change, vars
  <2> QED
    BY <2>1, <1>good
<1>2. ASSUME NEW u \in Txns, LoadForRecheck(u)
      PROVE  (CleanInv /\ InsertInv /\ DecisionInv)'
  <2>1. \A t \in Evaluators : Same(t)
    BY <1>2, <1>0 DEF LoadForRecheck, Goto, IInv, TypeOK
  <2> QED
    BY <2>1, <1>good
<1>3. ASSUME NEW u \in Txns, Measure(u)
      PROVE  (CleanInv /\ InsertInv /\ DecisionInv)'
  <2>1. \A t \in Evaluators : t # u => Same(t)
    BY <1>3, <1>0 DEF Measure, Goto, IInv, TypeOK
  <2>2. u \in Evaluators => Good(u)
    BY <1>3, <1>0 DEF Measure, Goto, IInv, TypeOK, CleanInv
  <2> QED
    BY <2>1, <2>2, <1>good
<1>4. ASSUME NEW u \in Txns, Find(u)
      PROVE  (CleanInv /\ InsertInv /\ DecisionInv)'
  <2>1. \A t \in Evaluators : t # u => Same(t)
    BY <1>4, <1>0 DEF Find, Goto, IInv, TypeOK
  <2>2. ASSUME u \in Evaluators
        PROVE  Good(u)
    <3>1. pc'[u] \in {"rest", "flush"} /\ held[u] = {} /\ held'[u] = held[u]
          /\ seen'[u] = seen[u]
      BY <1>4, <2>2 DEF Find, Goto, IInv, TypeOK, CleanInv
    <3>2. first'[u] = Found(u).st /\ dirty'[u] = EvaluatedColumns(Found(u), seen[u])
      BY <1>4 DEF Find, IInv, TypeOK
    <3>3. Found(u) \in Rows
      BY FoundType DEF IInv
    <3>4. seen'[u] \in Matching /\ first'[u] \in Preserved \ Reopening
            => "st" \notin dirty'[u]
      BY <3>1, <3>2, <3>3, KeptColumns
    <3> QED
      BY <3>1, <3>4
  <2> QED
    BY <2>1, <2>2, <1>good
<1>5. ASSUME NEW u \in Txns, Flush(u)
      PROVE  (CleanInv /\ InsertInv /\ DecisionInv)'
  <2>1. \A t \in Evaluators : t # u => Same(t)
    BY <1>5, <1>0 DEF Flush, Goto, IInv, TypeOK
  <2>2. ASSUME u \in Evaluators
        PROVE  Good(u)
    <3>1. pc[u] = "flush" /\ ~Collides(u)
      BY <1>5, <2>2 DEF Flush, IInv, CleanInv
    <3>2. pc'[u] = "rest" /\ held'[u] = held[u] \cup dirty[u] /\ dirty'[u] = {}
          /\ first'[u] = first[u] /\ seen'[u] = seen[u] /\ row' = row
      BY <1>5, <3>1 DEF Flush, Goto, IInv, TypeOK
    <3> QED
      BY <3>1, <3>2, <2>2 DEF Collides, IInv, DecisionInv
  <2> QED
    BY <2>1, <2>2, <1>good
<1>6. ASSUME NEW u \in Txns, EvaluationEnds(u)
      PROVE  (CleanInv /\ InsertInv /\ DecisionInv)'
  <2>1. \A t \in Evaluators : t # u => Same(t)
    BY <1>6, <1>0 DEF EvaluationEnds, Goto, IInv, TypeOK
  <2>2. u \in Evaluators => Good(u)
    BY <1>6, <1>0 DEF EvaluationEnds, Goto, IInv, TypeOK, InsertInv, DecisionInv
  <2> QED
    BY <2>1, <2>2, <1>good
<1>7. ASSUME NEW u \in Txns, EvaluationFails(u) \/ InsertFails(u)
      PROVE  (CleanInv /\ InsertInv /\ DecisionInv)'
  BY <1>7, FailsEvaluator DEF EvaluationFails, InsertFails
<1>8. ASSUME NEW u \in Txns, Conclude(u)
      PROVE  (CleanInv /\ InsertInv /\ DecisionInv)'
  <2>1. u \notin Evaluators
    BY <1>8 DEF Conclude, IInv, CleanInv
  <2>2. \A t \in Evaluators : Same(t)
    BY <1>8, <1>0, <2>1 DEF Conclude, Goto, IInv, TypeOK
  <2> QED
    BY <2>2, <1>good
<1>9. ASSUME NEW u \in Users, NEW s \in Statuses, Update(u, s)
      PROVE  (CleanInv /\ InsertInv /\ DecisionInv)'
  <2>1. \A t \in Evaluators : Same(t)
    BY <1>9, <1>0 DEF Update, Goto, IInv, TypeOK
  <2> QED
    BY <2>1, <1>good
<1>10. ASSUME NEW u \in Txns, Commit(u)
       PROVE  (CleanInv /\ InsertInv /\ DecisionInv)'
  BY <1>10, ForgetEvaluator DEF Commit
<1>11. ASSUME NEW u \in Txns, Rollback(u)
       PROVE  (CleanInv /\ InsertInv /\ DecisionInv)'
  BY <1>11, ForgetEvaluator DEF Rollback
<1> QED
  BY <1>1, <1>2, <1>3, <1>4, <1>5, <1>6, <1>7, <1>8, <1>9, <1>10, <1>11
     DEF Next, Work

\* Only the commit of t makes a row that t's step changes.
LEMMA CommitsCommit ==
  ASSUME IInv, [Next]_vars, NEW t \in Evaluators, Commits(t)
  PROVE  row' = Merged(t) /\ held[t] # {}
<1> t \in Txns
  BY DEF Txns
<1>1. Next
  BY DEF Commits, vars
<1>2. PICK u \in Txns : Commit(u)
  BY <1>1 DEF Next, Work, Commits, Change, LoadForRecheck, Measure, Find, Flush,
              EvaluationEnds, EvaluationFails, InsertFails, Fails, Conclude, Update,
              Rollback, Txns
<1>3. u = t
  BY <1>2 DEF Commit, Forget, Commits, IInv, TypeOK
<1>4. row' = Merged(t)
  BY <1>2, <1>3 DEF Commit
<1>5. held[t] # {}
  BY <1>4, MergedType DEF Commits, IInv
<1> QED
  BY <1>4, <1>5

\* A decision of a user that an evaluation has read stays, and so does what the
\* user makes of it before the evaluation commits.
THEOREM DecisionKept == Spec => SeenDecisionIsKept
<1> DEFINE Keeps ==
      \A t \in Evaluators :
         (Commits(t) /\ seen[t] \in Matching /\ first[t] \in Preserved \ Reopening)
           => row'.st = row.st
<1>1. ASSUME IInv, [Next]_vars
      PROVE  Keeps
  <2> SUFFICES ASSUME NEW t \in Evaluators, Commits(t),
                      seen[t] \in Matching, first[t] \in Preserved \ Reopening
               PROVE  row'.st = row.st
    OBVIOUS
  <2>1. row' = Merged(t)
    BY <1>1, CommitsCommit
  <2>2. "st" \notin held[t]
    BY <1>1 DEF IInv, DecisionInv, Commits
  <2> QED
    BY <1>1, <2>1, <2>2, MergedType DEF IInv, Txns
<1>2. IInv /\ [Next]_vars => [Keeps]_vars
  BY <1>1
<1> QED
  BY <1>2, EvaluatorInit, EvaluatorStep, PTL DEF Spec, SeenDecisionIsKept

\* However many evaluations miss the instance at the same time, one creates it:
\* none overwrites a row that another transaction has committed since.
THEOREM OneInstance == Spec => CreatedOnce
<1> DEFINE Once ==
      \A t \in Evaluators : (Commits(t) /\ first[t] = "absent") => row = Absent
<1>1. IInv /\ [Next]_vars => [Once]_vars
  BY CommitsCommit DEF IInv, InsertInv
<1> QED
  BY <1>1, EvaluatorInit, EvaluatorStep, PTL DEF Spec, CreatedOnce

-----------------------------------------------------------------------------
(***************************************************************************)
(* The strengthening for what a transaction takes from its own object: a   *)
(* user's holds all that it held when it was loaded, and so does a         *)
(* recheck's unless its evaluation has written the snapshot anew; an       *)
(* evaluation without a verdict has no column to write, and a recheck that *)
(* has seen the problem gone has an object that says so, which is not one  *)
(* it reopens.                                                             *)
(***************************************************************************)
Gone == {"clear", "safe", "unclear"}

OwnInv(t) ==
    /\ t \in Users =>
          /\ pc[t] \in {"idle", "write", "commit"}
          /\ pc[t] # "idle" => base[t] \subseteq mem[t].task
    /\ t \in Evaluators => pc[t] \notin {"measure", "conclude", "write"}
    /\ pc[t] = "find" => seen[t] \in Verdicts
    /\ pc[t] \in {"idle", "measure", "find"} => held[t] = {}
    /\ pc[t] \notin {"flush", "write"} => dirty[t] = {}
    /\ (t \in Evaluators /\ dirty[t] \cup held[t] # {}) =>
          seen[t] \in Verdicts \ {"inactive"}
    /\ (t \in Rechecks /\ (dirty[t] \cup held[t] = {} \/ seen[t] \notin Verdicts \ {"inactive"})) =>
          \/ mem[t] = Absent /\ dirty[t] \cup held[t] = {}
          \/ base[t] \subseteq mem[t].task
    /\ (t \in Rechecks /\ pc[t] \in {"measure", "find"}) => mem[t] # Absent
    /\ (t \in Rechecks /\ pc[t] \notin {"idle", "measure", "find"} /\ seen[t] \in Gone) =>
          mem[t].st \in Closed \cup {"candidate_resolved"}

ObjectInv == \A t \in Txns : OwnInv(t)

LEMMA ObjectInit == Init => ObjectInv
  BY DEF Init, ObjectInv, OwnInv

\* The end of a transaction leaves an invariant one.
LEMMA ForgetOwn ==
  ASSUME TypeOK, NEW t \in Txns, Forget(t)
  PROVE  OwnInv(t)'
  BY DEF TypeOK, Forget, OwnInv

LEMMA FailsOwn ==
  ASSUME TypeOK, NEW t \in Txns, OwnInv(t), Fails(t)
  PROVE  OwnInv(t)'
<1>1. /\ seen'[t] = "failed" /\ dirty'[t] = {} /\ held'[t] = {}
      /\ pc'[t] \in {"conclude", "commit"} /\ pc[t] \in {"find", "flush", "rest"}
      /\ t \notin Rechecks => pc'[t] = "commit"
      /\ base' = base /\ mem'[t] = IF dirty[t] \cup held[t] # {} THEN Absent ELSE mem[t]
  BY DEF TypeOK, Fails, Goto
<1>2. t \in Users => FALSE
  BY <1>1 DEF OwnInv
<1>3. t \in Evaluators => pc'[t] = "commit"
  BY <1>1, TxnsAssumption
<1>4. t \in Rechecks => mem'[t] = Absent \/ base'[t] \subseteq mem'[t].task
  BY <1>1 DEF OwnInv
<1> QED BY <1>1, <1>2, <1>3, <1>4 DEF OwnInv, Gone

LEMMA OwnStep ==
  ASSUME TypeOK, NEW t \in Txns, OwnInv(t), Work(t)
  PROVE  OwnInv(t)'
<1> USE DEF TypeOK
<1>1. CASE Measure(t)
  <2>1. /\ pc' = [pc EXCEPT ![t] = "find"] /\ seen'[t] = cond /\ cond \in Verdicts
        /\ t \notin Users /\ pc[t] \in {"idle", "measure"}
        /\ t \in Rechecks => pc[t] = "measure"
        /\ UNCHANGED <<first, mem, base, dirty, held>>
    BY <1>1, TxnsAssumption, RuleAssumption DEF Measure, Goto
  <2>2. pc'[t] = "find" /\ dirty[t] = {} /\ held[t] = {}
    BY <2>1 DEF OwnInv
  <2> QED BY <2>1, <2>2 DEF OwnInv
<1>2. CASE Find(t)
  <2>1. /\ pc[t] = "find" /\ seen[t] \in Verdicts /\ t \notin Users /\ held[t] = {}
        /\ seen' = seen /\ held' = held /\ base' = base /\ dirty[t] = {}
    BY <1>2 DEF Find, OwnInv
  <2>2. /\ mem'[t] = Evaluated(Found(t), seen[t])
        /\ dirty'[t] = EvaluatedColumns(Found(t), seen[t])
    BY <1>2 DEF Find
  <2>3. pc'[t] = IF dirty'[t] = {} THEN "rest" ELSE "flush"
    BY <1>2 DEF Find, Goto
  <2>4. dirty'[t] # {} => seen[t] # "inactive"
    BY <2>2 DEF EvaluatedColumns
  <2>5. ASSUME t \in Rechecks, seen[t] \in Gone
        PROVE  mem'[t].st \in Closed \cup {"candidate_resolved"}
    <3>1. Found(t) # Absent
      BY <2>1, <2>5 DEF Found, OwnInv
    <3> QED BY <2>2, <2>5, <3>1 DEF Evaluated, OnNoMatch, Matching, Gone, Closed
  <2>6. ASSUME t \in Rechecks, dirty'[t] = {}
        PROVE  base'[t] \subseteq mem'[t].task
    <3>1. mem[t] # Absent /\ base[t] \subseteq mem[t].task
      BY <2>1, <2>6 DEF OwnInv
    <3>2. Found(t) = mem[t]
      BY <2>6 DEF Found
    <3>3. seen[t] = "inactive" \/ (seen[t] \notin Matching /\ mem[t].st \in Closed)
      BY <2>2, <2>6, <3>1, <3>2 DEF EvaluatedColumns
    <3>4. Evaluated(mem[t], seen[t]) = mem[t]
      BY <3>3 DEF Evaluated, OnNoMatch, Matching
    <3> QED BY <2>1, <2>2, <3>1, <3>2, <3>4
  <2>7. pc'[t] \in {"rest", "flush"} /\ (pc'[t] = "rest" => dirty'[t] = {})
    BY <2>3
  <2> QED BY <2>1, <2>4, <2>5, <2>6, <2>7 DEF OwnInv
<1>3. CASE Flush(t)
  <2>1. /\ held'[t] = held[t] \cup dirty[t] /\ dirty'[t] = {}
        /\ pc[t] \in {"flush", "write"} /\ UNCHANGED <<mem, seen, base>>
        /\ pc'[t] = IF pc[t] = "flush" THEN "rest" ELSE "commit"
    BY <1>3 DEF Flush, Goto
  <2> QED BY <2>1 DEF OwnInv
<1>4. CASE EvaluationEnds(t)
  <2>1. /\ pc[t] = "rest" /\ pc'[t] \in {"conclude", "commit"}
        /\ t \in Evaluators => pc'[t] = "commit"
        /\ UNCHANGED <<mem, seen, base, dirty, held>>
    BY <1>4, TxnsAssumption DEF EvaluationEnds, Goto
  <2> QED BY <2>1 DEF OwnInv
<1>5. CASE InsertFails(t)
  BY <1>5, FailsOwn DEF InsertFails
<1>6. CASE Conclude(t)
  <2>1. /\ pc[t] = "conclude" /\ t \in Rechecks /\ t \notin Users /\ t \notin Evaluators
        /\ dirty[t] = {} /\ UNCHANGED <<seen, held>>
    BY <1>6 DEF Conclude, OwnInv, Txns
  <2>2. CASE Reopens(t)
    <3>1. ~(t \in Rechecks /\ seen[t] \in Gone)
      <4> SUFFICES ASSUME t \in Rechecks, seen[t] \in Gone PROVE FALSE
        OBVIOUS
      <4>1. mem[t].st \in Closed \cup {"candidate_resolved"}
        BY <2>1 DEF OwnInv
      <4>2. Refreshed(t) = mem[t]
        BY <4>1 DEF Refreshed, Absent, Closed
      <4> QED BY <2>2, <4>1, <4>2 DEF Reopens, Closed
    <3>2. mem'[t].st = "reopened" /\ dirty'[t] = Columns /\ pc'[t] = "write"
      BY <1>6, <2>2 DEF Conclude, Goto
    <3>3. ASSUME seen[t] \notin Verdicts \ {"inactive"}
          PROVE  base'[t] \subseteq mem'[t].task
      <4>1. mem'[t].task = Refreshed(t).task
        BY <1>6, <2>2 DEF Conclude
      <4>2. base'[t] = IF mem[t] = Absent THEN row.task ELSE base[t]
        BY <1>6, <2>2 DEF Conclude
      <4>3. mem[t] = Absent \/ base[t] \subseteq mem[t].task
        BY <2>1, <3>3 DEF OwnInv
      <4> QED BY <4>1, <4>2, <4>3 DEF Refreshed
    <3>4. dirty'[t] # {}
      BY <3>2 DEF Columns
    <3> QED BY <2>1, <3>1, <3>2, <3>3, <3>4 DEF OwnInv
  <2>3. CASE ~Reopens(t)
    <3>1. pc'[t] = "commit" /\ UNCHANGED <<mem, base, dirty>>
      BY <1>6, <2>3 DEF Conclude, Goto
    <3> QED BY <2>1, <3>1 DEF OwnInv
  <2> QED BY <2>2, <2>3
<1>7. CASE Commit(t)
  BY <1>7, ForgetOwn DEF Commit
<1> QED BY <1>1, <1>2, <1>3, <1>4, <1>5, <1>6, <1>7 DEF Work

LEMMA UpdateOwn ==
  ASSUME TypeOK, NEW t \in Users, NEW s \in Statuses, OwnInv(t), Update(t, s)
  PROVE  OwnInv(t)'
<1>1. t \in Txns /\ t \notin Rechecks /\ t \notin Evaluators
  BY TxnsAssumption DEF Txns
<1>2. /\ pc[t] = "idle" /\ pc'[t] = "write" /\ UNCHANGED <<seen, held>>
      /\ base'[t] = row.task /\ mem'[t].task = WithSaved(row.task, used'.requests)
  BY <1>1 DEF Update, Goto, TypeOK
<1>3. base'[t] \subseteq mem'[t].task
  BY <1>2 DEF WithSaved
<1> QED BY <1>1, <1>2, <1>3 DEF OwnInv

\* A step of one transaction leaves the others' variables alone.
LEMMA OthersKept ==
  ASSUME TypeOK, NEW t \in Txns, NEW u \in Txns \ {t},
         \/ Work(t) \/ LoadForRecheck(t) \/ EvaluationFails(t) \/ Rollback(t)
         \/ \E s \in Statuses : Update(t, s)
  PROVE  /\ pc'[u] = pc[u] /\ seen'[u] = seen[u] /\ mem'[u] = mem[u]
         /\ base'[u] = base[u] /\ dirty'[u] = dirty[u] /\ held'[u] = held[u]
<1> USE DEF TypeOK, Goto
<1>1. CASE Work(t)
  BY <1>1 DEF Work, Measure, Find, Flush, EvaluationEnds, InsertFails, Fails, Conclude,
     Commit, Forget
<1>2. CASE LoadForRecheck(t)
  BY <1>2 DEF LoadForRecheck
<1>3. CASE EvaluationFails(t) \/ Rollback(t)
  BY <1>3 DEF EvaluationFails, Fails, Rollback, Forget
<1>4. ASSUME NEW s \in Statuses, Update(t, s) PROVE pc'[u] = pc[u] /\ seen'[u] = seen[u]
             /\ mem'[u] = mem[u] /\ base'[u] = base[u]
             /\ dirty'[u] = dirty[u] /\ held'[u] = held[u]
  BY <1>4 DEF Update
<1> QED BY <1>1, <1>2, <1>3, <1>4

LEMMA ObjectStep == TypeOK /\ ObjectInv /\ [Next]_vars => ObjectInv'
<1> SUFFICES ASSUME TypeOK, ObjectInv, [Next]_vars, NEW t \in Txns PROVE OwnInv(t)'
  BY DEF ObjectInv
<1>1. OwnInv(t)
  BY DEF ObjectInv
<1>2. CASE Change \/ UNCHANGED vars
  BY <1>1, <1>2 DEF Change, vars, OwnInv
<1>3. ASSUME NEW u \in Txns, Work(u) \/ LoadForRecheck(u) \/ EvaluationFails(u) \/ Rollback(u)
      PROVE  OwnInv(t)'
  <2>1. CASE u # t
    <3>1. /\ pc'[t] = pc[t] /\ seen'[t] = seen[t] /\ mem'[t] = mem[t]
          /\ base'[t] = base[t] /\ dirty'[t] = dirty[t] /\ held'[t] = held[t]
      BY <1>3, <2>1, OthersKept
    <3> QED BY <1>1, <3>1 DEF OwnInv
  <2>2. CASE u = t /\ Work(t)
    BY <1>1, <2>2, OwnStep
  <2>3. CASE u = t /\ LoadForRecheck(t)
    <3>1. /\ t \notin Users /\ t \notin Evaluators /\ pc[t] = "idle" /\ pc'[t] = "measure"
          /\ mem'[t] = row /\ base'[t] = row.task /\ row # Absent /\ UNCHANGED <<seen, dirty, held>>
      BY <2>3, TxnsAssumption DEF LoadForRecheck, Goto, TypeOK
    <3> QED BY <1>1, <3>1 DEF OwnInv
  <2>4. CASE u = t /\ (EvaluationFails(t) \/ Rollback(t))
    BY <1>1, <2>4, FailsOwn, ForgetOwn DEF EvaluationFails, Rollback
  <2> QED BY <1>3, <2>1, <2>2, <2>3, <2>4
<1>4. ASSUME NEW u \in Users, NEW s \in Statuses, Update(u, s) PROVE OwnInv(t)'
  <2>1. CASE u # t
    <3>1. /\ pc'[t] = pc[t] /\ seen'[t] = seen[t] /\ mem'[t] = mem[t]
          /\ base'[t] = base[t] /\ dirty'[t] = dirty[t] /\ held'[t] = held[t]
      BY <1>4, <2>1, OthersKept DEF Txns
    <3> QED BY <1>1, <3>1 DEF OwnInv
  <2> QED BY <1>1, <1>4, <2>1, UpdateOwn
<1> QED BY <1>2, <1>3, <1>4 DEF Next

\* What a commit does to the row, whoever's it is.
LEMMA RowChanges ==
  ASSUME TypeOK, [Next]_vars, row' # row
  PROVE  \E t \in Txns : Commit(t)
<1>1. ASSUME NEW t \in Txns, Work(t), ~Commit(t) PROVE FALSE
  BY <1>1 DEF Work, Measure, Find, Flush, EvaluationEnds, InsertFails, Fails, Conclude
<1>2. ASSUME NEW t \in Txns, LoadForRecheck(t) \/ EvaluationFails(t) \/ Rollback(t) PROVE FALSE
  BY <1>2 DEF LoadForRecheck, EvaluationFails, Fails, Rollback
<1>3. ASSUME NEW t \in Users, NEW s \in Statuses, Update(t, s) PROVE FALSE
  BY <1>3 DEF Update
<1> QED BY <1>1, <1>2, <1>3 DEF Next, Change, vars

\* A recheck whose own evaluation has just seen the problem gone does not reopen it.
THEOREM GoneStaysClosed == Spec => ReopenedNotCleared
<1> DEFINE Kept == \A t \in Rechecks :
         (Commits(t) /\ row'.st = "reopened" /\ row.st # "reopened")
           => seen[t] \notin {"clear", "safe", "unclear"}
<1>1. Init => TypeOK /\ ObjectInv
  BY TypeInit, ObjectInit
<1>2. TypeOK /\ ObjectInv /\ [Next]_vars => TypeOK' /\ ObjectInv'
  BY TypeStep, ObjectStep
<1>3. ASSUME TypeOK, ObjectInv, [Next]_vars PROVE Kept
  <2> SUFFICES ASSUME NEW t \in Rechecks, Commits(t),
                      row'.st = "reopened", row.st # "reopened"
               PROVE  seen[t] \notin Gone
    BY DEF Gone
  <2>1. t \in Txns /\ pc[t] = "commit" /\ pc'[t] = "idle" /\ row' # row
    BY DEF Commits, Txns
  <2>2. PICK u \in Txns : Commit(u)
    BY <1>3, <2>1, RowChanges
  <2>3. u = t
    BY <1>3, <2>1, <2>2, OthersKept DEF Work
  <2>4. mem[t].st = "reopened"
    BY <2>2, <2>3 DEF Commit, Merged
  <2> QED BY <1>3, <2>1, <2>4 DEF ObjectInv, OwnInv, Closed
<1>4. TypeOK /\ ObjectInv /\ [Next]_vars => [Kept]_vars
  BY <1>3
<1> QED BY <1>1, <1>2, <1>4, PTL DEF Spec, ReopenedNotCleared

\* What a user has saved is lost only to an evaluation with a verdict, or to a user
\* or a recheck whose object was loaded before the save.
THEOREM ReadSaveKept == Spec => ReadSaveIsKept
<1> DEFINE Blamed ==
      \A n \in row.task \ row'.task :
         \E t \in Txns :
            /\ Commits(t)
            /\ \/ t \notin Users /\ seen[t] \in Verdicts \ {"inactive"}
               \/ t \notin Evaluators /\ n \notin base[t]
<1>1. Init => TypeOK /\ ObjectInv
  BY TypeInit, ObjectInit
<1>2. TypeOK /\ ObjectInv /\ [Next]_vars => TypeOK' /\ ObjectInv'
  BY TypeStep, ObjectStep
<1>3. ASSUME TypeOK, ObjectInv, [Next]_vars, NEW n \in row.task \ row'.task
      PROVE  \E t \in Txns :
                /\ Commits(t)
                /\ \/ t \notin Users /\ seen[t] \in Verdicts \ {"inactive"}
                   \/ t \notin Evaluators /\ n \notin base[t]
  <2>1. PICK t \in Txns : Commit(t)
    BY <1>3, RowChanges
  <2>2. pc[t] = "commit" /\ row' = Merged(t) /\ pc'[t] = "idle" /\ OwnInv(t)
    BY <1>3, <2>1 DEF Commit, Forget, TypeOK, ObjectInv
  <2>3. Commits(t)
    BY <1>3, <2>2 DEF Commits
  <2>4. "task" \in held[t] /\ n \notin mem[t].task
    BY <1>3, <2>2 DEF Merged
  <2>5. CASE t \in Users
    BY <2>2, <2>3, <2>4, <2>5, TxnsAssumption DEF OwnInv
  <2>6. CASE t \in Evaluators
    BY <2>2, <2>3, <2>4, <2>6, TxnsAssumption DEF OwnInv
  <2>7. CASE t \in Rechecks
    <3>1. seen[t] \in Verdicts \ {"inactive"} \/ base[t] \subseteq mem[t].task
      BY <2>2, <2>4, <2>7 DEF OwnInv
    <3> QED BY <2>3, <2>4, <2>7, <3>1, TxnsAssumption
  <2> QED BY <2>5, <2>6, <2>7 DEF Txns
<1>4. TypeOK /\ ObjectInv /\ [Next]_vars => [Blamed]_vars
  BY <1>3
<1> QED BY <1>1, <1>2, <1>4, PTL DEF Spec, ReadSaveIsKept
=============================================================================
