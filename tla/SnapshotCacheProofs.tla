------------------------- MODULE SnapshotCacheProofs -------------------------
(***************************************************************************)
(* Why a stale row is served, for any processes, keys and bounds.          *)
(*                                                                         *)
(* While nothing has failed and for a key that is not left behind: if its  *)
(* row is older than the data, an invalidation is still to look for rows   *)
(* or has marked this one (Pending); and an edit that waits for its commit *)
(* has marked every row that is served (Covered), so that its commit makes *)
(* none of them stale, unless another invalidation is pending for it.      *)
(***************************************************************************)
EXTENDS SnapshotCache, TLAPS

Served(k) == row[k].st = "ready"
Sound(k) == used.failures = 0 /\ k \notin behind

Pending(k) ==
    \E p \in Processes :
        change[p].pc = "invalidate" \/ (change[p].pc = "commit" /\ k \in change[p].marked)

Covered(k) ==
    \A p \in Processes :
        (change[p].edit /\ change[p].pc = "commit") => k \in change[p].marked

CauseInv ==
    \A k \in Keys : (Sound(k) /\ Served(k)) =>
        /\ row[k].ver < data => Pending(k)
        /\ Pending(k) \/ Covered(k)

\* What is under way has a key.
KeyInv ==
    /\ \A p \in Servers : reader[p].pc # "idle" => reader[p].key \in Keys
    /\ refresh.pc = "save" => refresh.key \in Keys

IInv == TypeOK /\ KeyInv /\ CauseInv

LEMMA InitHolds == Init => IInv
<1> SUFFICES ASSUME Init PROVE IInv
  OBVIOUS
<1>1. TypeOK
  BY BoundsAssumption DEF Init, TypeOK, NoSnapshot, Snapshot, NoRead, NoChange, NoRefresh
<1>2. KeyInv /\ CauseInv
  BY DEF Init, KeyInv, CauseInv, Served, NoSnapshot, NoRead, NoRefresh
<1> QED BY <1>1, <1>2 DEF IInv

-----------------------------------------------------------------------------
(* Rows that are saved.                                                    *)

LEMMA OnceType == \A n \in 0 .. MinAccess : Once(n) \in 0 .. MinAccess
BY BoundsAssumption DEF Once

LEMMA UpdatesType ==
    ASSUME NEW r \in Snapshot
    PROVE  /\ [r EXCEPT !.count = Once(r.count)] \in Snapshot
           /\ [r EXCEPT !.expired = TRUE] \in Snapshot
           /\ [r EXCEPT !.st = "invalidated", !.expired = TRUE] \in Snapshot
BY OnceType DEF Snapshot

\* A save that is not too late has the data there are, and no edit is about to commit.
LEMMA SavedKeeps ==
    ASSUME IInv, NEW k \in Keys, NEW v \in Nat, Saved(k, v), NoteLate(k, v),
           UNCHANGED <<data, change, used>>
    PROVE  row' \in [Keys -> Snapshot] /\ behind' \subseteq Keys /\ CauseInv'
<1>1. row[k].count \in 0 .. MinAccess
  BY DEF IInv, TypeOK, Snapshot
<1>2. [st |-> "ready", ver |-> v, expired |-> FALSE, count |-> Once(row[k].count)] \in Snapshot
  BY <1>1, OnceType DEF Snapshot
<1>3. row'[k].ver = v /\ row' \in [Keys -> Snapshot] /\ behind' \subseteq Keys
  BY <1>2 DEF IInv, TypeOK, Saved, NoteLate
<1>4. \A l \in Keys \ {k} : row'[l] = row[l] /\ (l \in behind' <=> l \in behind)
  BY DEF IInv, TypeOK, Saved, NoteLate
<1>5. k \notin behind' => ~Outdated(v)
  BY DEF NoteLate
<1>6. CauseInv'
  <2> SUFFICES ASSUME NEW l \in Keys, Sound(l)', Served(l)'
               PROVE  (row'[l].ver < data => Pending(l)) /\ (Pending(l) \/ Covered(l))
    BY DEF CauseInv, Pending, Covered
  <2>1. CASE l = k
    BY <1>3, <1>5, <2>1 DEF Outdated, Sound, Covered, IInv, TypeOK
  <2>2. CASE l # k
    BY <1>4, <2>2 DEF IInv, CauseInv, Sound, Served
  <2> QED BY <2>1, <2>2
<1> QED BY <1>3, <1>6

\* A row that only changes its count or expires, and data that stay.
LEMMA RowsKeepCause ==
    ASSUME IInv, UNCHANGED <<data, change, behind, used>>,
           \A k \in Keys : row'[k].st = row[k].st /\ row'[k].ver = row[k].ver
    PROVE  CauseInv'
BY DEF IInv, CauseInv, Sound, Served, Pending, Covered

-----------------------------------------------------------------------------
(* Reads, time and the nightly job.                                        *)

LEMMA LoadKeeps == ASSUME IInv, NEW p \in Servers, NEW k \in Keys, Load(p, k) PROVE IInv'
<1>1. PICK r \in {[pc |-> "touch", key |-> k, ver |-> row[k].ver],
                  [pc |-> "compute", key |-> k, ver |-> 0]} :
        reader' = [reader EXCEPT ![p] = r]
  BY DEF Load, Step
<1>2. TypeOK' /\ KeyInv'
  <2>1. row[k].ver \in Nat
    BY DEF IInv, TypeOK, Snapshot
  <2>2. r \in [pc : {"idle", "touch", "compute", "save", "remember"},
              key : Keys \cup {NoKey}, ver : Nat]
    BY <2>1
  <2>3. r.key \in Keys
    OBVIOUS
  <2>4. TypeOK'
    BY <1>1, <2>2 DEF IInv, TypeOK, Load
  <2>5. KeyInv'
    BY <1>1, <2>3 DEF IInv, TypeOK, KeyInv, Load
  <2> QED BY <2>4, <2>5
<1> QED BY <1>2, RowsKeepCause DEF IInv, Load

LEMMA TouchKeeps == ASSUME IInv, NEW p \in Servers, Touch(p) PROVE IInv'
<1> DEFINE k == reader[p].key
           r == [row[k] EXCEPT !.count = Once(row[k].count)]
<1>1. k \in Keys
  BY DEF IInv, TypeOK, KeyInv, Touch
<1>2. r \in Snapshot /\ r.st = row[k].st /\ r.ver = row[k].ver
  <2>1. row[k] \in Snapshot
    BY <1>1 DEF IInv, TypeOK
  <2>2. r \in Snapshot
    BY <2>1, UpdatesType
  <2> QED BY <2>1, <2>2 DEF Snapshot
<1>3. row' = [row EXCEPT ![k] = r]
  BY DEF Touch
<1>4. /\ row' \in [Keys -> Snapshot]
      /\ \A l \in Keys : row'[l].st = row[l].st /\ row'[l].ver = row[l].ver
  <2> HIDE DEF r, k
  <2> QED BY <1>1, <1>2, <1>3 DEF IInv, TypeOK
<1>5. TypeOK' /\ KeyInv'
  <2>1. memory' \in [Servers -> [Keys -> Nat]]
    BY DEF IInv, TypeOK, Touch, Forget
  <2>2. /\ reader' \in [Servers -> [pc : {"idle", "touch", "compute", "save", "remember"},
                                    key : Keys \cup {NoKey}, ver : Nat]]
        /\ \A q \in Servers : reader'[q].key = reader[q].key
        /\ \A q \in Servers : reader'[q].pc # "idle" => reader[q].pc # "idle"
    <3> DEFINE t == [reader[p] EXCEPT !.pc = "remember"]
               c == [reader[p] EXCEPT !.pc = "compute", !.ver = 0]
               Read == [pc : {"idle", "touch", "compute", "save", "remember"},
                        key : Keys \cup {NoKey}, ver : Nat]
    <3>1. reader[p] \in Read /\ reader[p].pc = "touch"
      BY DEF IInv, TypeOK, Touch
    <3>2. t \in Read /\ t.key = k
      BY <3>1
    <3>3. c \in Read /\ c.key = k
      BY <3>1
    <3>4. reader' = [reader EXCEPT ![p] = t] \/ reader' = [reader EXCEPT ![p] = c]
      BY DEF Touch, Step
    <3>5. reader \in [Servers -> Read]
      BY DEF IInv, TypeOK
    <3> HIDE DEF t, c, Read
    <3>6. reader' \in [Servers -> Read]
      BY <3>2, <3>3, <3>4, <3>5
    <3>7. \A q \in Servers :
            reader'[q].key = reader[q].key /\ (reader'[q].pc # "idle" => reader[q].pc # "idle")
      BY <3>1, <3>2, <3>3, <3>4, <3>5
    <3> QED BY <3>6, <3>7 DEF Read
  <2> HIDE DEF r, k
  <2> QED BY <1>4, <2>1, <2>2 DEF IInv, TypeOK, KeyInv, Touch
<1> QED BY <1>4, <1>5, RowsKeepCause DEF IInv, Touch

LEMMA ComputeKeeps == ASSUME IInv, NEW p \in Servers, Compute(p) PROVE IInv'
<1>1. TypeOK' /\ KeyInv'
  BY DEF IInv, TypeOK, KeyInv, Compute, Step
<1> QED BY <1>1, RowsKeepCause DEF IInv, Compute

LEMMA SaveKeeps == ASSUME IInv, NEW p \in Servers, Save(p) PROVE IInv'
<1>1. reader[p].key \in Keys /\ reader[p].ver \in Nat
  BY DEF IInv, TypeOK, KeyInv, Save
<1>2. row' \in [Keys -> Snapshot] /\ behind' \subseteq Keys /\ CauseInv'
  BY <1>1, SavedKeeps DEF Save
<1>3. TypeOK' /\ KeyInv'
  BY <1>2 DEF IInv, TypeOK, KeyInv, Save, Step
<1> QED BY <1>2, <1>3 DEF IInv

LEMMA RememberKeeps == ASSUME IInv, NEW p \in Servers, Remember(p) PROVE IInv'
<1>1. TypeOK' /\ KeyInv'
  BY DEF IInv, TypeOK, KeyInv, Remember, Step, NoRead
<1> QED BY <1>1, RowsKeepCause DEF IInv, Remember

LEMMA ExpiryKeeps ==
    ASSUME IInv, NEW k \in Keys,
           RowExpires(k) \/ DayPasses(k) \/ \E p \in Servers : MemoryExpires(p, k)
    PROVE  IInv'
<1>1. /\ row' \in [Keys -> Snapshot]
      /\ \A l \in Keys : row'[l].st = row[l].st /\ row'[l].ver = row[l].ver
  <2>1. row[k] \in Snapshot /\ row \in [Keys -> Snapshot]
    BY DEF IInv, TypeOK
  <2>2. row' = row \/ row' = [row EXCEPT ![k] = [row[k] EXCEPT !.expired = TRUE]]
    BY DEF RowExpires, DayPasses, MemoryExpires
  <2> DEFINE r == [row[k] EXCEPT !.expired = TRUE]
  <2>3. r \in Snapshot /\ r.st = row[k].st /\ r.ver = row[k].ver
    BY <2>1, UpdatesType DEF Snapshot
  <2>4. row' = row \/ row' = [row EXCEPT ![k] = r]
    BY <2>2
  <2> HIDE DEF r
  <2> QED BY <2>1, <2>3, <2>4
<1>2. TypeOK' /\ KeyInv'
  <2>1. memory' \in [Servers -> [Keys -> Nat]]
    BY DEF IInv, TypeOK, RowExpires, DayPasses, MemoryExpires
  <2> QED BY <1>1, <2>1 DEF IInv, TypeOK, KeyInv, RowExpires, DayPasses, MemoryExpires
<1> QED BY <1>1, <1>2, RowsKeepCause DEF IInv, RowExpires, DayPasses, MemoryExpires

LEMMA RefreshKeeps == ASSUME IInv, Refresh PROVE IInv'
<1>1. CASE StartRefresh \/ RefreshEnds \/ \E k \in Keys : RefreshComputes(k)
  <2>1. TypeOK' /\ KeyInv'
    <3>1. CASE StartRefresh
      <4>1. PICK S \in SUBSET Keys :
              refresh' = [pc |-> "pass", todo |-> Specs(S), key |-> NoKey, ver |-> 0]
        BY <3>1 DEF StartRefresh, NoRefresh, Taken, InUse
      <4>2. Specs(S) \subseteq Keys
        BY DEF IInv, TypeOK, Specs
      <4> QED BY <3>1, <4>1, <4>2 DEF IInv, TypeOK, KeyInv, StartRefresh
    <3>2. CASE RefreshEnds
      BY <3>2 DEF IInv, TypeOK, KeyInv, RefreshEnds, NoRefresh
    <3>3. ASSUME NEW k \in Keys, RefreshComputes(k) PROVE TypeOK' /\ KeyInv'
      BY <3>3 DEF IInv, TypeOK, KeyInv, RefreshComputes
    <3> QED BY <1>1, <3>1, <3>2, <3>3
  <2> QED BY <1>1, <2>1, RowsKeepCause DEF IInv, StartRefresh, RefreshEnds, RefreshComputes
<1>2. CASE RefreshSaves
  <2>1. row' \in [Keys -> Snapshot] /\ behind' \subseteq Keys /\ CauseInv'
    BY <1>2, SavedKeeps DEF RefreshSaves, IInv, TypeOK, KeyInv
  <2>2. TypeOK' /\ KeyInv'
    BY <1>2, <2>1 DEF IInv, TypeOK, KeyInv, RefreshSaves
  <2> QED BY <2>1, <2>2 DEF IInv
<1> QED BY <1>1, <1>2 DEF Refresh

-----------------------------------------------------------------------------
(* Changes.                                                                *)

LEMMA BeginKeeps ==
    ASSUME IInv, NEW p \in Processes, SyncCommits(p) \/ EditBegins(p)
    PROVE  IInv'
<1>1. /\ change'[p].pc = "invalidate"
      /\ \A q \in Processes \ {p} : change'[q] = change[q]
      /\ data \in Nat /\ data' \in Nat
      /\ UNCHANGED <<row, behind>> /\ used'.failures = used.failures
  BY DEF IInv, TypeOK, SyncCommits, EditBegins, Begins, Changes
<1>2. TypeOK' /\ KeyInv'
  <2>1. PICK e \in BOOLEAN :
          change' = [change EXCEPT ![p] = [pc |-> "invalidate", edit |-> e, marked |-> {}]]
    BY DEF SyncCommits, EditBegins, Begins
  <2>2. change' \in [Processes -> [pc : {"idle", "invalidate", "commit"}, edit : BOOLEAN,
                                   marked : SUBSET Keys]]
    BY <2>1 DEF IInv, TypeOK
  <2>3. change'[p].marked = {} /\ used' \in [changes : Nat, failures : Nat]
    BY <2>1 DEF IInv, TypeOK, SyncCommits, EditBegins, Begins, Changes
  <2>4. \A q, r \in Processes :
          /\ change'[q].marked # {} => change'[q].pc = "commit"
          /\ change'[q].marked \cap change'[r].marked # {} => q = r
    BY <1>1, <2>3 DEF IInv, TypeOK
  <2> QED BY <1>1, <2>2, <2>3, <2>4 DEF IInv, TypeOK, KeyInv, SyncCommits, EditBegins
<1>3. CauseInv'
  BY <1>1 DEF IInv, CauseInv, Sound, Served, Pending, Covered
<1> QED BY <1>2, <1>3 DEF IInv

\* The rows there are have been left behind, and nothing is said of them.
LEMMA QuietKeeps == ASSUME IInv, QuietCommit PROVE IInv'
<1>1. TypeOK' /\ KeyInv'
  BY DEF IInv, TypeOK, KeyInv, QuietCommit, Changes
<1>2. CauseInv'
  BY DEF CauseInv, Sound, Served, QuietCommit
<1> QED BY <1>1, <1>2 DEF IInv

LEMMA OthersKeep == ASSUME IInv, OthersRead PROVE IInv'
<1>1. TypeOK' /\ KeyInv'
  BY DEF IInv, TypeOK, KeyInv, OthersRead
<1> QED BY <1>1, RowsKeepCause DEF IInv, OthersRead

\* Every row that is served is marked, so that this invalidation is pending for it.
LEMMA InvalidateKeeps == ASSUME IInv, NEW p \in Processes, Invalidate(p) PROVE IInv'
<1>1. /\ change'[p].pc = "commit" /\ change'[p].marked = Marked
      /\ \A q \in Processes \ {p} : change'[q] = change[q]
      /\ behind' = {}
      /\ UNCHANGED <<row, data, used>>
  BY DEF IInv, TypeOK, Invalidate
<1>2. \A k \in Keys : Served(k) => k \in Marked
  BY DEF Served, Marked
<1>3. TypeOK' /\ KeyInv'
  <2>1. Marked \subseteq Keys
    BY DEF Marked
  <2>2. \A q \in Processes : change[q].marked = {}
    BY DEF Invalidate, RowFree, IInv, TypeOK
  <2>3. memory' \in [Servers -> [Keys -> Nat]]
    BY DEF IInv, TypeOK, Invalidate, Forget
  <2>4. change' \in [Processes -> [pc : {"idle", "invalidate", "commit"}, edit : BOOLEAN,
                                   marked : SUBSET Keys]]
    BY <2>1 DEF IInv, TypeOK, Invalidate
  <2>5. \A q, r \in Processes :
          /\ change'[q].marked # {} => change'[q].pc = "commit"
          /\ change'[q].marked \cap change'[r].marked # {} => q = r
    BY <1>1, <2>2
  <2> QED BY <1>1, <2>3, <2>4, <2>5 DEF IInv, TypeOK, KeyInv, Invalidate
<1>4. CauseInv'
  <2>1. \A k \in Keys : Served(k)' => Pending(k)'
    BY <1>1, <1>2 DEF Served, Pending
  <2> QED BY <2>1 DEF CauseInv
<1> QED BY <1>3, <1>4 DEF IInv

\* A row that is still served was not marked; so either the commit was no edit's, or an
\* invalidation is due for it which is another's.
LEMMA CommitInvalidationKeeps ==
    ASSUME IInv, NEW p \in Processes, CommitInvalidation(p)
    PROVE  IInv'
<1>1. /\ change[p].pc = "commit" /\ change'[p].pc = "idle" /\ ~change'[p].edit
      /\ \A q \in Processes \ {p} : change'[q] = change[q]
      /\ UNCHANGED <<behind, used>>
      /\ ~change[p].edit => data' = data
  BY DEF IInv, TypeOK, CommitInvalidation, NoChange
<1>2. \A k \in Keys : Served(k)' => k \notin change[p].marked /\ row'[k] = row[k]
  <2> SUFFICES ASSUME NEW k \in Keys, Served(k)'
               PROVE  k \notin change[p].marked /\ row'[k] = row[k]
    OBVIOUS
  <2>1. row[k] \in Snapshot
    BY DEF IInv, TypeOK
  <2>2. CASE k \in change[p].marked
    <3>1. row'[k] = [row[k] EXCEPT !.st = "invalidated", !.expired = TRUE]
      BY <2>2 DEF CommitInvalidation
    <3>2. row'[k].st = "invalidated"
      BY <2>1, <3>1 DEF Snapshot
    <3> QED BY <3>2 DEF Served
  <2>3. CASE k \notin change[p].marked
    BY <2>3 DEF CommitInvalidation
  <2> QED BY <2>2, <2>3
<1>3. TypeOK' /\ KeyInv'
  <2>1. row' \in [Keys -> Snapshot]
    <3>1. \A k \in Keys : [row[k] EXCEPT !.st = "invalidated", !.expired = TRUE] \in Snapshot
      BY UpdatesType DEF IInv, TypeOK
    <3>2. \A k \in Keys : row[k] \in Snapshot
      BY DEF IInv, TypeOK
    <3>3. row' = [k \in Keys |->
                    IF k \in change[p].marked
                    THEN [row[k] EXCEPT !.st = "invalidated", !.expired = TRUE] ELSE row[k]]
      BY DEF CommitInvalidation
    <3> DEFINE Gone(k) == [row[k] EXCEPT !.st = "invalidated", !.expired = TRUE]
    <3>4. row' = [k \in Keys |-> IF k \in change[p].marked THEN Gone(k) ELSE row[k]]
      BY <3>3
    <3>5. \A k \in Keys : Gone(k) \in Snapshot
      BY <3>1
    <3> HIDE DEF Gone
    <3> QED BY <3>2, <3>4, <3>5
  <2>2. data' \in Nat
    <3>1. data' = data \/ data' = data + 1
      BY DEF CommitInvalidation
    <3> QED BY <3>1 DEF IInv, TypeOK
  <2>3. change' \in [Processes -> [pc : {"idle", "invalidate", "commit"}, edit : BOOLEAN,
                                   marked : SUBSET Keys]]
    BY DEF IInv, TypeOK, CommitInvalidation, NoChange
  <2>4. change'[p].marked = {}
    BY DEF IInv, TypeOK, CommitInvalidation, NoChange
  <2>5. \A q, r \in Processes :
          /\ change'[q].marked # {} => change'[q].pc = "commit"
          /\ change'[q].marked \cap change'[r].marked # {} => q = r
    BY <1>1, <2>4 DEF IInv, TypeOK
  <2> QED BY <2>1, <2>2, <2>3, <2>5 DEF IInv, TypeOK, KeyInv, CommitInvalidation
<1>4. CauseInv'
  <2> SUFFICES ASSUME NEW k \in Keys, Sound(k), Served(k)'
               PROVE  (row'[k].ver < data' => Pending(k)') /\ (Pending(k)' \/ Covered(k)')
    BY <1>1 DEF CauseInv, Sound
  <2>1. Served(k) /\ k \notin change[p].marked /\ row'[k] = row[k]
    BY <1>2 DEF Served
  <2>2. (row[k].ver < data => Pending(k)) /\ (Pending(k) \/ Covered(k))
    BY <2>1 DEF IInv, CauseInv
  <2>3. data' = data \/ Pending(k)
    BY <1>1, <2>1, <2>2 DEF Covered
  <2>4. Pending(k) => Pending(k)'
    BY <1>1, <2>1 DEF Pending
  <2>5. Covered(k) => Covered(k)'
    BY <1>1 DEF Covered
  <2> QED BY <2>1, <2>2, <2>3, <2>4, <2>5
<1> QED BY <1>3, <1>4 DEF IInv

\* Afterwards nothing is said any more.
LEMMA FailureKeeps ==
    ASSUME IInv, RefreshFails \/ \E p \in Processes : ChangeFails(p) \/ Restart(p)
    PROVE  IInv'
<1>1. used' \in [changes : Nat, failures : Nat] /\ used'.failures # 0
  BY DEF IInv, TypeOK, RefreshFails, ChangeFails, Restart, Fails
<1>2. CauseInv'
  BY <1>1 DEF CauseInv, Sound
<1>3. TypeOK' /\ KeyInv'
  <2>1. CASE RefreshFails
    BY <1>1, <2>1 DEF IInv, TypeOK, KeyInv, RefreshFails, NoRefresh
  <2>2. ASSUME NEW p \in Processes, ChangeFails(p) PROVE TypeOK' /\ KeyInv'
    BY <1>1, <2>2 DEF IInv, TypeOK, KeyInv, ChangeFails, Ended, NoChange
  <2>3. ASSUME NEW p \in Processes, Restart(p) PROVE TypeOK' /\ KeyInv'
    BY <1>1, <2>3 DEF IInv, TypeOK, KeyInv, Restart, Ended, Forget, NoChange, NoRead
  <2> QED BY <2>1, <2>2, <2>3
<1> QED BY <1>2, <1>3 DEF IInv

-----------------------------------------------------------------------------
LEMMA StepHolds == IInv /\ [Next]_vars => IInv'
<1> SUFFICES ASSUME IInv, [Next]_vars PROVE IInv'
  OBVIOUS
<1>1. ASSUME NEW p \in Servers,
             \/ \E k \in Keys : Load(p, k) \/ MemoryExpires(p, k)
             \/ Reads(p) \/ EditBegins(p)
      PROVE  IInv'
  BY <1>1, LoadKeeps, TouchKeeps, ExpiryKeeps, ComputeKeeps, SaveKeeps, RememberKeeps, BeginKeeps
     DEF Reads, Processes
<1>2. ASSUME NEW p \in Processes, Writes(p) \/ SyncCommits(p) \/ ChangeFails(p) \/ Restart(p)
      PROVE  IInv'
  BY <1>2, InvalidateKeeps, CommitInvalidationKeeps, BeginKeeps, FailureKeeps DEF Writes
<1>3. CASE \E k \in Keys : RowExpires(k) \/ DayPasses(k)
  BY <1>3, ExpiryKeeps
<1>4. CASE QuietCommit \/ OthersRead \/ Refresh \/ RefreshFails
  BY <1>4, QuietKeeps, OthersKeep, RefreshKeeps, FailureKeeps
<1>5. CASE UNCHANGED vars
  BY <1>5 DEF vars, IInv, TypeOK, KeyInv, CauseInv, Sound, Served, Pending, Covered, RowFree
<1> QED BY <1>1, <1>2, <1>3, <1>4, <1>5 DEF Next

LEMMA Invariant == Spec => []IInv
BY InitHolds, StepHolds, PTL DEF Spec

\* A stale row is served only while an invalidation is under way, after a failure, or if
\* no invalidation has run since the row was left behind, by a save that came late or by
\* a change that invalidates nothing (invalidate_snapshots, _get_or_compute, and the
\* callers that commit a change with, before or without an invalidation).
THEOREM StaleExplained == Spec => []StaleHasCause
<1>1. IInv => StaleHasCause
  BY DEF IInv, TypeOK, CauseInv, Sound, Served, Pending, StaleHasCause
<1> QED BY <1>1, Invariant, PTL
=============================================================================
