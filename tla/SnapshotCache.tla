---------------------------- MODULE SnapshotCache ----------------------------
(***************************************************************************)
(* The snapshots of the money and the operator endpoints                   *)
(* (app/services/money_snapshots.py, operator_snapshots.py): a row of      *)
(* api_response_snapshots per key (endpoint, account, window, parameters), *)
(* and in each process a memory of responses that lives for 30 seconds.    *)
(*                                                                         *)
(* A read takes the memory, then the row, and only then computes; it does  *)
(* so in several steps, with awaits in between.  A change of the data may  *)
(* invalidate: with the change in one transaction (costs, guided fixes)    *)
(* or, after a queued synchronisation, in a transaction of its own, which  *)
(* is lost if the process dies in between.  The synchronisations of the    *)
(* scheduler and the refresh of the marts do not.  The invalidation clears *)
(* the memory of the process it runs in, and does so before it commits.    *)
(* Every night the rows of the default keys are computed again, and those  *)
(* of the keys in use, up to a number of them.                             *)
(*                                                                         *)
(* The data are their version; a snapshot is the version it was made from. *)
(***************************************************************************)
EXTENDS Naturals, FiniteSets

CONSTANTS
    Servers,        \* processes that serve the API
    Workers,        \* processes that only run the jobs
    Keys,           \* keys of snapshots
    NoKey,
    MinAccess,      \* refresh_min_access_count
    MaxSpecs,       \* refresh_max_specs_per_account
    MaxChanges,     \* bound: changes of the data
    MaxFailures     \* bound: lost invalidations, failed refreshes, restarts

ASSUME KeysAssumption == NoKey \notin Keys /\ Servers \cap Workers = {}
ASSUME BoundsAssumption ==
    {MinAccess, MaxSpecs, MaxChanges, MaxFailures} \subseteq Nat

VARIABLES
    defaults,   \* keys that are refreshed whether they are read or not
    data,       \* committed version of the data
    row,        \* the committed snapshot of each key
    memory,     \* version each server remembers of each key, 0 for none
    reader,     \* the read that is under way in each server
    change,     \* the change or invalidation under way in each process
    refresh,    \* the nightly job
    ahead,      \* other keys of the account in use with more accesses, MaxSpecs at most
    behind,     \* keys left behind by a late save or a change that does not invalidate
    used        \* how much of each bound is used

vars == <<defaults, data, row, memory, reader, change, refresh, ahead, behind, used>>

-----------------------------------------------------------------------------
Processes == Servers \cup Workers

Snapshot == [st : {"none", "ready", "invalidated"}, ver : Nat,
             expired : BOOLEAN, count : 0 .. MinAccess]
NoSnapshot == [st |-> "none", ver |-> 0, expired |-> FALSE, count |-> 0]

NoRead == [pc |-> "idle", key |-> NoKey, ver |-> 0]
NoChange == [pc |-> "idle", edit |-> FALSE, marked |-> {}]
NoRefresh == [pc |-> "idle", todo |-> {}, key |-> NoKey, ver |-> 0]

Init ==
    /\ defaults \in SUBSET Keys
    /\ data = 1
    /\ row = [k \in Keys |-> NoSnapshot]
    /\ memory = [p \in Servers |-> [k \in Keys |-> 0]]
    /\ reader = [p \in Servers |-> NoRead]
    /\ change = [p \in Processes |-> NoChange]
    /\ refresh = NoRefresh
    /\ ahead = 0
    /\ behind = {}
    /\ used = [changes |-> 0, failures |-> 0]

\* An invalidation that has not committed yet holds the rows it has marked.
RowFree(k) == \A p \in Processes : k \notin change[p].marked

Fails == used.failures < MaxFailures /\ used' = [used EXCEPT !.failures = @ + 1]

Once(n) == IF n < MinAccess THEN n + 1 ELSE n

\* _save_snapshot: the upsert and its commit, under an advisory lock.
Saved(k, v) ==
    row' = [row EXCEPT ![k] = [st |-> "ready", ver |-> v, expired |-> FALSE,
                               count |-> Once(@.count)]]

\* The data have been replaced since, or their change has marked its rows.
Outdated(v) == v < data \/ \E p \in Processes : change[p].edit /\ change[p].pc = "commit"
NoteLate(k, v) == behind' = IF Outdated(v) THEN behind \cup {k} ELSE behind \ {k}

\* The memory of process p is cleared.
Forget(p) ==
    memory' = [q \in Servers |-> IF q = p THEN [k \in Keys |-> 0] ELSE memory[q]]

-----------------------------------------------------------------------------
(* Reads: _get_or_compute.                                                 *)

Step(p, r) == reader' = [reader EXCEPT ![p] = r]

\* Not in memory: the row is loaded, whether it has expired or not.
Load(p, k) ==
    /\ reader[p] = NoRead /\ memory[p][k] = 0
    /\ Step(p, IF row[k].st = "ready"
               THEN [pc |-> "touch", key |-> k, ver |-> row[k].ver]
               ELSE [pc |-> "compute", key |-> k, ver |-> 0])
    /\ UNCHANGED <<defaults, data, row, memory, change, refresh, ahead, behind, used>>

\* The access is counted in a session of its own, which waits for the row.  Then the
\* page is returned, or does not pass its check: the memory is cleared, and the page
\* computed.
Touch(p) ==
    /\ reader[p].pc = "touch" /\ RowFree(reader[p].key)
    /\ row' = [row EXCEPT ![reader[p].key].count = Once(@)]
    /\ \/ Step(p, [reader[p] EXCEPT !.pc = "remember"]) /\ UNCHANGED memory
       \/ Step(p, [reader[p] EXCEPT !.pc = "compute", !.ver = 0]) /\ Forget(p)
    /\ UNCHANGED <<defaults, data, change, refresh, ahead, behind, used>>

Compute(p) ==
    /\ reader[p].pc = "compute"
    /\ Step(p, [reader[p] EXCEPT !.pc = "save", !.ver = data])
    /\ UNCHANGED <<defaults, data, row, memory, change, refresh, ahead, behind, used>>

Save(p) ==
    /\ reader[p].pc = "save" /\ RowFree(reader[p].key)
    /\ Saved(reader[p].key, reader[p].ver)
    /\ NoteLate(reader[p].key, reader[p].ver)
    /\ Step(p, [reader[p] EXCEPT !.pc = "remember"])
    /\ UNCHANGED <<defaults, data, memory, change, refresh, ahead, used>>

Remember(p) ==
    /\ reader[p].pc = "remember"
    /\ memory' = [memory EXCEPT ![p][reader[p].key] = reader[p].ver]
    /\ Step(p, NoRead)
    /\ UNCHANGED <<defaults, data, row, change, refresh, ahead, behind, used>>

-----------------------------------------------------------------------------
(* Time: the entries of the memory and the rows expire.                    *)

MemoryExpires(p, k) ==
    /\ memory[p][k] # 0
    /\ memory' = [memory EXCEPT ![p][k] = 0]
    /\ UNCHANGED <<defaults, data, row, reader, change, refresh, ahead, behind, used>>

RowExpires(k) ==
    /\ row[k].st = "ready" /\ ~row[k].expired
    /\ row' = [row EXCEPT ![k].expired = TRUE]
    /\ UNCHANGED <<defaults, data, memory, reader, change, refresh, ahead, behind, used>>

\* The default windows end today; a key of yesterday is one of the others.
DayPasses(k) ==
    /\ k \in defaults
    /\ defaults' = defaults \ {k}
    /\ UNCHANGED <<data, row, memory, reader, change, refresh, ahead, behind, used>>

-----------------------------------------------------------------------------
(* Changes and their invalidations.                                        *)

Changes == used.changes < MaxChanges /\ used' = [used EXCEPT !.changes = @ + 1]

Begins(p, e) ==
    /\ change[p] = NoChange /\ Changes
    /\ change' = [change EXCEPT ![p] = [pc |-> "invalidate", edit |-> e, marked |-> {}]]

\* A queued synchronisation commits its run; the invalidation is still to come.
SyncCommits(p) ==
    /\ Begins(p, FALSE)
    /\ data' = data + 1
    /\ UNCHANGED <<defaults, row, memory, reader, refresh, ahead, behind>>

\* A synchronisation of the scheduler or the refresh of the marts commits, and no
\* invalidation follows.
QuietCommit ==
    /\ Changes
    /\ data' = data + 1
    /\ behind' = behind \cup {k \in Keys : row[k].st = "ready"}
    /\ UNCHANGED <<defaults, row, memory, reader, change, refresh, ahead>>

\* A request that changes the data and invalidates before it commits both.
EditBegins(p) ==
    /\ Begins(p, TRUE)
    /\ UNCHANGED <<defaults, data, row, memory, reader, refresh, ahead, behind>>

ReadyOnly == {k \in Keys : row[k].st = "ready" /\ ~row[k].expired}     \* mutant
\* The UPDATE covers every row of the account.
Marked == {k \in Keys : row[k].st # "none"}

\* invalidate_snapshots: no row is left out, whatever has left it behind.
Invalidate(p) ==
    /\ change[p].pc = "invalidate" /\ \A k \in Keys : RowFree(k)
    /\ change' = [change EXCEPT ![p] = [pc |-> "commit", edit |-> @.edit, marked |-> Marked]]
    /\ Forget(p)
    /\ behind' = {}
    /\ UNCHANGED <<defaults, data, row, reader, refresh, ahead, used>>

CommitInvalidation(p) ==
    /\ change[p].pc = "commit"
    /\ row' = [k \in Keys |->
                 IF k \in change[p].marked
                 THEN [row[k] EXCEPT !.st = "invalidated", !.expired = TRUE] ELSE row[k]]
    /\ data' = IF change[p].edit THEN data + 1 ELSE data
    /\ change' = [change EXCEPT ![p] = NoChange]
    /\ UNCHANGED <<defaults, memory, reader, refresh, ahead, behind, used>>

Ended(p) == [change EXCEPT ![p] = NoChange]

\* The transaction is rolled back, and the edit with it; the data of a
\* synchronisation stay.
ChangeFails(p) ==
    /\ change[p] # NoChange /\ Fails
    /\ change' = Ended(p)
    /\ UNCHANGED <<defaults, data, row, memory, reader, refresh, ahead, behind>>

\* A restart loses the memory as well.
Restart(p) ==
    /\ Fails
    /\ change' = Ended(p)
    /\ Forget(p)
    /\ reader' = [q \in Servers |-> IF q = p THEN NoRead ELSE reader[q]]
    /\ UNCHANGED <<defaults, data, row, refresh, ahead, behind>>

-----------------------------------------------------------------------------
(* The nightly job: refresh_account_snapshots.                             *)

InUse == {k \in Keys : row[k].st = "ready" /\ row[k].expired /\ row[k].count >= MinAccess}

\* Other keys of the account are read or not, so that more or fewer of them go first.
OthersRead ==
    /\ ahead' \in 0 .. MaxSpecs /\ ahead' # ahead
    /\ UNCHANGED <<defaults, data, row, memory, reader, change, refresh, behind, used>>

Room == MaxSpecs - ahead
\* The keys in use that are taken: those with the most accesses, which are not told
\* apart here beyond MinAccess.
Taken ==
    {S \in SUBSET InUse : Cardinality(S) <= Room /\ (S = InUse \/ Cardinality(S) = Room)}

OnlyInUse(S) == S                                                      \* mutant
OnlyDefaults(S) == defaults                                            \* mutant
Specs(S) == defaults \cup S

StartRefresh ==
    /\ refresh = NoRefresh
    /\ \E S \in Taken : refresh' = [NoRefresh EXCEPT !.pc = "pass", !.todo = Specs(S)]
    /\ UNCHANGED <<defaults, data, row, memory, reader, change, ahead, behind, used>>

RefreshComputes(k) ==
    /\ refresh.pc = "pass" /\ k \in refresh.todo
    /\ refresh' = [pc |-> "save", todo |-> refresh.todo \ {k}, key |-> k, ver |-> data]
    /\ UNCHANGED <<defaults, data, row, memory, reader, change, ahead, behind, used>>

RefreshSaves ==
    /\ refresh.pc = "save" /\ RowFree(refresh.key)
    /\ Saved(refresh.key, refresh.ver)
    /\ NoteLate(refresh.key, refresh.ver)
    /\ refresh' = [refresh EXCEPT !.pc = "pass", !.key = NoKey, !.ver = 0]
    /\ UNCHANGED <<defaults, data, memory, reader, change, ahead, used>>

RefreshEnds ==
    /\ refresh.pc = "pass" /\ refresh.todo = {}
    /\ refresh' = NoRefresh
    /\ UNCHANGED <<defaults, data, row, memory, reader, change, ahead, behind, used>>

\* An exception or a restart ends the night's pass.
RefreshFails ==
    /\ refresh # NoRefresh /\ Fails
    /\ refresh' = NoRefresh
    /\ UNCHANGED <<defaults, data, row, memory, reader, change, ahead, behind>>

-----------------------------------------------------------------------------
Refresh ==
    StartRefresh \/ (\E k \in Keys : RefreshComputes(k)) \/ RefreshSaves \/ RefreshEnds

Reads(p) == Touch(p) \/ Compute(p) \/ Save(p) \/ Remember(p)
Writes(p) == Invalidate(p) \/ CommitInvalidation(p)

Next ==
    \/ \E p \in Servers :
         \/ \E k \in Keys : Load(p, k) \/ MemoryExpires(p, k)
         \/ Reads(p) \/ EditBegins(p)
    \/ \E p \in Processes :
         Writes(p) \/ SyncCommits(p) \/ ChangeFails(p) \/ Restart(p)
    \/ \E k \in Keys : RowExpires(k) \/ DayPasses(k)
    \/ QuietCommit \/ OthersRead \/ Refresh \/ RefreshFails

Spec == Init /\ [][Next]_vars

\* Time passes, the job runs every night, and what has started goes on.  Nothing is
\* assumed of users.
FairSpec ==
    /\ Spec
    /\ WF_vars(Refresh)
    /\ \A p \in Processes : WF_vars(Writes(p))
    /\ \A p \in Servers : WF_vars(Reads(p))
    /\ \A p \in Servers, k \in Keys : WF_vars(MemoryExpires(p, k))
    /\ \A k \in Keys : WF_vars(RowExpires(k))

-----------------------------------------------------------------------------
(***************************************************************************)
(* Types; a row is locked only by an invalidation that is still to commit, *)
(* and by one at a time.                                                   *)
(***************************************************************************)
TypeOK ==
    /\ defaults \subseteq Keys /\ data \in Nat
    /\ row \in [Keys -> Snapshot]
    /\ memory \in [Servers -> [Keys -> Nat]]
    /\ reader \in [Servers -> [pc : {"idle", "touch", "compute", "save", "remember"},
                                 key : Keys \cup {NoKey}, ver : Nat]]
    /\ change \in [Processes -> [pc : {"idle", "invalidate", "commit"}, edit : BOOLEAN,
                                 marked : SUBSET Keys]]
    /\ refresh \in [pc : {"idle", "pass", "save"}, todo : SUBSET Keys,
                    key : Keys \cup {NoKey}, ver : Nat]
    /\ ahead \in 0 .. MaxSpecs
    /\ behind \subseteq Keys
    /\ used \in [changes : Nat, failures : Nat]
    /\ \A p \in Processes : change[p].marked # {} => change[p].pc = "commit"
    /\ \A p, q \in Processes : change[p].marked \cap change[q].marked # {} => p = q

(***************************************************************************)
(* A row that is served although the data have moved on has a cause: an    *)
(* invalidation is still to come, one was lost, or no invalidation has     *)
(* looked at the rows since this one was left behind, by data that changed *)
(* without one or by a save that came too late, from data that had been    *)
(* replaced or were about to be.                                           *)
(***************************************************************************)
StaleHasCause ==
    \A k \in Keys : (row[k].st = "ready" /\ row[k].ver < data) =>
        \/ \E p \in Processes : change[p].pc # "idle"
        \/ used.failures > 0
        \/ k \in behind

Fresh(k) ==
    /\ row[k].st = "ready" => row[k].ver = data
    /\ \A p \in Servers : memory[p][k] \in {0, data}

(***************************************************************************)
(* Once the data rest, the snapshot of a key that stays a default one is   *)
(* that of the data in the end, in the row and in the memory of every      *)
(* process, in spite of changes that do not invalidate, lost               *)
(* invalidations, saves that come too late and memories that no            *)
(* invalidation reaches.                                                   *)
(***************************************************************************)
DefaultsAreFresh == \A k \in Keys : [](k \in defaults) => <>[]Fresh(k)

\* As many keys in use as there are can be taken.
RoomForAll == Cardinality(InUse) <= Room

(***************************************************************************)
(* So are those of any other key, if it is read again and again and from   *)
(* some time on the number of keys the nightly job takes leaves none out.  *)
(* (Otherwise an expired row can be served for ever.)                      *)
(***************************************************************************)
ReadIsFresh ==
    \A k \in Keys :
        ([]<>(\E p \in Servers : reader[p].key = k) /\ <>[]RoomForAll) => <>[]Fresh(k)
=============================================================================
