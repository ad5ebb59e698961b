----------------------------- MODULE CardBatch -----------------------------
(***************************************************************************)
(* The batch analysis of an account's product cards                        *)
(* (app/services/card_quality.py) and the job that carries it on           *)
(* (process_queued_card_quality_runs).                                     *)
(*                                                                         *)
(* A run goes through the cards in the order of their nm_id, one batch per *)
(* firing of the job, one transaction per batch; its cursor and counters   *)
(* are committed with the batch.  A card whose latest snapshot has the     *)
(* card's revision is skipped unless the run is forced.  An exception in   *)
(* the analysis of a card is swallowed: what the card has flushed by then  *)
(* stays in the transaction and the batch goes on.                         *)
(*                                                                         *)
(* The synchronisation of the cards adds cards, of any number, and changes *)
(* them meanwhile.  Nothing removes a card.                                *)
(***************************************************************************)
EXTENDS Naturals, FiniteSets

CONSTANTS
    Cards,          \* nm_ids; a revision of a card has the time of its change in
                    \* it and never comes back
    FirstCards,     \* those there are in the beginning
    Runs,           \* ids of the runs of type account_batch
    Callers,        \* API requests for an analysis
    NoRun,
    MaxPerPass,     \* the job's max_runs
    BatchLimit,     \* the job's batch_limit
    MaxChanges,     \* bound: changes of a card by the synchronisation
    MaxFailures,    \* bound: cards that fail
    MaxRollbacks    \* bound: batches rolled back, restarts included

ASSUME IdsAssumption ==
    /\ Cards \subseteq Nat \ {0} /\ IsFiniteSet(Cards)
    /\ FirstCards \subseteq Cards
    /\ Runs \subseteq Nat /\ NoRun \notin Runs
ASSUME BoundsAssumption ==
    /\ MaxPerPass \in Nat \ {0} /\ BatchLimit \in Nat \ {0}
    /\ MaxChanges \in Nat /\ MaxFailures \in Nat /\ MaxRollbacks \in Nat

VARIABLES
    cards,      \* the cards there are (committed by the synchronisation)
    rev,        \* revision of each card
    snap,       \* revision of its latest committed snapshot, 0 for none
    issues,     \* revision its committed issues were made from, 0 for none
    run,        \* the committed runs
    asof,       \* history: the cards a run's total stands for, and the revisions
                \* they had when it was asked for
    asking,     \* callers that have found no active run
    pc,         \* the job: idle, pass, batch
    todo,       \* runs of the pass it has not come to
    cur,        \* the run it works on
    mem,        \* that run, the snapshots and the issues as its transaction has them
    batch,      \* cards of the batch it has not come to
    force,      \* the batch's force, read from the cursor when it began
    empty,      \* the batch began with no card
    used        \* how much of each bound is used

account == <<cards, rev>>
results == <<snap, issues>>
requests == <<asof, asking>>
job == <<pc, todo, cur, mem, batch, force, empty>>
vars == <<account, results, run, requests, job, used>>

-----------------------------------------------------------------------------
Active == {"queued", "running"}
Finished == {"completed", "partial"}

\* History in the run: the cards it has handled (done), those whose failure was
\* counted as a success (lost) and those it has counted twice without a failure
\* (twice).
Run == [status : {"absent"} \cup Active \cup Finished,
        last : Nat, force : BOOLEAN, processed : Nat, failed : Nat, total : Nat,
        done : SUBSET Cards, lost : SUBSET Cards, twice : SUBSET Cards]

NoSuchRun == [status |-> "absent", last |-> 0, force |-> FALSE,
              processed |-> 0, failed |-> 0, total |-> 0,
              done |-> {}, lost |-> {}, twice |-> {}]

NewRun(f, n) == [NoSuchRun EXCEPT !.status = "queued", !.force = f, !.total = n]

NoWork == [run |-> NoSuchRun, snap |-> [c \in Cards |-> 0], issues |-> [c \in Cards |-> 0]]

Init ==
    /\ cards = FirstCards
    /\ rev = [c \in Cards |-> 1]
    /\ snap = [c \in Cards |-> 0] /\ issues = [c \in Cards |-> 0]
    /\ run = [r \in Runs |-> NoSuchRun]
    /\ asof = [r \in Runs |-> [c \in Cards |-> 0]]
    /\ asking = {}
    /\ pc = "idle" /\ todo = {} /\ cur = NoRun /\ mem = NoWork
    /\ batch = {} /\ force = FALSE /\ empty = FALSE
    /\ used = [changes |-> 0, failures |-> 0, rollbacks |-> 0]

-----------------------------------------------------------------------------
(* The synchronisation pages by the time of change: a card that is restored  *)
(* or comes late may have a lower number than those there are.             *)

NewCard(c) ==
    /\ c \notin cards
    /\ cards' = cards \cup {c}
    /\ UNCHANGED <<rev, results, run, requests, job, used>>

ChangeCard(c) ==
    /\ c \in cards /\ used.changes < MaxChanges
    /\ used' = [used EXCEPT !.changes = @ + 1]
    /\ rev' = [rev EXCEPT ![c] = @ + 1]
    /\ UNCHANGED <<cards, results, run, requests, job>>

-----------------------------------------------------------------------------
(* The API.                                                                *)

ActiveRuns == {r \in Runs : run[r].status \in Active}

NextRun(r) == run[r].status = "absent" /\ \A q \in Runs : q < r => run[q].status # "absent"

\* analyze_account: first the look for an active run ...
Ask(a) ==
    /\ a \notin asking /\ ActiveRuns = {}
    /\ asking' = asking \cup {a}
    /\ UNCHANGED <<account, results, run, asof, job, used>>

\* ... then the count of the cards and the insert.
CreateRun(a, r, f) ==
    /\ a \in asking /\ NextRun(r)
    /\ asking' = asking \ {a}
    /\ run' = [run EXCEPT ![r] = NewRun(f, Cardinality(cards))]
    /\ asof' = [asof EXCEPT ![r] = [c \in Cards |-> IF c \in cards THEN rev[c] ELSE 0]]
    /\ UNCHANGED <<account, results, job, used>>

\* retry_run: forced, with the total of the run it retries, which stands for the
\* cards there were when that one was asked for.
RetryRun(q, r) ==
    /\ run[q].status \in Finished /\ NextRun(r)
    /\ run' = [run EXCEPT ![r] = NewRun(TRUE, run[q].total)]
    /\ asof' = [asof EXCEPT ![r] = [c \in Cards |-> IF asof[q][c] # 0 THEN rev[c] ELSE 0]]
    /\ UNCHANGED <<account, results, asking, job, used>>

-----------------------------------------------------------------------------
(* The job.                                                                *)

Discover ==
    /\ pc = "idle" /\ ActiveRuns # {}
    /\ todo' = {r \in ActiveRuns : Cardinality({q \in ActiveRuns : q < r}) < MaxPerPass}
    /\ pc' = "pass"
    /\ UNCHANGED <<account, results, run, requests, cur, mem, batch, force, empty, used>>

PassEnds ==
    /\ pc = "pass" /\ todo = {}
    /\ pc' = "idle"
    /\ UNCHANGED <<account, results, run, requests, todo, cur, mem, batch, force, empty, used>>

SkipsOne(n) == {c \in cards : c > n + 1}                               \* mutant
Behind(n) == {c \in cards : c > n}

\* The first BatchLimit cards behind the cursor.
NextCards(n) == {c \in Behind(n) : Cardinality({d \in Behind(n) : d < c}) < BatchLimit}

StartBatch(r) ==
    /\ pc = "pass" /\ r \in todo /\ \A q \in todo : r <= q
    /\ todo' = todo \ {r} /\ cur' = r /\ pc' = "batch"
    /\ mem' = [run |-> [run[r] EXCEPT !.status = "running"], snap |-> snap, issues |-> issues]
    /\ force' = run[r].force
    /\ batch' = NextCards(run[r].last)
    /\ empty' = (NextCards(run[r].last) = {})
    /\ UNCHANGED <<account, results, run, requests, used>>

Unchanged(c) == mem.snap[c] = rev[c] /\ ~force

\* What is written of the run when card c is through: the cursor is replaced by the
\* card alone, so that the run is not forced any more.
Counted(u, c) == [u EXCEPT !.processed = @ + 1, !.last = c, !.force = FALSE,
                           !.done = @ \cup {c}]

\* The handler of process_run_batch, which writes the whole cursor.
CaughtInBatch(u, c) == [u EXCEPT !.processed = @ + 1, !.last = c, !.force = force,
                                 !.done = @ \cup {c}]

FailedCard(u, c) == CaughtInBatch([u EXCEPT !.failed = @ + 1], c)
LostCard(u, c) == CaughtInBatch([u EXCEPT !.lost = @ \cup {c}], c)
CountedTwice(u, c) == CaughtInBatch([Counted(u, c) EXCEPT !.twice = @ \cup {c}], c)

WithSnapshot(m, c) == [m EXCEPT !.snap[c] = rev[c]]
WithIssues(m, c) == [WithSnapshot(m, c) EXCEPT !.issues[c] = rev[c]]

Analysed(c) ==
    IF Unchanged(c) THEN [mem EXCEPT !.run = Counted(@, c)]
    ELSE [WithIssues(mem, c) EXCEPT !.run = Counted(@, c)]

\* A card fails before its analysis, while it is read (no failure is counted), in
\* the rules (nothing written), after the flush of its snapshot (issues not made),
\* after it has been counted, in the refresh of the registry, or, if it is skipped,
\* in the answer nobody reads (no failure is counted).
FailsAt(c, p) ==
    CASE p = "read"     -> [mem EXCEPT !.run = LostCard(@, c)]
      [] p = "rules"    -> [mem EXCEPT !.run = FailedCard(@, c)]
      [] p = "issues"   -> [WithSnapshot(mem, c) EXCEPT !.run = FailedCard(@, c)]
      [] p = "registry" -> [WithIssues(mem, c) EXCEPT !.run = FailedCard(Counted(@, c), c)]
      [] p = "answer"   -> [mem EXCEPT !.run = CountedTwice(@, c)]

PointsOf(c) ==
    {"read"} \cup (IF Unchanged(c) THEN {"answer"} ELSE {"rules", "issues", "registry"})

Upcoming(c) == pc = "batch" /\ c \in batch /\ \A d \in batch : c <= d

AnalyzeProduct(c) ==
    /\ Upcoming(c)
    /\ batch' = batch \ {c}
    /\ mem' = Analysed(c)
    /\ UNCHANGED <<account, results, run, requests, pc, todo, cur, force, empty, used>>

ProductFails(c) ==
    /\ Upcoming(c) /\ used.failures < MaxFailures
    /\ used' = [used EXCEPT !.failures = @ + 1]
    /\ batch' = batch \ {c}
    /\ \E p \in PointsOf(c) : mem' = FailsAt(c, p)
    /\ UNCHANGED <<account, results, run, requests, pc, todo, cur, force, empty>>

FailuresIgnored(u) ==                                                  \* mutant
    IF empty \/ u.processed >= u.total THEN [u EXCEPT !.status = "completed"] ELSE u
CountOnly(u) ==                                                        \* mutant
    IF u.processed > u.total
    THEN [u EXCEPT !.status = IF u.failed > 0 THEN "partial" ELSE "completed"]
    ELSE u
Closed(u) ==
    IF empty \/ u.processed >= u.total
    THEN [u EXCEPT !.status = IF u.failed > 0 THEN "partial" ELSE "completed"]
    ELSE u

CommitBatch ==
    /\ pc = "batch" /\ batch = {}
    /\ run' = [run EXCEPT ![cur] = Closed(mem.run)]
    /\ snap' = mem.snap /\ issues' = mem.issues
    /\ pc' = "pass" /\ cur' = NoRun /\ mem' = NoWork /\ force' = FALSE /\ empty' = FALSE
    /\ UNCHANGED <<account, requests, todo, batch, used>>

\* An exception outside the handlers above, and a restart of the process.
BatchFails(restart) ==
    /\ pc = "batch" /\ used.rollbacks < MaxRollbacks
    /\ used' = [used EXCEPT !.rollbacks = @ + 1]
    /\ IF restart THEN pc' = "idle" /\ todo' = {} ELSE pc' = "pass" /\ todo' = todo
    /\ cur' = NoRun /\ mem' = NoWork
    /\ batch' = {} /\ force' = FALSE /\ empty' = FALSE
    /\ UNCHANGED <<account, results, run, requests>>

-----------------------------------------------------------------------------
Pass ==
    \/ Discover \/ PassEnds \/ CommitBatch
    \/ \E r \in Runs : StartBatch(r)
    \/ \E c \in Cards : AnalyzeProduct(c)

Fault ==
    \/ \E c \in Cards : ProductFails(c)
    \/ \E restart \in BOOLEAN : BatchFails(restart)

Environment ==
    \/ \E c \in Cards : NewCard(c) \/ ChangeCard(c)
    \/ \E a \in Callers : Ask(a) \/ \E r \in Runs, f \in BOOLEAN : CreateRun(a, r, f)
    \/ \E q, r \in Runs : RetryRun(q, r)

Next == Pass \/ Fault \/ Environment

Spec == Init /\ [][Next]_vars

\* The job fires every five minutes and its batches come to an end.
FairSpec == Spec /\ WF_vars(Pass)

-----------------------------------------------------------------------------
(***************************************************************************)
(* Types; the job has a run exactly while it works on a batch.             *)
(***************************************************************************)
TypeOK ==
    /\ cards \subseteq Cards /\ rev \in [Cards -> Nat]
    /\ snap \in [Cards -> Nat] /\ issues \in [Cards -> Nat]
    /\ run \in [Runs -> Run] /\ asof \in [Runs -> [Cards -> Nat]]
    /\ asking \subseteq Callers
    /\ pc \in {"idle", "pass", "batch"}
    /\ todo \subseteq Runs /\ batch \subseteq Cards
    /\ cur \in Runs \cup {NoRun} /\ (pc = "batch" <=> cur # NoRun)
    /\ mem \in [run : Run, snap : [Cards -> Nat], issues : [Cards -> Nat]]
    /\ force \in BOOLEAN /\ empty \in BOOLEAN
    /\ used \in [changes : Nat, failures : Nat, rollbacks : Nat]

(***************************************************************************)
(* A run that is shown as completed has covered the account: the cards its *)
(* total stands for have issues made from a revision not older than the    *)
(* card had when the run was asked for.  Batches, skipped cards, changes,  *)
(* counted failures, other runs, rolled back batches and restarts cost it  *)
(* none of them.  A card without such issues is paid for, one by one, by a *)
(* card that came later and was counted in its place, by a failure that    *)
(* was counted as a success or by a card counted twice; or it is half      *)
(* made: an analysis, of this or an earlier run, failed between its        *)
(* snapshot and its issues, after which the card counts as unchanged.      *)
(***************************************************************************)
Outdated(r) == {c \in Cards : issues[c] < asof[r][c]}
HalfMade == {c \in Cards : snap[c] # issues[c]}
Newcomers(r) == {c \in run[r].done : asof[r][c] = 0}

CompletedIsCurrent ==
    \A r \in Runs : run[r].status = "completed" =>
        Cardinality(Outdated(r) \ HalfMade)
          <= Cardinality(Newcomers(r)) + Cardinality(run[r].lost) + Cardinality(run[r].twice)

(***************************************************************************)
(* No batch is lost and none is repeated: the cursor only moves forward,   *)
(* and never past a card of the account that the run has not handled in    *)
(* the batch that is committed with it.                                    *)
(***************************************************************************)
NothingPassedOver ==
    [][\A r \in Runs : run[r].status \in Active =>
         /\ run'[r].last >= run[r].last
         /\ run'[r].processed - run[r].processed
              >= Cardinality({c \in Cards : asof[r][c] # 0 /\ run[r].last < c /\ c <= run'[r].last})
       ]_vars

(***************************************************************************)
(* A run that is asked for comes to an end, whatever cards fail, as long   *)
(* as only finitely many batches are rolled back.                          *)
(***************************************************************************)
RunEnds == \A r \in Runs : (run[r].status \in Active) ~> (run[r].status \in Finished)

=============================================================================
