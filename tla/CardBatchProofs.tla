--------------------------- MODULE CardBatchProofs ---------------------------
(***************************************************************************)
(* Theorems about the batch analysis, for any cards, runs, requests and    *)
(* bounds.                                                                 *)
(*                                                                         *)
(* The cards a run was asked for stay (RunsInv), and a batch is what        *)
(* follows the cursor: no asked card is left out between (JobInv).  So the *)
(* run has handled all of them up to its cursor (Covers).  As long as no   *)
(* failure has been counted it has counted each card it handled once, or   *)
(* twice if it is noted so, and those it handled are current, lost or half *)
(* made (Made).  A completed run has counted as many as it was asked for:  *)
(* each of these that it did not handle is made up for by a newcomer or a  *)
(* card counted twice.                                                     *)
(***************************************************************************)
EXTENDS CardBatch, Integers, FiniteSetTheorems, WellFoundedInduction, TLAPS

Asked(r) == {c \in Cards : asof[r][c] # 0}
Passed(r, m, n) == {c \in Asked(r) : m < c /\ c <= n}
Known(r) == run[r].status # "absent"

\* What run r is, u, has handled the cards asked for up to the cursor.
Covers(u, r) ==
    /\ \A c \in u.done : c <= u.last
    /\ \A c \in Asked(r) : c <= u.last => c \in u.done
    /\ u.twice \subseteq u.done

\* What it has counted, and what it has made of the cards it handled.
Made(u, r, sn, is) ==
    u.failed = 0 =>
        /\ u.processed <= Cardinality(u.done) + Cardinality(u.twice)
        /\ \A c \in u.done : is[c] >= asof[r][c] \/ c \in u.lost \/ sn[c] # is[c]

RunsInv ==
    \A r \in Runs : Known(r) =>
        /\ Asked(r) \subseteq cards
        /\ run[r].total = Cardinality(Asked(r))
        /\ \A c \in Cards : asof[r][c] <= rev[c]
        /\ Covers(run[r], r)
        /\ run[r].status = "completed" =>
             /\ run[r].failed = 0
             /\ \/ run[r].processed >= run[r].total
                \/ \A c \in Asked(r) : c <= run[r].last

JobInv ==
    /\ \A r \in todo : Known(r)
    /\ pc = "batch" =>
         /\ cur \in Runs /\ Known(cur)
         /\ mem.run.status = "running" /\ mem.run.total = run[cur].total
         /\ Covers(mem.run, cur) /\ run[cur].last <= mem.run.last
         /\ \A b \in batch : mem.run.last < b
         /\ \A c \in Asked(cur) : mem.run.last < c => (c \in batch \/ \A b \in batch : b < c)
         /\ empty => batch = {} /\ \A c \in Asked(cur) : c <= mem.run.last
         /\ mem.run.processed
              >= run[cur].processed + Cardinality(Passed(cur, run[cur].last, mem.run.last))

ResultsInv ==
    /\ \A r \in Runs : Known(r) => Made(run[r], r, snap, issues)
    /\ pc = "batch" =>
         /\ Made(mem.run, cur, mem.snap, mem.issues)
         /\ \A r \in Runs : Known(r) => Made(run[r], r, mem.snap, mem.issues)

IInv == TypeOK /\ cards \subseteq Cards /\ (\A c \in Cards : rev[c] >= 1)
        /\ RunsInv /\ JobInv /\ ResultsInv

-----------------------------------------------------------------------------
(* Sets of cards.                                                          *)

LEMMA Least == ASSUME NEW S, S \subseteq Nat, S # {} PROVE \E x \in S : \A y \in S : x <= y
<1> DEFINE R == OpToRel(<, Nat)
<1>1. IsWellFoundedOn(R, Nat)
  BY NatLessThanWellFounded
<1>2. \A x, y \in Nat : x < y => <<x, y>> \in R
  BY DEF OpToRel
<1> HIDE DEF R
<1>3. PICK x \in S : \A y \in S : ~(<<y, x>> \in R)
  BY <1>1, WFMin
<1>4. ASSUME NEW y \in S PROVE x <= y
  <2>1. x \in Nat /\ y \in Nat
    OBVIOUS
  <2>2. ~(y < x)
    BY <1>2, <1>3, <2>1
  <2> QED BY <2>1, <2>2
<1> QED BY <1>4

LEMMA CardsAreFinite ==
    ASSUME NEW S, S \subseteq Cards
    PROVE  S \subseteq Nat \ {0} /\ IsFiniteSet(S) /\ Cardinality(S) \in Nat
BY IdsAssumption, FS_Subset, FS_CardinalityType

\* One card more.
LEMMA OneMore ==
    ASSUME NEW S, S \subseteq Cards, NEW c \in Cards, c \notin S
    PROVE  Cardinality(S \cup {c}) = Cardinality(S) + 1
BY CardsAreFinite, FS_AddElement

\* If n has passed no asked card but c since the last one, it has passed one more.
LEMMA OnePassed ==
    ASSUME NEW r, NEW m \in Nat, NEW n \in Nat, NEW c \in Cards, n < c, m <= n,
           \A d \in Asked(r) : (n < d /\ d <= c) => d = c
    PROVE  /\ Cardinality(Passed(r, m, c)) <= Cardinality(Passed(r, m, n)) + 1
           /\ Cardinality(Passed(r, m, c)) \in Nat /\ Cardinality(Passed(r, m, n)) \in Nat
<1>1. Cards \subseteq Nat /\ Asked(r) \subseteq Cards
  BY IdsAssumption DEF Asked
<1>2. Passed(r, m, c) \subseteq Passed(r, m, n) \cup {c}
  <2> SUFFICES ASSUME NEW d \in Passed(r, m, c), d # c PROVE d \in Passed(r, m, n)
    OBVIOUS
  <2>1. d \in Asked(r) /\ d \in Nat /\ m < d /\ d <= c /\ ~(n < d)
    BY <1>1 DEF Passed
  <2>2. d <= n
    BY <2>1
  <2> QED BY <2>1, <2>2 DEF Passed
<1>3. c \notin Passed(r, m, n)
  <2>1. c \in Nat /\ ~(c <= n)
    BY <1>1
  <2> QED BY <2>1 DEF Passed
<1>4. Passed(r, m, n) \subseteq Cards /\ Passed(r, m, c) \subseteq Cards
  BY <1>1 DEF Passed
<1>5. Cardinality(Passed(r, m, n) \cup {c}) = Cardinality(Passed(r, m, n)) + 1
  BY <1>3, <1>4, OneMore
<1>6. /\ IsFiniteSet(Passed(r, m, n) \cup {c})
      /\ Cardinality(Passed(r, m, n)) \in Nat /\ Cardinality(Passed(r, m, c)) \in Nat
  <2>1. Passed(r, m, n) \cup {c} \subseteq Cards
    BY <1>4
  <2> QED BY <1>4, <2>1, CardsAreFinite
<1>7. Cardinality(Passed(r, m, c)) <= Cardinality(Passed(r, m, n) \cup {c})
  BY <1>2, <1>6, FS_Subset
<1> QED BY <1>5, <1>6, <1>7

\* The first cards behind n: no card is left out between them.
LEMMA NextCardsFollow ==
    ASSUME cards \subseteq Cards, NEW n \in Nat
    PROVE  /\ NextCards(n) \subseteq Behind(n)
           /\ \A c \in Behind(n) : c \in NextCards(n) \/ \A b \in NextCards(n) : b < c
           /\ NextCards(n) = {} => Behind(n) = {}
<1> DEFINE Below(c) == {d \in Behind(n) : d < c}
<1>1. /\ Behind(n) \subseteq Cards /\ Behind(n) \subseteq Nat
      /\ \A c : Below(c) \subseteq Behind(n)
      /\ \A c : IsFiniteSet(Below(c)) /\ Cardinality(Below(c)) \in Nat
  BY CardsAreFinite DEF Behind
<1>2. NextCards(n) = {c \in Behind(n) : Cardinality(Below(c)) < BatchLimit}
  BY DEF NextCards
<1>3. BatchLimit \in Nat \ {0}
  BY BoundsAssumption
<1>4. ASSUME NEW c \in Behind(n), c \notin NextCards(n), NEW b \in NextCards(n), ~(b < c)
      PROVE  FALSE
  <2>0. b \in Behind(n) /\ b \in Nat /\ c \in Nat /\ c <= b
    BY <1>1, <1>2, <1>4
  <2>1. Below(c) \subseteq Below(b)
    <3>1. \A d \in Behind(n) : d < c => d < b
      BY <1>1, <2>0
    <3> QED BY <3>1
  <2>2. Cardinality(Below(c)) <= Cardinality(Below(b))
    BY <1>1, <2>1, FS_Subset
  <2>3. ~(Cardinality(Below(c)) < BatchLimit) /\ Cardinality(Below(b)) < BatchLimit
    BY <1>2, <1>4
  <2> HIDE DEF Below
  <2> QED BY <1>1, <1>3, <2>2, <2>3
<1>5. ASSUME Behind(n) # {} PROVE NextCards(n) # {}
  <2>1. PICK c \in Behind(n) : \A d \in Behind(n) : c <= d
    BY <1>1, <1>5, Least
  <2>2. Below(c) = {}
    BY <1>1, <2>1
  <2>3. Cardinality(Below(c)) = 0
    BY <2>2, FS_EmptySet
  <2> QED BY <1>2, <1>3, <2>3
<1> QED BY <1>2, <1>4, <1>5
-----------------------------------------------------------------------------
(* Runs.                                                                   *)

LEMMA NewRunType ==
    ASSUME NEW f \in BOOLEAN, NEW n \in Nat
    PROVE  /\ NewRun(f, n) \in Run /\ NewRun(f, n).status = "queued"
           /\ NewRun(f, n).last = 0 /\ NewRun(f, n).total = n
           /\ NewRun(f, n).processed = 0 /\ NewRun(f, n).failed = 0
           /\ NewRun(f, n).done = {} /\ NewRun(f, n).twice = {}
BY DEF NewRun, NoSuchRun, Run, Active, Finished

LEMMA NoSuchRunType == NoSuchRun \in Run /\ NoSuchRun.status = "absent"
BY DEF NoSuchRun, Run

Alike(u, v) ==
    /\ v \in Run /\ v.last = u.last /\ v.total = u.total /\ v.processed = u.processed
    /\ v.failed = u.failed /\ v.done = u.done /\ v.lost = u.lost /\ v.twice = u.twice

\* Covers and Made do not depend on the status.
LEMMA AlikeRuns ==
    ASSUME NEW u, NEW v, Alike(u, v), NEW r, NEW sn, NEW is
    PROVE  (Covers(u, r) => Covers(v, r)) /\ (Made(u, r, sn, is) => Made(v, r, sn, is))
BY DEF Alike, Covers, Made

LEMMA StartedType ==
    ASSUME NEW u \in Run
    PROVE  LET v == [u EXCEPT !.status = "running"]
           IN  Alike(u, v) /\ v.status = "running"
BY DEF Run, Active, Alike

LEMMA ClosedType ==
    ASSUME NEW u \in Run
    PROVE  /\ Alike(u, Closed(u))
           /\ u.status = "running" => Closed(u).status # "absent"
           /\ (u.status = "running" /\ Closed(u).status = "completed")
                => u.failed = 0 /\ (empty \/ u.processed >= u.total)
<1>1. ASSUME NEW st \in Finished
      PROVE  LET v == [u EXCEPT !.status = st] IN  Alike(u, v) /\ v.status = st
  BY <1>1 DEF Run, Alike
<1>2. u.failed \in Nat /\ Alike(u, u)
  BY DEF Run, Alike
<1> QED BY <1>1, <1>2 DEF Closed, Finished

\* v is u with card c counted n times, f failures more, and the sets of history.
Through(u, v, c, n, f, lost, twice) ==
    /\ v \in Run /\ v.status = u.status /\ v.total = u.total /\ v.last = c
    /\ v.processed = u.processed + n /\ v.failed = u.failed + f
    /\ v.done = u.done \cup {c} /\ v.lost = lost /\ v.twice = twice

LEMMA CountedType ==
    ASSUME NEW u \in Run, NEW c \in Cards, force \in BOOLEAN
    PROVE  /\ Through(u, Counted(u, c), c, 1, 0, u.lost, u.twice)
           /\ Through(u, CaughtInBatch(u, c), c, 1, 0, u.lost, u.twice)
           /\ Through(u, FailedCard(u, c), c, 1, 1, u.lost, u.twice)
           /\ Through(u, LostCard(u, c), c, 1, 0, u.lost \cup {c}, u.twice)
           /\ Through(u, CountedTwice(u, c), c, 2, 0, u.lost, u.twice \cup {c})
<1>1. c \in Nat
  BY IdsAssumption
<1>2. Through(u, Counted(u, c), c, 1, 0, u.lost, u.twice)
  <2>1. Counted(u, c) = [u EXCEPT !.processed = u.processed + 1, !.last = c, !.force = FALSE,
                                  !.done = u.done \cup {c}]
    BY DEF Counted
  <2>2. u.processed + 1 \in Nat /\ u.done \cup {c} \in SUBSET Cards /\ u.failed \in Nat
    BY DEF Run
  <2>3. Counted(u, c) \in Run
    BY <1>1, <2>1, <2>2 DEF Run
  <2> QED BY <2>1, <2>2, <2>3 DEF Run, Through
<1>3. ASSUME NEW w \in Run
      PROVE  Through(w, CaughtInBatch(w, c), c, 1, 0, w.lost, w.twice)
  <2>1. CaughtInBatch(w, c) = [w EXCEPT !.processed = w.processed + 1, !.last = c,
                                        !.force = force, !.done = w.done \cup {c}]
    BY DEF CaughtInBatch
  <2>2. w.processed + 1 \in Nat /\ w.done \cup {c} \in SUBSET Cards /\ w.failed \in Nat
    BY DEF Run
  <2>3. CaughtInBatch(w, c) \in Run
    BY <1>1, <2>1, <2>2 DEF Run
  <2> QED BY <2>1, <2>2, <2>3 DEF Run, Through
<1>4. Through(u, FailedCard(u, c), c, 1, 1, u.lost, u.twice)
  <2> DEFINE w == [u EXCEPT !.failed = @ + 1]
  <2>1. /\ w \in Run /\ w.status = u.status /\ w.total = u.total /\ w.processed = u.processed
        /\ w.failed = u.failed + 1 /\ w.done = u.done /\ w.lost = u.lost /\ w.twice = u.twice
        /\ u.failed + 1 \in Nat
    BY DEF Run
  <2>2. FailedCard(u, c) = CaughtInBatch(w, c)
    BY DEF FailedCard
  <2> HIDE DEF w
  <2> QED BY <1>3, <2>1, <2>2 DEF Through
<1>5. Through(u, LostCard(u, c), c, 1, 0, u.lost \cup {c}, u.twice)
  <2> DEFINE w == [u EXCEPT !.lost = @ \cup {c}]
  <2>1. /\ w \in Run /\ w.status = u.status /\ w.total = u.total /\ w.processed = u.processed
        /\ w.failed = u.failed /\ w.done = u.done /\ w.lost = u.lost \cup {c}
        /\ w.twice = u.twice
    BY DEF Run
  <2>2. LostCard(u, c) = CaughtInBatch(w, c)
    BY DEF LostCard
  <2> HIDE DEF w
  <2> QED BY <1>3, <2>1, <2>2 DEF Through
<1>6. Through(u, CountedTwice(u, c), c, 2, 0, u.lost, u.twice \cup {c})
  <2> DEFINE v == Counted(u, c)
             w == [v EXCEPT !.twice = @ \cup {c}]
  <2>1. Through(u, v, c, 1, 0, u.lost, u.twice)
    BY <1>2
  <2>2. CountedTwice(u, c) = CaughtInBatch(w, c)
    BY DEF CountedTwice
  <2> HIDE DEF v
  <2>3. v \in Run
    BY <2>1 DEF Through
  <2>4. /\ w \in Run /\ w.status = v.status /\ w.total = v.total /\ w.processed = v.processed
        /\ w.failed = v.failed /\ w.done = v.done /\ w.lost = v.lost
        /\ w.twice = v.twice \cup {c}
    BY <2>3 DEF Run
  <2> HIDE DEF w
  <2>5. Through(w, CaughtInBatch(w, c), c, 1, 0, w.lost, w.twice)
    BY <1>3, <2>4
  <2>6. u.processed \in Nat /\ u.failed \in Nat
    BY DEF Run
  <2> QED BY <2>1, <2>2, <2>4, <2>5, <2>6 DEF Through
<1> QED BY <1>2, <1>3, <1>4, <1>5, <1>6

-----------------------------------------------------------------------------
(* The first state, the synchronisation and the requests.                  *)

LEMMA InitHolds == Init => IInv
<1> SUFFICES ASSUME Init PROVE IInv
  OBVIOUS
<1>1. TypeOK
  BY IdsAssumption, BoundsAssumption, NoSuchRunType DEF Init, TypeOK, NoWork
<1>2. RunsInv /\ JobInv /\ ResultsInv
  BY NoSuchRunType DEF Init, RunsInv, JobInv, ResultsInv, Known
<1>3. cards \subseteq Cards /\ \A c \in Cards : rev[c] >= 1
  BY IdsAssumption DEF Init
<1> QED BY <1>1, <1>2, <1>3 DEF IInv

\* More cards and higher revisions, and whatever the callers remember, disturb nothing:
\* a run speaks of the cards it was asked for.
LEMMA RestKeeps ==
    ASSUME IInv, asking' \subseteq Callers, cards \subseteq cards', cards' \subseteq Cards,
           rev' \in [Cards -> Nat], \A c \in Cards : rev[c] <= rev'[c],
           used' \in [changes : Nat, failures : Nat, rollbacks : Nat],
           UNCHANGED <<snap, issues, run, asof, pc, todo, cur, mem, batch, force, empty>>
    PROVE  IInv'
<1>1. TypeOK'
  BY DEF IInv, TypeOK
<1>2. /\ \A r \in Runs : (Known(r)' <=> Known(r)) /\ Asked(r)' = Asked(r)
      /\ \A r, m, n : Passed(r, m, n)' = Passed(r, m, n)
  BY DEF Known, Asked, Passed
<1>3. \A u, r : Covers(u, r) => Covers(u, r)'
  BY DEF Covers, Asked
<1>4. \A u, r, sn, is : Made(u, r, sn, is) => Made(u, r, sn, is)'
  BY DEF Made
<1>5. \A c \in Cards : /\ rev[c] \in Nat /\ rev'[c] \in Nat
                        /\ \A r \in Runs : asof[r][c] \in Nat
  BY DEF IInv, TypeOK
<1>6. \A c \in Cards : rev'[c] >= 1
  BY <1>5 DEF IInv
<1>7. RunsInv'
  <2>1. ASSUME NEW r \in Runs, Known(r) PROVE \A c \in Cards : asof[r][c] <= rev'[c]
    BY <1>5, <2>1 DEF IInv, RunsInv
  <2>2. \A r \in Runs : Covers(run[r], r)' = Covers(run[r], r)
    BY DEF Covers, Asked
  <2> QED BY <1>2, <2>1, <2>2 DEF IInv, RunsInv
<1>8. JobInv'
  <2>1. Covers(mem.run, cur)' = Covers(mem.run, cur)
    BY DEF Covers, Asked
  <2>2. pc = "batch" => Asked(cur)' = Asked(cur)
    BY <1>2 DEF IInv, JobInv
  <2>3. \A r \in todo : Known(r)'
    BY <1>2 DEF IInv, JobInv, TypeOK
  <2>4. Passed(cur, run[cur].last, mem.run.last)' = Passed(cur, run[cur].last, mem.run.last)
    BY DEF Passed, Asked
  <2>5. pc = "batch" => Known(cur)'
    BY <1>2 DEF IInv, JobInv
  <2> QED BY <2>1, <2>2, <2>3, <2>4, <2>5 DEF IInv, JobInv
<1>9. ResultsInv'
  <2>1. /\ \A r \in Runs : /\ Made(run[r], r, snap, issues)' = Made(run[r], r, snap, issues)
                            /\ Made(run[r], r, mem.snap, mem.issues)'
                                 = Made(run[r], r, mem.snap, mem.issues)
        /\ Made(mem.run, cur, mem.snap, mem.issues)' = Made(mem.run, cur, mem.snap, mem.issues)
    BY DEF Made
  <2> QED BY <1>2, <2>1 DEF IInv, ResultsInv
<1> QED BY <1>1, <1>6, <1>7, <1>8, <1>9 DEF IInv

LEMMA EnvironmentKeeps ==
    ASSUME IInv,
           \/ \E c \in Cards : NewCard(c) \/ ChangeCard(c)
           \/ \E a \in Callers : Ask(a)
    PROVE  IInv'
<1>1. TypeOK /\ \A d \in Cards : rev[d] \in Nat
  BY DEF IInv, TypeOK
<1>2. ASSUME NEW c \in Cards, NewCard(c) PROVE IInv'
  BY <1>1, <1>2, RestKeeps DEF NewCard, results, requests, job, TypeOK, IInv
<1>3. ASSUME NEW c \in Cards, ChangeCard(c) PROVE IInv'
  BY <1>1, <1>3, RestKeeps DEF ChangeCard, results, requests, job, TypeOK, IInv
<1>4. ASSUME NEW a \in Callers, Ask(a) PROVE IInv'
  BY <1>1, <1>4, RestKeeps DEF Ask, account, results, job, TypeOK, IInv
<1> QED BY <1>2, <1>3, <1>4

\* A run that did not exist and has handled nothing.
LEMMA CreatedKeeps ==
    ASSUME IInv, NEW r \in Runs, ~Known(r), NEW f \in BOOLEAN, NEW n \in Nat,
           run' = [run EXCEPT ![r] = NewRun(f, n)],
           NEW a \in [Cards -> Nat], asof' = [asof EXCEPT ![r] = a],
           \A c \in Cards : a[c] <= rev[c],
           {c \in Cards : a[c] # 0} \subseteq cards,
           n = Cardinality({c \in Cards : a[c] # 0}),
           asking' \subseteq Callers,
           UNCHANGED <<account, results, job, used>>
    PROVE  IInv'
<1>1. /\ UNCHANGED <<cards, rev, snap, issues, pc, todo, cur, mem, batch, force, empty, used>>
      /\ run'[r] = NewRun(f, n) /\ asof'[r] = a
      /\ \A q \in Runs \ {r} : run'[q] = run[q] /\ asof'[q] = asof[q]
  BY DEF account, results, job, IInv, TypeOK
<1>2. \A q \in Runs \ {r} : /\ Known(q)' <=> Known(q)
                            /\ Asked(q)' = Asked(q)
  BY <1>1 DEF Known, Asked
<1>3. Asked(r)' = {c \in Cards : a[c] # 0}
  BY <1>1 DEF Asked
<1>9. /\ run'[r].last = 0 /\ run'[r].done = {} /\ run'[r].twice = {}
      /\ run'[r].total = n /\ run'[r].status = "queued" /\ run'[r].processed = 0
  <2>1. /\ NewRun(f, n).status = "queued" /\ NewRun(f, n).last = 0 /\ NewRun(f, n).total = n
        /\ NewRun(f, n).processed = 0 /\ NewRun(f, n).done = {} /\ NewRun(f, n).twice = {}
    BY DEF NewRun, NoSuchRun
  <2> QED BY <1>1, <2>1
<1>4. r \notin todo /\ (pc = "batch" => cur \in Runs \ {r})
  BY DEF IInv, JobInv
<1>5. TypeOK'
  BY <1>1, NewRunType DEF IInv, TypeOK
<1>6. RunsInv'
  <2> SUFFICES ASSUME NEW q \in Runs, Known(q)'
               PROVE  /\ Asked(q)' \subseteq cards
                      /\ run'[q].total = Cardinality(Asked(q)')
                      /\ \A c \in Cards : asof'[q][c] <= rev[c]
                      /\ Covers(run[q], q)'
                      /\ run'[q].status = "completed" =>
                           /\ run'[q].failed = 0
                           /\ \/ run'[q].processed >= run'[q].total
                              \/ \A c \in Asked(q)' : c <= run'[q].last
    BY <1>1 DEF RunsInv
  <2>1. CASE q # r
    <3>1. Covers(run[q], q)' = Covers(run[q], q)
      BY <1>1, <1>2, <2>1 DEF Covers
    <3> QED BY <1>1, <1>2, <2>1, <3>1 DEF IInv, RunsInv
  <2>2. CASE q = r
    <3>1. /\ run'[q].last = 0 /\ run'[q].done = {} /\ run'[q].twice = {}
          /\ run'[q].total = n /\ run'[q].status = "queued"
      BY <1>9, <2>2
    <3>2. \A c \in Cards : ~(c <= 0)
      BY IdsAssumption
    <3>3. Covers(run[q], q)'
      BY <3>1, <3>2 DEF Covers, Asked
    <3> QED BY <1>1, <1>3, <2>2, <3>1, <3>3
  <2> QED BY <2>1, <2>2
<1>7. JobInv'
  <2>1. \A q \in todo : Known(q)'
    BY <1>2, <1>4 DEF IInv, JobInv, TypeOK
  <2> SUFFICES ASSUME pc = "batch" PROVE JobInv'
    BY <1>1, <2>1 DEF JobInv
  <2>2. /\ cur \in Runs /\ run'[cur] = run[cur] /\ (Known(cur)' <=> Known(cur))
        /\ asof'[cur] = asof[cur] /\ Asked(cur)' = Asked(cur)
    BY <1>1, <1>2, <1>4
  <2>3. /\ Covers(mem.run, cur)' = Covers(mem.run, cur)
        /\ Passed(cur, run[cur].last, mem.run.last)' = Passed(cur, run[cur].last, mem.run.last)
    BY <1>1, <2>2 DEF Covers, Passed
  <2> QED BY <1>1, <2>1, <2>2, <2>3 DEF IInv, JobInv
<1>8. ResultsInv'
  <2>2. Made(run[r], r, snap, issues)' /\ Made(run[r], r, mem.snap, mem.issues)'
    <3>1. /\ run'[r].processed = 0 /\ run'[r].done = {}
          /\ Cardinality(run'[r].done) = 0 /\ Cardinality(run'[r].twice) = 0
      BY <1>9, FS_EmptySet
    <3> QED BY <3>1 DEF Made
  <2>3. \A q \in Runs \ {r} :
          /\ Made(run[q], q, snap, issues)' = Made(run[q], q, snap, issues)
          /\ Made(run[q], q, mem.snap, mem.issues)' = Made(run[q], q, mem.snap, mem.issues)
    BY <1>1 DEF Made
  <2>4. pc = "batch" =>
          Made(mem.run, cur, mem.snap, mem.issues)' = Made(mem.run, cur, mem.snap, mem.issues)
    BY <1>1, <1>4 DEF Made
  <2> QED BY <1>1, <1>2, <2>2, <2>3, <2>4 DEF IInv, ResultsInv
<1> QED BY <1>1, <1>5, <1>6, <1>7, <1>8 DEF IInv

LEMMA CreateRunKeeps ==
    ASSUME IInv, NEW a \in Callers, NEW r \in Runs, NEW f \in BOOLEAN, CreateRun(a, r, f)
    PROVE  IInv'
<1> DEFINE now == [c \in Cards |-> IF c \in cards THEN rev[c] ELSE 0]
<1>1. now \in [Cards -> Nat] /\ \A c \in Cards : now[c] <= rev[c]
  BY DEF IInv, TypeOK
<1>2. {c \in Cards : now[c] # 0} = cards
  BY DEF IInv, TypeOK
<1>3. Cardinality(cards) \in Nat
  BY CardsAreFinite DEF IInv
<1>4. ~Known(r) /\ asking' \subseteq Callers
  BY DEF CreateRun, NextRun, Known, IInv, TypeOK
<1>5. /\ run' = [run EXCEPT ![r] = NewRun(f, Cardinality(cards))]
      /\ asof' = [asof EXCEPT ![r] = now]
      /\ UNCHANGED <<account, results, job, used>>
  BY DEF CreateRun
<1> HIDE DEF now
<1> QED BY <1>1, <1>2, <1>3, <1>4, <1>5, CreatedKeeps

\* The cards of the run it retries, which are still there, as they are now.
LEMMA RetryRunKeeps ==
    ASSUME IInv, NEW q \in Runs, NEW r \in Runs, RetryRun(q, r)
    PROVE  IInv'
<1> DEFINE now == [c \in Cards |-> IF asof[q][c] # 0 THEN rev[c] ELSE 0]
<1>1. Known(q) /\ ~Known(r)
  BY DEF RetryRun, NextRun, Known, Finished
<1>2. /\ Asked(q) \subseteq cards
      /\ run[q].total = Cardinality(Asked(q)) /\ run[q].total \in Nat
  BY <1>1 DEF IInv, RunsInv, TypeOK, Run
<1>3. now \in [Cards -> Nat] /\ \A c \in Cards : now[c] <= rev[c]
  BY DEF IInv, TypeOK
<1>4. {c \in Cards : now[c] # 0} = Asked(q)
  BY DEF IInv, TypeOK, Asked
<1>5. /\ run' = [run EXCEPT ![r] = NewRun(TRUE, run[q].total)]
      /\ asof' = [asof EXCEPT ![r] = now]
      /\ asking' \subseteq Callers
      /\ UNCHANGED <<account, results, job, used>>
  BY DEF RetryRun, IInv, TypeOK
<1> HIDE DEF now
<1> QED BY <1>1, <1>2, <1>3, <1>4, <1>5, CreatedKeeps

-----------------------------------------------------------------------------
(* The job.                                                                *)

LEMMA PassKeeps == ASSUME IInv, Discover \/ PassEnds PROVE IInv'
<1>1. /\ UNCHANGED <<cards, rev, snap, issues, run, asof, asking, cur, mem, batch, force, empty,
                     used>>
      /\ pc # "batch" /\ pc' \in {"idle", "pass"}
      /\ todo' \subseteq Runs /\ \A r \in todo' : Known(r)
  BY DEF Discover, PassEnds, ActiveRuns, Active, Known, account, results, requests, IInv,
         JobInv, TypeOK
<1>2. TypeOK'
  BY <1>1 DEF IInv, TypeOK
<1>3. RunsInv' /\ JobInv'
  BY <1>1 DEF IInv, RunsInv, JobInv, Known, Asked, Covers
<1>4. ResultsInv'
  BY <1>1 DEF IInv, ResultsInv, Made, Known
<1> QED BY <1>1, <1>2, <1>3, <1>4 DEF IInv

\* The batch begins right behind the cursor.
LEMMA StartBatchKeeps == ASSUME IInv, NEW r \in Runs, StartBatch(r) PROVE IInv'
<1> DEFINE u == [run[r] EXCEPT !.status = "running"]
           n == run[r].last
<1>1. /\ Known(r) /\ run[r] \in Run /\ n \in Nat
      /\ run[r].processed \in Nat /\ cards \subseteq Cards /\ Cards \subseteq Nat
      /\ Covers(run[r], r) /\ Asked(r) \subseteq cards
  BY IdsAssumption DEF StartBatch, IInv, JobInv, RunsInv, TypeOK, Run
<1>2. Alike(run[r], u) /\ u.status = "running"
  BY <1>1, StartedType
<1>3. mem' = [run |-> u, snap |-> snap, issues |-> issues]
  BY DEF StartBatch
<1> HIDE DEF u
<1>4. /\ UNCHANGED <<cards, rev, snap, issues, run, asof, asking, used>>
      /\ todo' = todo \ {r} /\ cur' = r /\ pc' = "batch" /\ force' = run[r].force
      /\ batch' = NextCards(n) /\ empty' = (NextCards(n) = {})
  BY DEF StartBatch, account, results, requests
<1>5. mem'.run = u /\ mem'.snap = snap /\ mem'.issues = issues
  BY <1>3
<1>6. /\ NextCards(n) \subseteq Behind(n)
      /\ \A c \in Behind(n) : c \in NextCards(n) \/ \A b \in NextCards(n) : b < c
      /\ NextCards(n) = {} => Behind(n) = {}
  BY <1>1, NextCardsFollow
<1>7. TypeOK'
  <2>1. run[r].force \in BOOLEAN /\ NextCards(n) \subseteq Cards
    BY <1>1, <1>6 DEF Run, Behind
  <2>2. r # NoRun
    BY IdsAssumption
  <2>3. mem' \in [run : Run, snap : [Cards -> Nat], issues : [Cards -> Nat]]
    BY <1>2, <1>3 DEF IInv, TypeOK, Alike
  <2> QED BY <1>4, <2>1, <2>2, <2>3 DEF IInv, TypeOK
<1>8. RunsInv'
  BY <1>4 DEF IInv, RunsInv, Known, Asked, Covers
<1>9. JobInv'
  <2>1. \A q \in Runs : (Known(q)' <=> Known(q)) /\ Asked(q)' = Asked(q)
    BY <1>4 DEF Known, Asked
  <2>2. \A q \in todo' : Known(q)'
    BY <1>4, <2>1 DEF IInv, JobInv, TypeOK
  <2>3. /\ cur' \in Runs /\ Known(cur)'
        /\ mem'.run.status = "running" /\ mem'.run.total = run'[cur'].total
        /\ mem'.run.last = n /\ run'[cur'].last = n
        /\ mem'.run.processed = run[r].processed /\ run'[cur'].processed = run[r].processed
    BY <1>1, <1>2, <1>4, <1>5, <2>1 DEF Alike
  <2>4. Covers(mem.run, cur)'
    <3>1. Covers(u, r)
      BY <1>1, <1>2, AlikeRuns
    <3> QED BY <1>4, <1>5, <2>1, <3>1 DEF Covers
  <2>5. /\ \A b \in batch' : n < b
        /\ \A c \in Asked(r) : n < c => (c \in batch' \/ \A b \in batch' : b < c)
        /\ batch' = {} => \A c \in Asked(r) : c <= n
    <3>1. \A c \in cards : n < c <=> c \in Behind(n)
      BY DEF Behind
    <3>2. \A b \in batch' : n < b
      BY <1>4, <1>6 DEF Behind
    <3>3. ASSUME batch' = {}, NEW c \in Asked(r) PROVE c <= n
      <4>1. c \in Nat /\ ~(n < c)
        BY <1>1, <1>4, <1>6, <3>1, <3>3
      <4> QED BY <1>1, <4>1
    <3> QED BY <1>1, <1>4, <1>6, <3>1, <3>2, <3>3
  <2>6. Passed(cur, run[cur].last, mem.run.last)' = {}
    <3>1. ASSUME NEW c \in Cards, n < c, c <= n PROVE FALSE
      <4>1. c \in Nat /\ n \in Nat
        BY <1>1
      <4> HIDE DEF n
      <4> QED BY <3>1, <4>1
    <3>2. \A c \in Asked(r) : c \in Cards
      BY DEF Asked
    <3>3. Asked(cur)' = Asked(r) /\ run'[cur'].last = n
      BY <1>4, <2>1, <2>3
    <3> HIDE DEF n
    <3> QED BY <2>3, <3>1, <3>2, <3>3 DEF Passed
  <2>7. Cardinality(Passed(cur, run[cur].last, mem.run.last)') = 0
    BY <2>6, FS_EmptySet
  <2>8. Asked(cur)' = Asked(r)
    BY <1>4, <2>1
  <2>9. empty' => batch' = {}
    BY <1>4
  <2>10. mem'.run.processed
           >= run'[cur'].processed + Cardinality(Passed(cur, run[cur].last, mem.run.last)')
    BY <1>1, <2>3, <2>7
  <2>11. run'[cur'].last <= mem'.run.last
    BY <1>1, <2>3
  <2> HIDE DEF n
  <2> QED BY <2>2, <2>3, <2>4, <2>5, <2>8, <2>9, <2>10, <2>11 DEF JobInv
<1>10. ResultsInv'
  <2>1. Made(run[r], r, snap, issues)
    BY <1>1 DEF IInv, ResultsInv
  <2>2. Made(u, r, snap, issues)
    BY <1>2, <2>1, AlikeRuns
  <2>3. \A q \in Runs : /\ Known(q)' <=> Known(q)
                        /\ Made(run[q], q, snap, issues)' <=> Made(run[q], q, snap, issues)
                        /\ Made(run[q], q, mem.snap, mem.issues)' <=> Made(run[q], q, snap, issues)
    BY <1>4, <1>5 DEF Known, Made
  <2>4. Made(mem.run, cur, mem.snap, mem.issues)' <=> Made(u, r, snap, issues)
    BY <1>4, <1>5 DEF Made
  <2> QED BY <2>2, <2>3, <2>4 DEF IInv, ResultsInv
<1> QED BY <1>4, <1>7, <1>8, <1>9, <1>10 DEF IInv

\* Card c is through: counted once, or twice without a failure if it is noted so; and
\* its issues are those of its revision, or it is lost or half made, unless a failure
\* has been counted.
Handled(c) ==
    /\ mem' \in [run : Run, snap : [Cards -> Nat], issues : [Cards -> Nat]]
    /\ mem'.run.status = mem.run.status /\ mem'.run.total = mem.run.total
    /\ mem'.run.last = c /\ mem'.run.done = mem.run.done \cup {c}
    /\ mem.run.lost \subseteq mem'.run.lost
    /\ mem'.run.twice \in {mem.run.twice, mem.run.twice \cup {c}}
    /\ mem'.run.processed >= mem.run.processed + 1
    /\ mem'.run.failed = 0 =>
         /\ mem.run.failed = 0
         /\ \/ mem'.run.processed = mem.run.processed + 1 /\ mem'.run.twice = mem.run.twice
            \/ /\ mem'.run.processed = mem.run.processed + 2
               /\ mem'.run.twice = mem.run.twice \cup {c}
         /\ mem'.issues[c] = rev[c] \/ c \in mem'.run.lost \/ mem'.snap[c] # mem'.issues[c]
    /\ \A d \in Cards \ {c} : mem'.snap[d] = mem.snap[d] /\ mem'.issues[d] = mem.issues[d]
    /\ \/ mem'.snap[c] = mem.snap[c] /\ mem'.issues[c] = mem.issues[c]
       \/ mem'.snap[c] = rev[c] /\ mem'.issues[c] \in {rev[c], mem.issues[c]}

\* Work on card c does not disturb what was made of the cards before.
LEMMA StillMade ==
    ASSUME IInv, NEW c \in Cards, Handled(c), NEW r \in Runs, Known(r), NEW d \in Cards,
           NEW lost,
           mem.issues[d] >= asof[r][d] \/ d \in lost \/ mem.snap[d] # mem.issues[d]
    PROVE  mem'.issues[d] >= asof[r][d] \/ d \in lost \/ mem'.snap[d] # mem'.issues[d]
<1>1. /\ asof[r][d] \in Nat /\ rev[d] \in Nat /\ mem.issues[d] \in Nat /\ mem.snap[d] \in Nat
      /\ asof[r][d] <= rev[d]
  BY DEF IInv, TypeOK, RunsInv
<1>2. CASE d # c
  BY <1>2 DEF Handled
<1>3. CASE d = c
  <2>1. \/ mem'.snap[d] = mem.snap[d] /\ mem'.issues[d] = mem.issues[d]
        \/ mem'.snap[d] = rev[d] /\ mem'.issues[d] \in {rev[d], mem.issues[d]}
    BY <1>3 DEF Handled
  <2> QED BY <1>1, <2>1
<1> QED BY <1>2, <1>3

LEMMA HandledKeeps ==
    ASSUME IInv, NEW c \in Cards, Upcoming(c), Handled(c), batch' = batch \ {c},
           used' \in [changes : Nat, failures : Nat, rollbacks : Nat],
           UNCHANGED <<account, results, run, requests, pc, todo, cur, force, empty>>
    PROVE  IInv'
<1> DEFINE m == run[cur].last
           n == mem.run.last
<1>1. /\ UNCHANGED <<cards, rev, snap, issues, run, asof, asking, pc, todo, cur, force, empty>>
      /\ pc = "batch" /\ c \in batch /\ (\A d \in batch : c <= d)
      /\ cur \in Runs /\ Known(cur)
  BY DEF Upcoming, account, results, requests, IInv, JobInv
<1>2. /\ n < c /\ ~empty /\ batch \subseteq Cards
      /\ mem.run.status = "running" /\ mem.run.total = run[cur].total
      /\ \A d \in Asked(cur) : n < d => (d \in batch \/ \A b \in batch : b < d)
      /\ Covers(mem.run, cur) /\ m <= n
      /\ mem.run.processed >= run[cur].processed + Cardinality(Passed(cur, m, n))
  BY <1>1 DEF IInv, JobInv, TypeOK
<1>3. /\ Cards \subseteq Nat /\ m \in Nat /\ n \in Nat /\ c \in Nat
      /\ Asked(cur) \subseteq Cards
      /\ mem.run.processed \in Nat /\ mem'.run.processed \in Nat /\ run[cur].processed \in Nat
      /\ mem.run.done \subseteq Cards /\ mem.run.twice \subseteq Cards /\ mem.run.failed \in Nat
  BY <1>1, <1>2, IdsAssumption DEF IInv, TypeOK, Run, Handled, Asked
<1>4. \A d \in Asked(cur) : (n < d /\ d <= c) => d = c
  <2> SUFFICES ASSUME NEW d \in Asked(cur), n < d, d <= c PROVE d = c
    OBVIOUS
  <2>1. d \in Nat /\ (d \in batch \/ c < d)
    BY <1>1, <1>2, <1>3
  <2> QED BY <1>1, <1>3, <2>1
<1>5. c \notin mem.run.done /\ c \notin mem.run.twice
  <2>1. ~(c <= n)
    BY <1>2, <1>3
  <2> QED BY <1>2, <2>1 DEF Covers
<1>6. TypeOK' /\ RunsInv'
  <2>1. TypeOK'
    BY <1>1 DEF IInv, TypeOK, Handled
  <2>2. RunsInv'
    BY <1>1 DEF IInv, RunsInv, Known, Asked, Covers
  <2> QED BY <2>1, <2>2
<1>7. Covers(mem.run, cur)'
  <2>1. /\ mem'.run.last = c /\ mem'.run.done = mem.run.done \cup {c}
        /\ mem'.run.twice \in {mem.run.twice, mem.run.twice \cup {c}}
    BY DEF Handled
  <2>2. \A d \in mem'.run.done : d <= c
    <3> SUFFICES ASSUME NEW d \in mem.run.done PROVE d <= c
      BY <1>3, <2>1
    <3>1. d \in Nat /\ d <= n
      BY <1>2, <1>3 DEF Covers
    <3> QED BY <1>2, <1>3, <3>1
  <2>3. ASSUME NEW d \in Asked(cur), d <= c PROVE d \in mem'.run.done
    <3>1. d \in Nat
      BY <1>3
    <3>2. CASE n < d
      BY <1>4, <2>1, <2>3, <3>2
    <3>3. CASE d <= n
      BY <1>2, <2>1, <3>3 DEF Covers
    <3> QED BY <1>3, <3>1, <3>2, <3>3
  <2>4. Asked(cur)' = Asked(cur)
    BY <1>1 DEF Asked
  <2>5. mem'.run.twice \subseteq mem'.run.done
    BY <1>2, <2>1 DEF Covers
  <2> QED BY <1>1, <2>1, <2>2, <2>3, <2>4, <2>5 DEF Covers
<1>8. JobInv'
  <2>1. \A q \in Runs : (Known(q)' <=> Known(q))
    BY <1>1 DEF Known
  <2>2. mem'.run.last = c /\ mem'.run.status = "running" /\ mem'.run.total = run[cur].total
    BY <1>2 DEF Handled
  <2>3. \A b \in batch \ {c} : c < b
    <3> SUFFICES ASSUME NEW b \in batch, b # c PROVE c < b
      OBVIOUS
    <3>1. b \in Nat /\ c <= b
      BY <1>1, <1>2, <1>3
    <3> QED BY <1>3, <3>1
  <2>4. \A d \in Asked(cur) : c < d => (d \in batch \ {c} \/ \A b \in batch \ {c} : b < d)
    <3> SUFFICES ASSUME NEW d \in Asked(cur), c < d
                 PROVE  d \in batch \ {c} \/ \A b \in batch \ {c} : b < d
      OBVIOUS
    <3>1. d \in Nat /\ n < d
      <4>1. c \in Nat /\ n \in Nat /\ d \in Nat /\ n < c
        BY <1>2, <1>3
      <4> HIDE DEF m, n
      <4> QED BY <4>1
    <3>2. d # c
      BY <1>3
    <3> QED BY <1>2, <3>1, <3>2
  <2>5. mem'.run.processed
          >= run[cur].processed + Cardinality(Passed(cur, run[cur].last, mem.run.last)')
    <3>1. Passed(cur, run[cur].last, mem.run.last)' = Passed(cur, m, c)
      BY <1>1, <2>2 DEF Passed, Asked
    <3>2. mem'.run.processed >= mem.run.processed + 1
      BY DEF Handled
    <3>3. /\ Cardinality(Passed(cur, m, c)) <= Cardinality(Passed(cur, m, n)) + 1
          /\ Cardinality(Passed(cur, m, c)) \in Nat /\ Cardinality(Passed(cur, m, n)) \in Nat
      BY <1>2, <1>3, <1>4, OnePassed
    <3> HIDE DEF m, n
    <3> QED BY <1>2, <1>3, <3>1, <3>2, <3>3
  <2>6. run[cur].last <= c
    BY <1>2, <1>3
  <2>7. \A q \in todo : Known(q)'
    BY <2>1 DEF IInv, JobInv, TypeOK
  <2>8. Asked(cur)' = Asked(cur)
    BY <1>1 DEF Asked
  <2> HIDE DEF m, n
  <2> QED BY <1>1, <1>2, <1>7, <2>1, <2>2, <2>3, <2>4, <2>5, <2>6, <2>7, <2>8 DEF JobInv
<1>9. ResultsInv'
  <2>1. /\ Made(mem.run, cur, mem.snap, mem.issues)
        /\ \A q \in Runs : Known(q) => /\ Made(run[q], q, snap, issues)
                                       /\ Made(run[q], q, mem.snap, mem.issues)
    BY <1>1 DEF IInv, ResultsInv
  <2>2. ASSUME NEW q \in Runs, Known(q) PROVE Made(run[q], q, mem'.snap, mem'.issues)
    <3>1. run[q].done \subseteq Cards
      BY DEF IInv, TypeOK, Run
    <3> QED BY <2>1, <2>2, <3>1, StillMade DEF Made
  <2>3. Made(mem'.run, cur, mem'.snap, mem'.issues)
    <3> SUFFICES ASSUME mem'.run.failed = 0
                 PROVE  /\ mem'.run.processed
                             <= Cardinality(mem'.run.done) + Cardinality(mem'.run.twice)
                        /\ \A d \in mem'.run.done :
                             \/ mem'.issues[d] >= asof[cur][d] \/ d \in mem'.run.lost
                             \/ mem'.snap[d] # mem'.issues[d]
      BY DEF Made
    <3>1. /\ mem.run.failed = 0
          /\ \/ mem'.run.processed = mem.run.processed + 1 /\ mem'.run.twice = mem.run.twice
             \/ /\ mem'.run.processed = mem.run.processed + 2
                /\ mem'.run.twice = mem.run.twice \cup {c}
          /\ mem'.issues[c] = rev[c] \/ c \in mem'.run.lost \/ mem'.snap[c] # mem'.issues[c]
          /\ mem'.run.done = mem.run.done \cup {c} /\ mem.run.lost \subseteq mem'.run.lost
      BY DEF Handled
    <3>2. /\ mem.run.processed <= Cardinality(mem.run.done) + Cardinality(mem.run.twice)
          /\ \A d \in mem.run.done : \/ mem.issues[d] >= asof[cur][d] \/ d \in mem.run.lost
                                     \/ mem.snap[d] # mem.issues[d]
      BY <2>1, <3>1 DEF Made
    <3>3. /\ Cardinality(mem'.run.done) = Cardinality(mem.run.done) + 1
          /\ Cardinality(mem.run.twice \cup {c}) = Cardinality(mem.run.twice) + 1
          /\ Cardinality(mem.run.done) \in Nat /\ Cardinality(mem.run.twice) \in Nat
      BY <1>3, <1>5, <3>1, OneMore, CardsAreFinite
    <3>4. mem'.run.processed <= Cardinality(mem'.run.done) + Cardinality(mem'.run.twice)
      <4>1. CASE /\ mem'.run.processed = mem.run.processed + 1
                 /\ mem'.run.twice = mem.run.twice
        BY <1>3, <3>2, <3>3, <4>1
      <4>2. CASE /\ mem'.run.processed = mem.run.processed + 2
                 /\ mem'.run.twice = mem.run.twice \cup {c}
        BY <1>3, <3>2, <3>3, <4>2
      <4> QED BY <3>1, <4>1, <4>2
    <3>5. ASSUME NEW d \in mem.run.done
          PROVE  \/ mem'.issues[d] >= asof[cur][d] \/ d \in mem'.run.lost
                 \/ mem'.snap[d] # mem'.issues[d]
      <4>1. \/ mem'.issues[d] >= asof[cur][d] \/ d \in mem.run.lost
            \/ mem'.snap[d] # mem'.issues[d]
        BY <1>1, <1>3, <3>2, StillMade
      <4> QED BY <3>1, <4>1
    <3>6. rev[c] >= asof[cur][c]
      BY <1>1 DEF IInv, RunsInv, TypeOK
    <3> QED BY <3>1, <3>4, <3>5, <3>6
  <2>4. \A q \in Runs : /\ Known(q)' <=> Known(q)
                        /\ Made(run[q], q, snap, issues)' <=> Made(run[q], q, snap, issues)
                        /\ Made(run[q], q, mem.snap, mem.issues)'
                             <=> Made(run[q], q, mem'.snap, mem'.issues)
    BY <1>1 DEF Known, Made
  <2>5. Made(mem.run, cur, mem.snap, mem.issues)'
          <=> Made(mem'.run, cur, mem'.snap, mem'.issues)
    BY <1>1 DEF Made
  <2> QED BY <2>1, <2>2, <2>3, <2>4, <2>5 DEF ResultsInv
<1> QED BY <1>1, <1>6, <1>8, <1>9 DEF IInv

\* What the transaction has after a snapshot and after the issues of card c.
LEMMA WorkType ==
    ASSUME TypeOK, NEW c \in Cards, NEW u \in Run
    PROVE  /\ LET w == [mem EXCEPT !.run = u]
              IN  /\ w \in [run : Run, snap : [Cards -> Nat], issues : [Cards -> Nat]]
                  /\ w.run = u /\ w.snap = mem.snap /\ w.issues = mem.issues
           /\ LET w == [WithSnapshot(mem, c) EXCEPT !.run = u]
              IN  /\ w \in [run : Run, snap : [Cards -> Nat], issues : [Cards -> Nat]]
                  /\ w.run = u
                  /\ w.snap = [mem.snap EXCEPT ![c] = rev[c]] /\ w.issues = mem.issues
           /\ LET w == [WithIssues(mem, c) EXCEPT !.run = u]
              IN  /\ w \in [run : Run, snap : [Cards -> Nat], issues : [Cards -> Nat]]
                  /\ w.run = u
                  /\ w.snap = [mem.snap EXCEPT ![c] = rev[c]]
                  /\ w.issues = [mem.issues EXCEPT ![c] = rev[c]]
<1>1. /\ mem \in [run : Run, snap : [Cards -> Nat], issues : [Cards -> Nat]]
      /\ rev[c] \in Nat
  BY DEF TypeOK
<1>2. /\ [mem.snap EXCEPT ![c] = rev[c]] \in [Cards -> Nat]
      /\ [mem.issues EXCEPT ![c] = rev[c]] \in [Cards -> Nat]
  BY <1>1
<1>3. /\ WithSnapshot(mem, c) \in [run : Run, snap : [Cards -> Nat], issues : [Cards -> Nat]]
      /\ WithSnapshot(mem, c).snap = [mem.snap EXCEPT ![c] = rev[c]]
      /\ WithSnapshot(mem, c).issues = mem.issues
  BY <1>1, <1>2 DEF WithSnapshot
<1>4. /\ WithIssues(mem, c) \in [run : Run, snap : [Cards -> Nat], issues : [Cards -> Nat]]
      /\ WithIssues(mem, c).snap = [mem.snap EXCEPT ![c] = rev[c]]
      /\ WithIssues(mem, c).issues = [mem.issues EXCEPT ![c] = rev[c]]
  BY <1>1, <1>2, <1>3 DEF WithIssues
<1> QED BY <1>1, <1>3, <1>4

\* The run of what the transaction has is the one before, through card c.
LEMMA MemRun ==
    ASSUME TypeOK, NEW c \in Cards
    PROVE  /\ mem.run \in Run /\ mem.run.processed \in Nat /\ mem.run.failed \in Nat
           /\ force \in BOOLEAN
           /\ WithSnapshot(mem, c).run = mem.run /\ WithIssues(mem, c).run = mem.run
BY DEF TypeOK, WithSnapshot, WithIssues, Run

LEMMA AnalyzeKeeps == ASSUME IInv, NEW c \in Cards, AnalyzeProduct(c) PROVE IInv'
<1> DEFINE u == Counted(mem.run, c)
<1>1. TypeOK /\ mem' = Analysed(c)
  BY DEF IInv, AnalyzeProduct
<1>2. Through(mem.run, u, c, 1, 0, mem.run.lost, mem.run.twice)
      /\ u \in Run /\ mem.run.processed \in Nat /\ mem.run.failed \in Nat
  <2>1. mem.run \in Run /\ force \in BOOLEAN
        /\ mem.run.processed \in Nat /\ mem.run.failed \in Nat
    BY <1>1, MemRun
  <2>2. Through(mem.run, u, c, 1, 0, mem.run.lost, mem.run.twice)
    BY <2>1, CountedType
  <2> HIDE DEF u
  <2> QED BY <2>1, <2>2 DEF Through
<1> HIDE DEF u
<1>3. Handled(c)
  <2>1. CASE Unchanged(c)
    <3>1. mem' = [mem EXCEPT !.run = u]
      BY <1>1, <2>1 DEF Analysed, u
    <3>2. /\ mem' \in [run : Run, snap : [Cards -> Nat], issues : [Cards -> Nat]]
          /\ mem'.run = u /\ mem'.snap = mem.snap /\ mem'.issues = mem.issues
      BY <1>1, <1>2, <3>1, WorkType
    <3>3. mem.snap[c] = rev[c]
      BY <2>1 DEF Unchanged
    <3> QED BY <1>2, <3>2, <3>3 DEF Handled, Through
  <2>2. CASE ~Unchanged(c)
    <3>1. mem' = [WithIssues(mem, c) EXCEPT !.run = u]
      <4>1. mem' = [WithIssues(mem, c) EXCEPT !.run = Counted(WithIssues(mem, c).run, c)]
        BY <1>1, <2>2 DEF Analysed
      <4> QED BY <1>1, <4>1, MemRun DEF u
    <3>2. /\ mem' \in [run : Run, snap : [Cards -> Nat], issues : [Cards -> Nat]]
          /\ mem'.run = u
          /\ mem'.snap = [mem.snap EXCEPT ![c] = rev[c]]
          /\ mem'.issues = [mem.issues EXCEPT ![c] = rev[c]]
      BY <1>1, <1>2, <3>1, WorkType
    <3>3. mem.issues \in [Cards -> Nat] /\ mem.snap \in [Cards -> Nat]
      BY <1>1 DEF TypeOK
    <3> QED BY <1>2, <3>2, <3>3 DEF Handled, Through
  <2> QED BY <2>1, <2>2
<1>4. Upcoming(c) /\ batch' = batch \ {c}
      /\ UNCHANGED <<account, results, run, requests, pc, todo, cur, force, empty, used>>
  BY DEF AnalyzeProduct
<1>5. used' \in [changes : Nat, failures : Nat, rollbacks : Nat]
  BY <1>1, <1>4 DEF TypeOK
<1> QED BY <1>3, <1>4, <1>5, HandledKeeps

\* A failure is counted, or the card is lost, or counted twice.
LEMMA ProductFailsKeeps == ASSUME IInv, NEW c \in Cards, ProductFails(c) PROVE IInv'
<1>1. PICK p \in PointsOf(c) : mem' = FailsAt(c, p)
  BY DEF ProductFails
<1>2. TypeOK /\ p \in {"read", "rules", "issues", "registry", "answer"}
      /\ (p = "answer" => mem.snap[c] = rev[c])
  BY DEF PointsOf, IInv, Unchanged
<1>3. /\ mem.run \in Run /\ mem.run.processed \in Nat /\ mem.run.failed \in Nat
      /\ force \in BOOLEAN
      /\ WithSnapshot(mem, c).run = mem.run /\ WithIssues(mem, c).run = mem.run
      /\ mem.snap \in [Cards -> Nat] /\ mem.issues \in [Cards -> Nat]
  BY <1>2, MemRun DEF TypeOK
<1> DEFINE l == LostCard(mem.run, c)
           f == FailedCard(mem.run, c)
           g == FailedCard(Counted(mem.run, c), c)
           h == CountedTwice(mem.run, c)
<1>4. /\ Through(mem.run, l, c, 1, 0, mem.run.lost \cup {c}, mem.run.twice)
      /\ Through(mem.run, f, c, 1, 1, mem.run.lost, mem.run.twice)
      /\ Through(mem.run, h, c, 2, 0, mem.run.lost, mem.run.twice \cup {c})
      /\ Through(mem.run, Counted(mem.run, c), c, 1, 0, mem.run.lost, mem.run.twice)
  BY <1>3, CountedType
<1>5. Through(mem.run, g, c, 2, 1, mem.run.lost, mem.run.twice)
  <2> DEFINE v == Counted(mem.run, c)
  <2>1. Through(mem.run, v, c, 1, 0, mem.run.lost, mem.run.twice) /\ g = FailedCard(v, c)
    BY <1>4
  <2> HIDE DEF f, g, h, l, v
  <2>2. v \in Run
    BY <2>1 DEF Through
  <2>3. Through(v, g, c, 1, 1, v.lost, v.twice)
    BY <1>3, <2>1, <2>2, CountedType
  <2> QED BY <1>3, <2>1, <2>3 DEF Through
<1> HIDE DEF f, g, h, l
<1>6. l \in Run /\ f \in Run /\ g \in Run /\ h \in Run
  BY <1>4, <1>5 DEF Through
<1>7. Handled(c)
  <2>0. CASE p = "read"
    <3>1. mem' = [mem EXCEPT !.run = l]
      BY <1>1, <2>0 DEF FailsAt, l
    <3>2. /\ mem' \in [run : Run, snap : [Cards -> Nat], issues : [Cards -> Nat]]
          /\ mem'.run = l /\ mem'.snap = mem.snap /\ mem'.issues = mem.issues
      BY <1>2, <1>6, <3>1, WorkType
    <3> QED BY <1>3, <1>4, <3>2 DEF Handled, Through
  <2>1. CASE p = "rules"
    <3>1. mem' = [mem EXCEPT !.run = f]
      BY <1>1, <2>1 DEF FailsAt, f
    <3>2. /\ mem' \in [run : Run, snap : [Cards -> Nat], issues : [Cards -> Nat]]
          /\ mem'.run = f /\ mem'.snap = mem.snap /\ mem'.issues = mem.issues
      BY <1>2, <1>6, <3>1, WorkType
    <3> QED BY <1>3, <1>4, <3>2 DEF Handled, Through
  <2>2. CASE p = "issues"
    <3>1. mem' = [WithSnapshot(mem, c) EXCEPT !.run = f]
      BY <1>1, <1>3, <2>2 DEF FailsAt, f
    <3>2. /\ mem' \in [run : Run, snap : [Cards -> Nat], issues : [Cards -> Nat]]
          /\ mem'.run = f
          /\ mem'.snap = [mem.snap EXCEPT ![c] = rev[c]] /\ mem'.issues = mem.issues
      BY <1>2, <1>6, <3>1, WorkType
    <3> QED BY <1>3, <1>4, <3>2 DEF Handled, Through
  <2>3. CASE p = "registry"
    <3>1. mem' = [WithIssues(mem, c) EXCEPT !.run = g]
      BY <1>1, <1>3, <2>3 DEF FailsAt, g
    <3>2. /\ mem' \in [run : Run, snap : [Cards -> Nat], issues : [Cards -> Nat]]
          /\ mem'.run = g
          /\ mem'.snap = [mem.snap EXCEPT ![c] = rev[c]]
          /\ mem'.issues = [mem.issues EXCEPT ![c] = rev[c]]
      BY <1>2, <1>6, <3>1, WorkType
    <3> QED BY <1>3, <1>5, <3>2 DEF Handled, Through
  <2>4. CASE p = "answer"
    <3>1. mem' = [mem EXCEPT !.run = h]
      BY <1>1, <2>4 DEF FailsAt, h
    <3>2. /\ mem' \in [run : Run, snap : [Cards -> Nat], issues : [Cards -> Nat]]
          /\ mem'.run = h /\ mem'.snap = mem.snap /\ mem'.issues = mem.issues
      BY <1>2, <1>6, <3>1, WorkType
    <3>3. mem'.issues[c] = rev[c] \/ mem'.snap[c] # mem'.issues[c]
      BY <1>2, <2>4, <3>2
    <3> QED BY <1>3, <1>4, <3>2, <3>3 DEF Handled, Through
  <2> QED BY <1>2, <2>0, <2>1, <2>2, <2>3, <2>4
<1>8. Upcoming(c) /\ batch' = batch \ {c}
      /\ UNCHANGED <<account, results, run, requests, pc, todo, cur, force, empty>>
  BY DEF ProductFails
<1>9. used' \in [changes : Nat, failures : Nat, rollbacks : Nat]
  BY <1>2 DEF TypeOK, ProductFails
<1> QED BY <1>7, <1>8, <1>9, HandledKeeps

-----------------------------------------------------------------------------
(* The end of a batch.                                                     *)

LEMMA CommitBatchKeeps == ASSUME IInv, CommitBatch PROVE IInv'
<1> DEFINE u == Closed(mem.run)
<1>1. /\ pc = "batch" /\ pc' = "pass" /\ cur' = NoRun /\ mem' = NoWork
      /\ force' = FALSE /\ empty' = FALSE
      /\ run' = [run EXCEPT ![cur] = u] /\ snap' = mem.snap /\ issues' = mem.issues
      /\ UNCHANGED <<cards, rev, asof, asking, todo, batch, used>>
  BY DEF CommitBatch, account, requests
<1>2. /\ cur \in Runs /\ Known(cur) /\ mem.run.status = "running"
      /\ mem.run.total = run[cur].total /\ mem.run \in Run /\ Covers(mem.run, cur)
      /\ empty => \A c \in Asked(cur) : c <= mem.run.last
      /\ run[cur].total = Cardinality(Asked(cur))
      /\ Made(mem.run, cur, mem.snap, mem.issues)
  BY <1>1 DEF IInv, JobInv, TypeOK, RunsInv, ResultsInv
<1>3. /\ Alike(mem.run, u) /\ u.status # "absent"
      /\ u.status = "completed" =>
           mem.run.failed = 0 /\ (empty \/ mem.run.processed >= mem.run.total)
  BY <1>2, ClosedType
<1>4. Covers(u, cur) /\ Made(u, cur, mem.snap, mem.issues)
  BY <1>2, <1>3, AlikeRuns
<1> HIDE DEF u
<1>5. /\ run'[cur] = u /\ (\A q \in Runs \ {cur} : run'[q] = run[q])
      /\ run' \in [Runs -> Run]
  BY <1>1, <1>2, <1>3 DEF IInv, TypeOK, Alike
<1>6. \A q \in Runs : (Known(q)' <=> Known(q)) /\ Asked(q)' = Asked(q)
  BY <1>1, <1>2, <1>3, <1>5 DEF Known, Asked
<1>7. NoWork \in [run : Run, snap : [Cards -> Nat], issues : [Cards -> Nat]]
  BY NoSuchRunType DEF NoWork
<1>8. TypeOK'
  BY <1>1, <1>5, <1>7 DEF IInv, TypeOK
<1>9. RunsInv'
  <2> SUFFICES ASSUME NEW q \in Runs, Known(q)'
               PROVE  /\ Asked(q)' \subseteq cards'
                      /\ run'[q].total = Cardinality(Asked(q)')
                      /\ \A c \in Cards : asof'[q][c] <= rev'[c]
                      /\ Covers(run[q], q)'
                      /\ run'[q].status = "completed" =>
                           /\ run'[q].failed = 0
                           /\ \/ run'[q].processed >= run'[q].total
                              \/ \A c \in Asked(q)' : c <= run'[q].last
    BY DEF RunsInv
  <2>1. /\ Known(q) /\ Asked(q) \subseteq cards
        /\ run[q].total = Cardinality(Asked(q))
        /\ \A c \in Cards : asof[q][c] <= rev[c]
        /\ Covers(run[q], q)
        /\ run[q].status = "completed" =>
             /\ run[q].failed = 0
             /\ \/ run[q].processed >= run[q].total
                \/ \A c \in Asked(q) : c <= run[q].last
    BY <1>6 DEF IInv, RunsInv
  <2>2. Asked(q)' = Asked(q) /\ cards' = cards /\ asof' = asof /\ rev' = rev
    BY <1>1, <1>6
  <2>3. CASE q = cur
    <3>1. Covers(run[q], q)' <=> Covers(u, cur)
      BY <1>5, <2>2, <2>3 DEF Covers
    <3> QED BY <1>2, <1>3, <1>4, <1>5, <2>1, <2>2, <2>3, <3>1 DEF Alike
  <2>4. CASE q # cur
    <3>1. run'[q] = run[q]
      BY <1>5, <2>4
    <3>2. Covers(run[q], q)' <=> Covers(run[q], q)
      BY <2>2, <3>1 DEF Covers
    <3> QED BY <2>1, <2>2, <3>1, <3>2
  <2> QED BY <2>3, <2>4
<1>10. JobInv'
  BY <1>1, <1>6 DEF IInv, JobInv, TypeOK
<1>11. ResultsInv'
  <2>1. ASSUME NEW q \in Runs, Known(q)' PROVE Made(run[q], q, snap, issues)'
    <3>1. CASE q = cur
      BY <1>1, <1>4, <1>5, <3>1 DEF Made
    <3>2. CASE q # cur
      <4>1. Made(run[q], q, mem.snap, mem.issues)
        BY <1>1, <1>6, <2>1 DEF IInv, ResultsInv
      <4>2. run'[q] = run[q]
        BY <1>5, <3>2
      <4> QED BY <1>1, <4>1, <4>2 DEF Made
    <3> QED BY <3>1, <3>2
  <2> QED BY <1>1, <2>1 DEF ResultsInv
<1> QED BY <1>1, <1>8, <1>9, <1>10, <1>11 DEF IInv

\* What was not committed is gone.
LEMMA BatchFailsKeeps ==
    ASSUME IInv, NEW restart \in BOOLEAN, BatchFails(restart)
    PROVE  IInv'
<1>1. /\ UNCHANGED <<cards, rev, snap, issues, run, asof, asking>>
      /\ pc' \in {"idle", "pass"} /\ todo' \subseteq todo /\ cur' = NoRun /\ mem' = NoWork
      /\ batch' = {} /\ force' = FALSE /\ empty' = FALSE
      /\ used' \in [changes : Nat, failures : Nat, rollbacks : Nat]
  BY DEF BatchFails, account, results, requests, IInv, TypeOK
<1>2. NoWork \in [run : Run, snap : [Cards -> Nat], issues : [Cards -> Nat]]
  BY NoSuchRunType DEF NoWork
<1>3. TypeOK'
  BY <1>1, <1>2 DEF IInv, TypeOK
<1>4. RunsInv'
  BY <1>1 DEF IInv, RunsInv, Known, Asked, Covers
<1>5. JobInv'
  BY <1>1 DEF IInv, JobInv, Known
<1>6. ResultsInv'
  BY <1>1 DEF IInv, ResultsInv, Made, Known
<1> QED BY <1>1, <1>3, <1>4, <1>5, <1>6 DEF IInv

-----------------------------------------------------------------------------
LEMMA StepHolds == IInv /\ [Next]_vars => IInv'
<1> SUFFICES ASSUME IInv, [Next]_vars PROVE IInv'
  OBVIOUS
<1>1. CASE Pass
  BY <1>1, PassKeeps, StartBatchKeeps, AnalyzeKeeps, CommitBatchKeeps DEF Pass
<1>2. CASE Fault
  BY <1>2, ProductFailsKeeps, BatchFailsKeeps DEF Fault
<1>3. CASE Environment
  BY <1>3, EnvironmentKeeps, CreateRunKeeps, RetryRunKeeps DEF Environment
<1>4. CASE UNCHANGED vars
  BY <1>4, RestKeeps DEF vars, account, results, requests, job, IInv, TypeOK
<1> QED BY <1>1, <1>2, <1>3, <1>4 DEF Next

LEMMA Invariant == Spec => []IInv
BY InitHolds, StepHolds, PTL DEF Spec

\* The state has its types, and the job has a run exactly while it works on a batch.
THEOREM TypeCorrect == Spec => []TypeOK
<1>1. IInv => TypeOK
  BY DEF IInv
<1> QED BY <1>1, Invariant, PTL

\* A run shown as completed has covered the cards its total stands for: those without
\* issues as new as the card was then are half made, or paid for by a newcomer, by a
\* failure counted as a success or by a card counted twice (process_run_batch 4215-4275).
THEOREM CompletedCovers == Spec => []CompletedIsCurrent
<1>1. ASSUME IInv, NEW r \in Runs, run[r].status = "completed"
      PROVE  Cardinality(Outdated(r) \ HalfMade)
               <= Cardinality(Newcomers(r)) + Cardinality(run[r].lost) + Cardinality(run[r].twice)
  <2> DEFINE u == run[r]
             A == Asked(r)
             D == u.done
             Missed == A \ D
  <2>1. /\ u \in Run /\ D \subseteq Cards /\ u.lost \subseteq Cards /\ u.twice \subseteq Cards
        /\ u.processed \in Nat /\ u.failed \in Nat /\ u.total \in Nat
        /\ \A c \in Cards : asof[r][c] \in Nat /\ issues[c] \in Nat
    BY <1>1 DEF IInv, TypeOK, Run
  <2>2. /\ u.total = Cardinality(A) /\ u.failed = 0
        /\ u.processed >= u.total \/ A \subseteq D
    <3>1. Known(r) /\ A \subseteq Cards
      BY <1>1 DEF Known, Asked
    <3> QED BY <1>1, <3>1 DEF IInv, RunsInv, Covers
  <2>3. /\ u.processed <= Cardinality(D) + Cardinality(u.twice)
        /\ \A c \in D : issues[c] >= asof[r][c] \/ c \in u.lost \/ snap[c] # issues[c]
    BY <1>1, <2>2 DEF IInv, ResultsInv, Known, Made
  <2> HIDE DEF u
  <2>4. A \subseteq Cards /\ Newcomers(r) = D \ A
    BY <2>1 DEF Asked, Newcomers, u
  <2>5. Outdated(r) \ HalfMade \subseteq Missed \cup u.lost
    <3> SUFFICES ASSUME NEW c \in Cards, issues[c] < asof[r][c], snap[c] = issues[c], c \notin u.lost
                 PROVE  c \in A \ D
      BY DEF Outdated, HalfMade
    <3>1. asof[r][c] # 0 /\ ~(issues[c] >= asof[r][c])
      BY <2>1
    <3> QED BY <2>3, <3>1 DEF Asked
  <2> HIDE DEF A, D
  <2>6. /\ IsFiniteSet(A) /\ IsFiniteSet(D) /\ IsFiniteSet(A \cap D)
        /\ IsFiniteSet(Missed) /\ IsFiniteSet(u.lost) /\ IsFiniteSet(Missed \cup u.lost)
        /\ Cardinality(A) \in Nat /\ Cardinality(D) \in Nat /\ Cardinality(A \cap D) \in Nat
        /\ Cardinality(Missed) \in Nat /\ Cardinality(D \ A) \in Nat
        /\ Cardinality(u.lost) \in Nat /\ Cardinality(u.twice) \in Nat
    <3>1. /\ A \cap D \subseteq Cards /\ Missed \subseteq Cards /\ D \ A \subseteq Cards
          /\ Missed \cup u.lost \subseteq Cards
      BY <2>1, <2>4
    <3> QED BY <2>1, <2>4, <3>1, CardsAreFinite
  <2>7. Cardinality(Missed) = Cardinality(A) - Cardinality(A \cap D)
        /\ Cardinality(D \ A) = Cardinality(D) - Cardinality(A \cap D)
    <3>1. D \cap A = A \cap D
      OBVIOUS
    <3> QED BY <2>6, <3>1, FS_Difference
  <2>8. Cardinality(Missed) <= Cardinality(D \ A) + Cardinality(u.twice)
    <3>1. CASE u.processed >= u.total
      BY <2>1, <2>2, <2>3, <2>6, <2>7, <3>1
    <3>2. CASE A \subseteq D
      <4>1. Missed = {}
        BY <3>2
      <4>2. Cardinality(Missed) = 0
        BY <4>1, FS_EmptySet
      <4> QED BY <2>6, <4>2
    <3> QED BY <2>2, <3>1, <3>2
  <2>9. Cardinality(Outdated(r) \ HalfMade) <= Cardinality(Missed \cup u.lost)
        /\ Cardinality(Outdated(r) \ HalfMade) \in Nat
        /\ Cardinality(Missed \cup u.lost) \in Nat
    BY <2>5, <2>6, FS_Subset, FS_CardinalityType
  <2>10. Cardinality(Missed \cup u.lost) <= Cardinality(Missed) + Cardinality(u.lost)
    <3>1. Cardinality(Missed \cup u.lost)
            = Cardinality(Missed) + Cardinality(u.lost) - Cardinality(Missed \cap u.lost)
      BY <2>6, FS_Union
    <3>2. Cardinality(Missed \cap u.lost) \in Nat
      BY <2>6, FS_Subset, FS_CardinalityType
    <3> HIDE DEF Missed
    <3> QED BY <2>6, <3>1, <3>2
  <2> HIDE DEF Missed
  <2>11. Cardinality(Outdated(r) \ HalfMade)
           <= Cardinality(D \ A) + Cardinality(u.lost) + Cardinality(u.twice)
    BY <2>6, <2>8, <2>9, <2>10
  <2> QED BY <2>4, <2>11 DEF u
<1>2. IInv => CompletedIsCurrent
  BY <1>1 DEF CompletedIsCurrent
<1> QED BY <1>2, Invariant, PTL

\* The cursor of a run that goes on moves forward only, and past no card that was not
\* handled in the batch committed with it (process_run_batch 4215-4275).
THEOREM NoneSkipped == Spec => NothingPassedOver
<1> DEFINE Forward ==
      \A r \in Runs : run[r].status \in Active =>
         /\ run'[r].last >= run[r].last
         /\ run'[r].processed - run[r].processed
              >= Cardinality({c \in Cards : asof[r][c] # 0 /\ run[r].last < c /\ c <= run'[r].last})
<1>1. IInv /\ [Next]_vars => [Forward]_vars
  <2> SUFFICES ASSUME IInv, [Next]_vars, NEW r \in Runs, run[r].status \in Active
               PROVE  /\ run'[r].last >= run[r].last
                      /\ run'[r].processed - run[r].processed
                           >= Cardinality({c \in Cards : asof[r][c] # 0 /\ run[r].last < c
                                                         /\ c <= run'[r].last})
    OBVIOUS
  <2>1. /\ run[r] \in Run /\ run[r].last \in Nat /\ run[r].processed \in Nat
        /\ Known(r) /\ Cards \subseteq Nat
    BY IdsAssumption DEF IInv, TypeOK, Run, Known, Active
  <2>2. CASE run'[r] = run[r]
    <3>1. {c \in Cards : asof[r][c] # 0 /\ run[r].last < c /\ c <= run'[r].last} = {}
      <4>1. \A c \in Cards : ~(run[r].last < c /\ c <= run[r].last)
        BY <2>1
      <4> QED BY <2>2, <4>1
    <3>2. Cardinality({}) = 0
      BY FS_EmptySet
    <3>3. /\ run'[r].last >= run[r].last
          /\ run'[r].processed - run[r].processed = 0
      BY <2>1, <2>2
    <3> QED BY <3>1, <3>2, <3>3
  <2>3. CASE CommitBatch /\ r = cur
    <3>1. /\ run'[r] = Closed(mem.run) /\ mem.run \in Run
          /\ mem.run.last \in Nat /\ mem.run.processed \in Nat
          /\ run[r].last <= mem.run.last
          /\ mem.run.processed
               >= run[r].processed + Cardinality(Passed(r, run[r].last, mem.run.last))
      BY <2>3 DEF CommitBatch, IInv, TypeOK, JobInv, Run
    <3>2. run'[r].last = mem.run.last /\ run'[r].processed = mem.run.processed
      BY <3>1, ClosedType DEF Alike
    <3> DEFINE S == {c \in Cards : asof[r][c] # 0 /\ run[r].last < c /\ c <= run'[r].last}
    <3>3. S = Passed(r, run[r].last, mem.run.last) /\ S \subseteq Cards
      BY <3>2 DEF Passed, Asked
    <3> HIDE DEF S
    <3>4. Cardinality(S) \in Nat
      BY <3>3, CardsAreFinite
    <3>5. run'[r].processed - run[r].processed >= Cardinality(S)
      BY <2>1, <3>1, <3>2, <3>3, <3>4
    <3> QED BY <3>1, <3>2, <3>5 DEF S
  <2>4. ~(CommitBatch /\ r = cur) => run'[r] = run[r]
    <3>1. CASE Pass
      BY <3>1 DEF Pass, Discover, PassEnds, CommitBatch, StartBatch, AnalyzeProduct, IInv, TypeOK
    <3>2. CASE Fault
      BY <3>2 DEF Fault, ProductFails, BatchFails
    <3>3. CASE Environment
      BY <2>1, <3>3 DEF Environment, NewCard, ChangeCard, Ask, CreateRun, RetryRun, NextRun,
                        Known, IInv, TypeOK
    <3>4. CASE UNCHANGED vars
      BY <3>4 DEF vars
    <3> QED BY <3>1, <3>2, <3>3, <3>4 DEF Next
  <2> QED BY <2>2, <2>3, <2>4
<1> QED BY <1>1, Invariant, PTL DEF Spec, NothingPassedOver

=============================================================================
