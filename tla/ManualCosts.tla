---------------------------- MODULE ManualCosts ----------------------------
(***************************************************************************)
(* The unit costs of one SKU (services/manual_costs.py and its repository):*)
(* rows of manual_costs, each for an interval of days, that files and users*)
(* write in concurrent transactions.                                       *)
(*                                                                         *)
(* A row of a file replaces what was valid on its first day: placeholders  *)
(* are deleted, rows valid on that day end the day before, the new row is  *)
(* inserted.  These are three statements under READ COMMITTED: each sees   *)
(* what is committed when it begins, waits for the rows others have        *)
(* changed, looks at those rows again, and does not see new ones.          *)
(*                                                                         *)
(* A file may be stored first and confirmed later.  A user may also enter a*)
(* cost in the table, which changes the row valid on that day if there is  *)
(* one, and may change the dates of a row.                                 *)
(***************************************************************************)
EXTENDS Naturals, Sequences

CONSTANTS
    Days,           \* number of days
    Keys,           \* vendor code, article, barcode and size as a file writes
                    \* them; several may mean the one SKU
    SkuKey,         \* those of the SKU itself
    NoKey,
    Files,          \* what the uploaded files say of the SKU: sequences of rows
    Patches,        \* kinds and dates that users give to rows
    Uploads,        \* files stored for a confirmation
    NoUpload,
    Transactions,
    MaxRows,        \* bound: rows inserted, those rolled back included
    MaxEdits        \* bound: changes of dates and costs entered in the table

ASSUME KeysAssumption == SkuKey \in Keys /\ NoKey \notin Keys /\ NoUpload \notin Uploads
ASSUME BoundsAssumption == Days \in Nat \ {0} /\ MaxRows \in Nat /\ MaxEdits \in Nat

Day == 1..Days
Open == Days + 1        \* a valid_to that is NULL
Ids == 1..MaxRows

Kinds == {"real", "placeholder"}
FileRow == [kind : Kinds, key : Keys, from : Day, to : Day \cup {Open}]
ASSUME FilesAssumption == \A f \in Files : f \in Seq(FileRow) /\ f # <<>>
\* The day 0 is a valid_from that is NULL.
ASSUME PatchesAssumption == Patches \subseteq [kind : Kinds, from : 0..Days, to : Day \cup {Open}]

VARIABLES
    table,      \* committed rows
    mine,       \* what each transaction has made of which row, and thereby locked
    last,       \* the last id of the sequence
    pc,
    plan,       \* rows of its file a transaction has not come to
    hit,        \* rows its statement has found
    edit,       \* a change of dates: the row, what was read and what is wanted
    source,     \* the stored file a transaction confirms
    upload,     \* stored files: their rows, and whether they count as committed
    confirmed,  \* how often each has been committed
    made,       \* the rows its first commit has left, with their ids
    edits       \* changes of dates and costs entered so far

tx == <<mine, pc, plan, hit, edit, source>>
uploads == <<upload, confirmed, made>>
vars == <<table, tx, last, uploads, edits>>

-----------------------------------------------------------------------------
Row == [kind : Kinds \cup {"none", "same"}, key : Keys \cup {NoKey},
        from : 0..Days, to : 0..Open]

Wanted == {r \in Row : r.kind # "same"}

NoRow == [kind |-> "none", key |-> NoKey, from |-> 0, to |-> 0]
Untouched == [NoRow EXCEPT !.kind = "same"]

NoEdit == [id |-> 0, view |-> NoRow, new |-> NoRow]
NotStored == [rows |-> <<>>, committed |-> FALSE]

Init ==
    /\ table = [i \in Ids |-> NoRow]
    /\ mine = [t \in Transactions |-> [i \in Ids |-> Untouched]]
    /\ last = 0
    /\ pc = [t \in Transactions |-> "idle"]
    /\ plan = [t \in Transactions |-> <<>>]
    /\ hit = [t \in Transactions |-> {}]
    /\ edit = [t \in Transactions |-> NoEdit]
    /\ source = [t \in Transactions |-> NoUpload]
    /\ upload = [u \in Uploads |-> NotStored]
    /\ confirmed = [u \in Uploads |-> 0]
    /\ made = [u \in Uploads |-> {}]
    /\ edits = 0

Touched(t, i) == mine[t][i].kind # "same"
Seen(t, i) == IF Touched(t, i) THEN mine[t][i] ELSE table[i]
Exists(r) == r.kind # "none"

Free(t, i) == \A u \in Transactions \ {t} : ~Touched(u, i)

SameKey(r, s) == Exists(r) /\ Exists(s) /\ r.key = s.key /\ r.from = s.from

\* The next row of the file, and the state after the current one.
Item(t) == Head(plan[t])
FirstStep(rows) == IF rows = <<>> THEN "commit" ELSE "delete"

-----------------------------------------------------------------------------
(* The end of a transaction.                                               *)

Clear(t) ==
    /\ mine' = [mine EXCEPT ![t] = [i \in Ids |-> Untouched]]
    /\ pc' = [pc EXCEPT ![t] = "idle"]
    /\ plan' = [plan EXCEPT ![t] = <<>>]
    /\ hit' = [hit EXCEPT ![t] = {}]
    /\ edit' = [edit EXCEPT ![t] = NoEdit]
    /\ source' = [source EXCEPT ![t] = NoUpload]

\* Rows it has inserted, those it has deleted again included.
Inserted(t) == {i \in Ids : Touched(t, i) /\ ~Exists(table[i])}
Kept(t) == {<<i, mine[t][i]>> : i \in {j \in Inserted(t) : Exists(mine[t][j])}}

\* After the marts and checks have been refreshed.
Commit(t) ==
    /\ pc[t] = "commit"
    /\ table' = [i \in Ids |-> Seen(t, i)]
    /\ IF source[t] = NoUpload
       THEN UNCHANGED uploads
       ELSE LET u == source[t]
            IN /\ upload' = [upload EXCEPT ![u].committed = TRUE]
               /\ confirmed' = [confirmed EXCEPT ![u] = @ + 1]
               /\ made' = IF confirmed[u] = 0 THEN [made EXCEPT ![u] = Kept(t)] ELSE made
    /\ Clear(t)
    /\ UNCHANGED <<last, edits>>

\* An exception: the refresh fails, a deadlock is broken, the process is stopped.
Fails(t) ==
    /\ pc[t] # "idle"
    /\ Clear(t)
    /\ UNCHANGED <<table, last, uploads, edits>>

-----------------------------------------------------------------------------
(* Files.                                                                  *)

\* POST /costs/upload with commit_rows = false.
Store(u) ==
    /\ upload[u] = NotStored
    /\ \E f \in Files : upload' = [upload EXCEPT ![u].rows = f]
    /\ UNCHANGED <<table, tx, last, confirmed, made, edits>>

Confirmable(u) == upload[u].rows # <<>> /\ ~upload[u].committed

\* POST /costs/uploads/{id}/confirm: what is read here decides, whoever commits the
\* same file meanwhile.
Confirm(t, u) ==
    /\ pc[t] = "idle" /\ Confirmable(u)
    /\ plan' = [plan EXCEPT ![t] = upload[u].rows]
    /\ source' = [source EXCEPT ![t] = u]
    /\ pc' = [pc EXCEPT ![t] = "delete"]
    /\ UNCHANGED <<table, mine, hit, edit, last, uploads, edits>>

\* POST /costs/upload with commit_rows = true: the upload is seen by nobody before
\* its rows are committed.
Import(t) ==
    /\ pc[t] = "idle"
    /\ \E f \in Files : plan' = [plan EXCEPT ![t] = f]
    /\ pc' = [pc EXCEPT ![t] = "delete"]
    /\ UNCHANGED <<table, mine, hit, edit, source, last, uploads, edits>>

\* delete_placeholder_rows_for_sku, for a row that is no placeholder itself; its scan.
DeleteScan(t) ==
    /\ pc[t] = "delete"
    /\ hit' = [hit EXCEPT ![t] =
                 IF Item(t).kind = "real"
                 THEN {i \in Ids : Seen(t, i).kind = "placeholder"} ELSE {}]
    /\ pc' = [pc EXCEPT ![t] = "deleting"]
    /\ UNCHANGED <<table, mine, plan, edit, source, last, uploads, edits>>

\* Its rows, when they are free.
Delete(t) ==
    /\ pc[t] = "deleting"
    /\ \A i \in hit[t] : Free(t, i)
    /\ mine' = [mine EXCEPT ![t] = [i \in Ids |->
                  IF i \in hit[t] /\ Seen(t, i).kind = "placeholder" THEN NoRow ELSE @[i]]]
    /\ hit' = [hit EXCEPT ![t] = {}]
    /\ pc' = [pc EXCEPT ![t] = "close"]
    /\ UNCHANGED <<table, plan, edit, source, last, uploads, edits>>

ValidOn(r, day) == Exists(r) /\ r.from <= day /\ day <= r.to

\* Rows that begin later are closed as well.
EndsLater(r, day) == Exists(r) /\ r.to >= day                          \* mutant
Overlaps(r, day) == ValidOn(r, day)

\* close_overlapping_rows, its scan.
CloseScan(t) ==
    /\ pc[t] = "close"
    /\ hit' = [hit EXCEPT ![t] = {i \in Ids : Overlaps(Seen(t, i), Item(t).from)}]
    /\ pc' = [pc EXCEPT ![t] = "closing"]
    /\ UNCHANGED <<table, mine, plan, edit, source, last, uploads, edits>>

ClosedBefore(r, day) == [r EXCEPT !.to = day - 1]

Close(t) ==
    /\ pc[t] = "closing"
    /\ \A i \in hit[t] : Free(t, i)
    /\ mine' = [mine EXCEPT ![t] = [i \in Ids |->
                  IF i \in hit[t] /\ Overlaps(Seen(t, i), Item(t).from)
                  THEN ClosedBefore(Seen(t, i), Item(t).from) ELSE @[i]]]
    /\ hit' = [hit EXCEPT ![t] = {}]
    /\ pc' = [pc EXCEPT ![t] = "insert"]
    /\ UNCHANGED <<table, plan, edit, source, last, uploads, edits>>

\* The unique key (dedupe_key) has the row of an unfinished transaction.
Awaits(t, r) ==
    \E u \in Transactions \ {t}, i \in Ids :
        Touched(u, i) /\ (SameKey(mine[u][i], r) \/ SameKey(table[i], r))

NeverTaken(t, r, self) == FALSE                                        \* mutant
Taken(t, r, self) == \E i \in Ids \ {self} : SameKey(Seen(t, i), r)

Insert(t) ==
    /\ pc[t] = "insert" /\ last < MaxRows
    /\ ~Awaits(t, Item(t)) /\ ~Taken(t, Item(t), 0)
    /\ last' = last + 1
    /\ mine' = [mine EXCEPT ![t][last + 1] = Item(t)]
    /\ plan' = [plan EXCEPT ![t] = Tail(@)]
    /\ pc' = [pc EXCEPT ![t] = FirstStep(plan'[t])]
    /\ UNCHANGED <<table, hit, edit, source, uploads, edits>>

\* The row is left out, the transaction goes on.
SkipItem(t) ==                                                         \* mutant
    /\ plan' = [plan EXCEPT ![t] = IF @ = <<>> THEN @ ELSE Tail(@)]
    /\ pc' = [pc EXCEPT ![t] = FirstStep(plan'[t])]
    /\ UNCHANGED <<mine, hit, edit, source>>
\* The request fails, and what it has closed and deleted comes back.
RollsBack(t) == Clear(t)

\* An IntegrityError.
Collides(t) ==
    /\ pc[t] = "insert"
    /\ ~Awaits(t, Item(t)) /\ Taken(t, Item(t), 0)
    /\ RollsBack(t)
    /\ UNCHANGED <<table, last, uploads, edits>>

-----------------------------------------------------------------------------
(* Users.                                                                  *)

\* The real cost valid on a day: the one that begins last, of those the newest.
Better(r, i, s, j) == r.from < s.from \/ (r.from = s.from /\ i < j)
Real(r, day) == r.kind = "real" /\ ValidOn(r, day)
CostOn(rows, day) ==
    {i \in Ids : /\ Real(rows[i], day)
                 /\ ~\E j \in Ids : Real(rows[j], day) /\ Better(rows[i], i, rows[j], j)}

\* PATCH /costs/{id}: new dates of a row, or another kind (its flag, or the supplier,
\* which decides the flag).
Change(t, i) ==
    /\ pc[t] = "idle" /\ edits < MaxEdits
    /\ Exists(table[i])
    /\ \E p \in Patches :
         edit' = [edit EXCEPT ![t] =
           [id |-> i, view |-> table[i],
            new |-> [table[i] EXCEPT !.kind = p.kind, !.from = p.from, !.to = p.to]]]
    /\ pc' = [pc EXCEPT ![t] = "write"]
    /\ edits' = edits + 1
    /\ UNCHANGED <<table, mine, plan, hit, source, last, uploads>>

\* POST /costs/inline-save of the SKU's cost from a day on: the row valid on that day
\* gets the new cost, and begins on that day if the day was given; a new row if there
\* is none.  (The request is for one row of the SKU; of its at most 200 rows the others
\* are for other SKUs, and one with the id of a cost does what Change does.)
Enter(t) ==
    /\ pc[t] = "idle" /\ edits < MaxEdits
    /\ edits' = edits + 1
    /\ \E day \in Day, given \in BOOLEAN :
         LET now == CostOn(table, day)
         IN \/ /\ now = {}
               /\ plan' = [plan EXCEPT ![t] =
                    <<[kind |-> "real", key |-> SkuKey, from |-> day, to |-> Open]>>]
               /\ pc' = [pc EXCEPT ![t] = "delete"]
               /\ UNCHANGED edit
            \/ \E i \in now :
                 /\ edit' = [edit EXCEPT ![t] =
                      [id |-> i, view |-> table[i],
                       new |-> IF given THEN [table[i] EXCEPT !.from = day] ELSE table[i]]]
                 /\ pc' = [pc EXCEPT ![t] = "write"]
                 /\ UNCHANGED plan
    /\ UNCHANGED <<table, mine, hit, source, last, uploads>>

\* The columns that differ from what was read.
Merged(now, view, new) ==
    [now EXCEPT !.kind = IF new.kind # view.kind THEN new.kind ELSE @,
                !.from = IF new.from # view.from THEN new.from ELSE @,
                !.to = IF new.to # view.to THEN new.to ELSE @]

\* The UPDATE finds the row, and its new key is free.
Write(t) ==
    /\ pc[t] = "write"
    /\ LET i == edit[t].id
           r == Merged(table[i], edit[t].view, edit[t].new)
       IN /\ Free(t, i) /\ Exists(table[i])
          /\ ~Awaits(t, r) /\ ~Taken(t, r, i)
          /\ mine' = [mine EXCEPT ![t][i] = r]
    /\ pc' = [pc EXCEPT ![t] = "commit"]
    /\ UNCHANGED <<table, plan, hit, edit, source, last, uploads, edits>>

\* The row has been deleted, or the key is taken.
WriteFails(t) ==
    /\ pc[t] = "write"
    /\ LET i == edit[t].id
           r == Merged(table[i], edit[t].view, edit[t].new)
       IN /\ Free(t, i)
          /\ ~Exists(table[i]) \/ (~Awaits(t, r) /\ Taken(t, r, i))
    /\ Clear(t)
    /\ UNCHANGED <<table, last, uploads, edits>>

-----------------------------------------------------------------------------
Next ==
    \/ \E u \in Uploads : Store(u)
    \/ \E t \in Transactions :
         \/ Import(t) \/ Enter(t)
         \/ \E u \in Uploads : Confirm(t, u)
         \/ \E i \in Ids : Change(t, i)
         \/ DeleteScan(t) \/ Delete(t) \/ CloseScan(t) \/ Close(t)
         \/ Insert(t) \/ Collides(t)
         \/ Write(t) \/ WriteFails(t)
         \/ Commit(t) \/ Fails(t)

Spec == Init /\ [][Next]_vars

-----------------------------------------------------------------------------
(* Properties.                                                             *)

\* Types; and no row is changed by two unfinished transactions.
TypeOK ==
    /\ table \in [Ids -> Row] /\ mine \in [Transactions -> [Ids -> Row]]
    /\ last \in 0..MaxRows
    /\ \A t, u \in Transactions, i \in Ids : Touched(t, i) /\ Touched(u, i) => t = u
    /\ pc \in [Transactions -> {"idle", "delete", "deleting", "close", "closing",
                                "insert", "write", "commit"}]
    /\ plan \in [Transactions -> Seq(FileRow)] /\ hit \in [Transactions -> SUBSET Ids]
    /\ edit \in [Transactions -> [id : Ids \cup {0}, view : Row, new : Wanted]]
    /\ source \in [Transactions -> Uploads \cup {NoUpload}]
    /\ upload \in [Uploads -> [rows : Seq(FileRow), committed : BOOLEAN]]
    /\ confirmed \in [Uploads -> Nat] /\ made \in [Uploads -> SUBSET (Ids \X Row)]
    /\ edits \in 0..MaxEdits

\* The commit of a file, or of a new row entered in the table.
Imported(t) == edit[t] = NoEdit /\ pc[t] = "commit" /\ pc'[t] = "idle" /\ table' # table
Firsts(t) == {mine[t][i].from : i \in {j \in Inserted(t) : Exists(mine[t][j])}}

\* Which real cost holds is changed by a file of real costs only from its first day on,
\* and only up to the day on which a cost stored for later begins; whatever other
\* transactions have committed between its statements.
NoCollateral ==
    [][\A t \in Transactions :
         Imported(t) /\ Firsts(t) # {} /\ (\A i \in Inserted(t) : mine[t][i].kind = "real") =>
           \A day \in Day :
              CostOn(table', day) = CostOn(table, day)
              \/ /\ \E first \in Firsts(t) : first <= day
                 /\ \A i \in CostOn(table, day) :
                      \E first \in Firsts(t) : table[i].from <= first]_vars

\* A day that has a real cost keeps one when a file is committed whose costs are real
\* and hold until further notice: nothing is closed without its successor.
CoverageKept ==
    [][\A t \in Transactions :
         Imported(t) /\ (\A i \in Inserted(t) : mine[t][i].kind = "real" /\ mine[t][i].to = Open)
         => \A day \in Day : CostOn(table, day) # {} => CostOn(table', day) # {}]_vars

\* A file is committed a second time only if a row of its first commit is gone or has
\* got another first day meanwhile, although the check that it has been confirmed reads
\* what may be outdated.
ConfirmedTwiceOnlyIfGone ==
    [][\A u \in Uploads :
         confirmed[u] > 0 /\ confirmed'[u] > confirmed[u] =>
           \E m \in made[u] : ~SameKey(table'[m[1]], m[2])]_vars
=============================================================================
