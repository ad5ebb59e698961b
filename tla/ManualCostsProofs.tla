-------------------------- MODULE ManualCostsProofs --------------------------
(***************************************************************************)
(* Theorems about the costs of one SKU, for any files, keys, transactions  *)
(* and bounds.                                                             *)
(*                                                                         *)
(* The unique key holds for what is committed and for what any transaction *)
(* sees, and no two of them have written the same key (KeyInv).  A         *)
(* transaction that confirms a file has inserted, when it has come to its  *)
(* end, a row with the key of the file's last row; the first commit has    *)
(* left such a row, too (Confirms, MadeInv): both cannot be there.         *)
(*                                                                         *)
(* What a file of real costs makes of a row that was there is: nothing,    *)
(* its deletion if it is a placeholder, or its end the day before one of   *)
(* the rows it inserts (Replaced).                                         *)
(***************************************************************************)
EXTENDS ManualCosts, SequenceTheorems, WellFoundedInduction, TLAPS

LastOf(rows) == rows[Len(rows)]

KeyInv ==
    /\ \A i \in Ids : table[i].kind # "same"
    /\ \A i, j \in Ids : i # j => ~SameKey(table[i], table[j])
    /\ \A t \in Transactions, i, j \in Ids : i # j => ~SameKey(Seen(t, i), Seen(t, j))
    /\ \A t, u \in Transactions, i, j \in Ids :
         t # u /\ i # j /\ Touched(t, i) /\ Touched(u, j) => ~SameKey(mine[t][i], mine[u][j])

\* Ids are given once.
IdInv ==
    \A i \in Ids : i > last => ~Exists(table[i]) /\ \A t \in Transactions : ~Touched(t, i)

MadeInv ==
    \A u \in Uploads :
        /\ \A m \in made[u] : m[1] <= last
             /\ \A t \in Transactions : Touched(t, m[1]) => Exists(table[m[1]])
        /\ confirmed[u] > 0 =>
             upload[u].rows # <<>> /\ \E m \in made[u] : SameKey(m[2], LastOf(upload[u].rows))

Working == {"delete", "deleting", "close", "closing", "insert"}

Control(t) ==
    /\ pc[t] \in {"idle", "write"} =>
         source[t] = NoUpload /\ \A i \in Ids : ~Touched(t, i)
    /\ pc[t] = "idle" => edit[t] = NoEdit
    /\ pc[t] = "write" => edit[t].id \in Ids
    /\ pc[t] \in Working => plan[t] # <<>> /\ edit[t] = NoEdit
    /\ pc[t] \notin Working => plan[t] = <<>>
    /\ edit[t] # NoEdit => source[t] = NoUpload

Confirms(t) ==
    source[t] # NoUpload =>
        LET rows == upload[source[t]].rows
        IN /\ rows # <<>>
           /\ plan[t] # <<>> => LastOf(plan[t]) = LastOf(rows)
           /\ plan[t] = <<>> => \E i \in Inserted(t) : SameKey(mine[t][i], LastOf(rows))

AllReal(t) == \A i \in Inserted(t) : mine[t][i].kind = "real"
Ends(t) == Firsts(t) \cup (IF pc[t] = "insert" THEN {Item(t).from} ELSE {})

Replaced(t, i) ==
    \/ mine[t][i] = NoRow /\ table[i].kind = "placeholder"
    \/ \E day \in Ends(t) : /\ mine[t][i] = ClosedBefore(table[i], day)
                            /\ table[i].from <= day /\ day <= table[i].to

Replaces(t) ==
    edit[t] = NoEdit /\ AllReal(t) =>
        \A i \in Ids : Touched(t, i) /\ Exists(table[i]) => Replaced(t, i)

Good(t) == Control(t) /\ Confirms(t) /\ Replaces(t)

IInv ==
    /\ TypeOK /\ KeyInv /\ IdInv /\ MadeInv
    /\ \A t \in Transactions : Good(t)

-----------------------------------------------------------------------------
(* Rows and files.                                                         *)

LEMMA RowTypes ==
    /\ NoRow \in Row /\ Untouched \in Row /\ Untouched.kind = "same"
    /\ ~Exists(NoRow) /\ NoRow.kind # "same" /\ NoEdit.id = 0
    /\ NoEdit \in [id : Ids \cup {0}, view : Row, new : Wanted]
    /\ Wanted \subseteq Row /\ \A r \in Wanted : r.kind # "same"
    /\ FileRow \subseteq Row
    /\ \A r \in FileRow : Exists(r) /\ r.kind # "same" /\ r.from \in Day /\ r.key \in Keys
BY BoundsAssumption DEF NoRow, Untouched, NoEdit, Row, Wanted, FileRow, Exists, Day, Open, Kinds

LEMMA ClosedType ==
    ASSUME NEW r \in Row, NEW day \in Day
    PROVE  /\ ClosedBefore(r, day) \in Row
           /\ ClosedBefore(r, day).kind = r.kind /\ ClosedBefore(r, day).key = r.key
           /\ ClosedBefore(r, day).from = r.from /\ ClosedBefore(r, day).to = day - 1
BY BoundsAssumption DEF ClosedBefore, Row, Day, Open

LEMMA MergedType ==
    ASSUME NEW now \in Row, NEW view \in Row, NEW new \in Row
    PROVE  /\ Merged(now, view, new) \in Row
           /\ Merged(now, view, new).kind \in {now.kind, new.kind}
BY DEF Merged, Row

LEMMA DatedType ==
    ASSUME NEW r \in Row, NEW from \in Day
    PROVE  [r EXCEPT !.from = from] \in Row
<1>1. from \in 0..Days
  BY BoundsAssumption DEF Day
<1> QED BY <1>1 DEF Row

LEMMA FileFacts ==
    ASSUME NEW s \in Seq(FileRow), s # <<>>
    PROVE  /\ Head(s) \in FileRow /\ Tail(s) \in Seq(FileRow)
           /\ Tail(s) # <<>> => LastOf(Tail(s)) = LastOf(s)
           /\ Tail(s) = <<>> => LastOf(s) = Head(s)
<1>1. /\ Head(s) \in FileRow /\ Tail(s) \in Seq(FileRow) /\ Len(Tail(s)) = Len(s) - 1
      /\ \A n \in 1..Len(Tail(s)) : Tail(s)[n] = s[n + 1]
  BY HeadTailProperties
<1>2. Len(s) \in Nat \ {0}
  BY EmptySeq
<1>3. Head(s) = s[1]
  OBVIOUS
<1>4. Tail(s) # <<>> => Len(Tail(s)) \in Nat \ {0}
  BY <1>1, EmptySeq
<1>5. Tail(s) = <<>> => Len(Tail(s)) = 0
  BY EmptySeq
<1>6. Tail(s) # <<>> => Tail(s)[Len(Tail(s))] = s[Len(s)]
  BY <1>1, <1>2, <1>4
<1> QED BY <1>1, <1>2, <1>3, <1>5, <1>6 DEF LastOf

LEMMA Least == ASSUME NEW S, S \subseteq Nat, S # {} PROVE \E x \in S : \A y \in S : x <= y
<1> DEFINE R == OpToRel(<, Nat)
<1>1. IsWellFoundedOn(R, Nat)
  BY NatLessThanWellFounded
<1>2. \A x, y \in Nat : x < y => <<x, y>> \in R
  BY DEF OpToRel
<1> HIDE DEF R
<1>3. PICK x \in S : \A y \in S : ~(<<y, x>> \in R)
  BY <1>1, WFMin
<1>4. ASSUME NEW y \in S PROVE x <= y
  <2>1. x \in Nat /\ y \in Nat /\ ~(y < x)
    BY <1>2, <1>3
  <2> QED BY <2>1
<1> QED BY <1>4

\* Of the real rows valid on a day, one is the best.
LEMMA SomeCost ==
    ASSUME NEW rows \in [Ids -> Row], NEW day \in Day, NEW i \in Ids, Real(rows[i], day)
    PROVE  CostOn(rows, day) # {}
<1> DEFINE R == {j \in Ids : Real(rows[j], day)}
           S == {Days - rows[j].from : j \in R}
<1>1. \A j \in R : rows[j].from \in 0..Days /\ j \in 1..MaxRows
  BY DEF Row, Ids
<1>2. S \subseteq Nat /\ S # {}
  BY <1>1, BoundsAssumption
<1> HIDE DEF S
<1>3. PICK x \in S : \A y \in S : x <= y
  BY <1>2, Least
<1>4. PICK a \in R : x = Days - rows[a].from
  BY DEF S
<1>5. \A j \in R : rows[j].from <= rows[a].from
  <2> TAKE j \in R
  <2>1. Days - rows[a].from <= Days - rows[j].from
    BY <1>3, <1>4 DEF S
  <2> QED BY <1>1, <2>1, BoundsAssumption
<1> DEFINE T == {MaxRows - j : j \in {k \in R : rows[k].from = rows[a].from}}
<1>6. T \subseteq Nat /\ T # {}
  BY <1>1, BoundsAssumption
<1> HIDE DEF T
<1>7. PICK z \in T : \A y \in T : z <= y
  BY <1>6, Least
<1>8. PICK b \in R : z = MaxRows - b /\ rows[b].from = rows[a].from
  BY DEF T
<1>9. \A j \in R : ~Better(rows[b], b, rows[j], j)
  <2> TAKE j \in R
  <2>1. CASE rows[j].from = rows[a].from
    <3>1. MaxRows - b <= MaxRows - j
      BY <1>7, <1>8, <2>1 DEF T
    <3> QED BY <1>1, <1>8, <2>1, <3>1, BoundsAssumption DEF Better
  <2>2. CASE rows[j].from # rows[a].from
    BY <1>1, <1>5, <1>8, <2>2, BoundsAssumption DEF Better
  <2> QED BY <2>1, <2>2
<1>10. b \in CostOn(rows, day)
  BY <1>9 DEF CostOn
<1> QED BY <1>10

-----------------------------------------------------------------------------
(* What steps leave alone.                                                 *)

LEMMA OthersKeep ==
    ASSUME NEW t \in Transactions, Good(t),
           mine'[t] = mine[t], pc'[t] = pc[t], plan'[t] = plan[t],
           source'[t] = source[t], edit'[t] = edit[t],
           \A i \in Ids : Touched(t, i) => table'[i] = table[i],
           source[t] # NoUpload => upload'[source[t]].rows = upload[source[t]].rows
    PROVE  Good(t)'
<1>1. \A i \in Ids : Touched(t, i)' <=> Touched(t, i)
  BY DEF Touched
<1>2. Inserted(t)' = Inserted(t)
  BY <1>1 DEF Inserted
<1>3. Control(t)'
  BY <1>1 DEF Good, Control
<1>4. Confirms(t)'
  BY <1>2 DEF Good, Confirms
<1>5. Firsts(t)' = Firsts(t)
  BY <1>2 DEF Firsts
<1>6. Ends(t)' = Ends(t)
  BY <1>5 DEF Ends, Item
<1>7. Replaces(t)'
  <2> SUFFICES ASSUME edit[t] = NoEdit, AllReal(t)', NEW i \in Ids, Touched(t, i), Exists(table'[i])
               PROVE  Replaced(t, i)'
    BY <1>1 DEF Replaces
  <2>1. AllReal(t) /\ table'[i] = table[i]
    BY <1>2 DEF AllReal
  <2> QED BY <1>6, <2>1 DEF Good, Replaces, Replaced
<1> QED BY <1>3, <1>4, <1>7 DEF Good

\* Rows and locks as they were.
LEMMA RowsKeep ==
    ASSUME IInv, table' = table, mine' = mine, last' = last
    PROVE  /\ KeyInv' /\ IdInv'
           /\ (upload' = upload /\ confirmed' = confirmed /\ made' = made) => MadeInv'
           /\ \A i \in Ids, t \in Transactions : Touched(t, i)' <=> Touched(t, i)
BY DEF IInv, KeyInv, IdInv, MadeInv, Touched, Seen

\* A transaction that gives its locks back without a commit.
LEMMA ClearKeeps ==
    ASSUME IInv, NEW a \in Transactions, Clear(a), UNCHANGED <<table, last, uploads, edits>>
    PROVE  IInv'
<1>1. /\ \A i \in Ids : ~Touched(a, i)' /\ Seen(a, i)' = table[i]
      /\ \A t \in Transactions \ {a} : mine'[t] = mine[t]
      /\ \A t \in Transactions \ {a}, i \in Ids :
           (Touched(t, i)' <=> Touched(t, i)) /\ Seen(t, i)' = Seen(t, i)
  BY RowTypes DEF IInv, TypeOK, Clear, Touched, Seen
<1>2. TypeOK'
  BY <1>1, RowTypes DEF IInv, TypeOK, Clear, uploads, Touched
<1>3. KeyInv'
  <2>1. \A t \in Transactions, i, j \in Ids : i # j => ~SameKey(Seen(t, i), Seen(t, j))'
    BY <1>1 DEF IInv, KeyInv, SameKey, Exists
  <2>2. \A t, u \in Transactions, i, j \in Ids :
          t # u /\ i # j /\ Touched(t, i)' /\ Touched(u, j)' => ~SameKey(mine'[t][i], mine'[u][j])
    BY <1>1 DEF IInv, KeyInv
  <2> QED BY <2>1, <2>2 DEF IInv, KeyInv
<1>4. IdInv' /\ MadeInv'
  <2>1. \A i \in Ids, t \in Transactions : Touched(t, i)' => Touched(t, i)
    BY <1>1
  <2>2. \A u \in Uploads : \A m \in made[u] : m[1] \in Ids
    BY DEF IInv, TypeOK
  <2>3. MadeInv'
    BY <2>1, <2>2 DEF IInv, MadeInv, uploads
  <2> QED BY <2>1, <2>3 DEF IInv, IdInv
<1>5. Good(a)'
  BY <1>1 DEF IInv, TypeOK, Clear, Good, Control, Confirms, Replaces, Working
<1>6. ASSUME NEW t \in Transactions \ {a} PROVE Good(t)'
  BY <1>6, OthersKeep DEF IInv, TypeOK, Clear, uploads
<1> QED BY <1>2, <1>3, <1>4, <1>5, <1>6 DEF IInv

\* A step of one transaction that only reads.
LEMMA ReadKeeps ==
    ASSUME IInv, NEW a \in Transactions,
           UNCHANGED <<table, mine, last, uploads>>, TypeOK', Good(a)',
           \A t \in Transactions \ {a} : /\ pc'[t] = pc[t] /\ plan'[t] = plan[t]
                                        /\ source'[t] = source[t] /\ edit'[t] = edit[t]
    PROVE  IInv'
<1>1. KeyInv' /\ IdInv' /\ MadeInv'
  BY RowsKeep DEF uploads
<1>2. ASSUME NEW t \in Transactions \ {a} PROVE Good(t)'
  BY <1>2, OthersKeep DEF IInv, uploads
<1> QED BY <1>1, <1>2 DEF IInv

-----------------------------------------------------------------------------
(* The steps.                                                              *)

LEMMA InitHolds == Init => IInv
<1> SUFFICES ASSUME Init PROVE IInv
  OBVIOUS
<1>1. /\ \A i \in Ids : table[i] = NoRow
      /\ \A t \in Transactions, i \in Ids : ~Touched(t, i) /\ Seen(t, i) = NoRow
  BY RowTypes DEF Init, Touched, Seen
<1>2. TypeOK
  <2>1. NotStored \in [rows : Seq(FileRow), committed : BOOLEAN] /\ <<>> \in Seq(FileRow)
    BY EmptySeq DEF NotStored
  <2> QED BY <1>1, <2>1, RowTypes, BoundsAssumption DEF Init, TypeOK
<1>3. KeyInv
  BY <1>1, RowTypes DEF KeyInv, SameKey
<1>4. IdInv /\ MadeInv
  BY <1>1, RowTypes DEF IdInv, MadeInv, Init
<1>5. ASSUME NEW t \in Transactions PROVE Good(t)
  BY <1>1 DEF Init, Good, Control, Confirms, Replaces, Working
<1> QED BY <1>2, <1>3, <1>4, <1>5 DEF IInv

LEMMA StoreKeeps == ASSUME IInv, NEW u \in Uploads, Store(u) PROVE IInv'
<1>1. PICK f \in Files : upload' = [upload EXCEPT ![u].rows = f]
  BY DEF Store
<1>2. f \in Seq(FileRow) /\ upload[u].rows = <<>> /\ UNCHANGED <<table, tx, last, confirmed, made, edits>>
  BY FilesAssumption DEF Store, NotStored
<1>3. TypeOK'
  BY <1>1, <1>2 DEF IInv, TypeOK, tx, Touched
<1>4. \A w \in Uploads : upload[w].rows # <<>> => upload'[w].rows = upload[w].rows
  BY <1>1, <1>2 DEF IInv, TypeOK
<1>5. KeyInv' /\ IdInv' /\ \A i \in Ids, t \in Transactions : Touched(t, i)' <=> Touched(t, i)
  BY <1>2, RowsKeep DEF tx
<1>6. MadeInv'
  BY <1>2, <1>4, <1>5 DEF IInv, TypeOK, MadeInv
<1>7. ASSUME NEW t \in Transactions PROVE Good(t)'
  <2>1. source[t] # NoUpload => upload[source[t]].rows # <<>> /\ source[t] \in Uploads
    BY DEF IInv, TypeOK, Good, Confirms
  <2>2. source[t] # NoUpload => upload'[source[t]].rows = upload[source[t]].rows
    BY <1>4, <2>1
  <2>3. Good(t) /\ UNCHANGED <<mine, pc, plan, source, edit, table>>
    BY <1>2 DEF IInv, tx
  <2> QED BY <2>2, <2>3, OthersKeep
<1> QED BY <1>3, <1>5, <1>6, <1>7 DEF IInv

LEMMA ConfirmKeeps ==
    ASSUME IInv, NEW a \in Transactions, NEW u \in Uploads, Confirm(a, u) PROVE IInv'
<1>1. /\ upload[u].rows \in Seq(FileRow) /\ upload[u].rows # <<>> /\ pc[a] = "idle"
      /\ plan'[a] = upload[u].rows /\ source'[a] = u /\ pc'[a] = "delete" /\ edit' = edit
      /\ UNCHANGED <<table, mine, last, upload>>
  BY DEF IInv, TypeOK, Confirm, Confirmable, uploads
<1>2. TypeOK'
  BY <1>1 DEF IInv, TypeOK, Confirm, uploads, Touched
<1>3. edit[a] = NoEdit /\ \A i \in Ids : ~Touched(a, i)'
  BY <1>1 DEF IInv, Good, Control, Touched
<1>4. Good(a)'
  BY <1>1, <1>3 DEF Good, Control, Confirms, Replaces, Working
<1> QED BY <1>2, <1>4, ReadKeeps DEF IInv, TypeOK, Confirm

LEMMA ImportKeeps == ASSUME IInv, NEW a \in Transactions, Import(a) PROVE IInv'
<1>1. PICK f \in Files : plan' = [plan EXCEPT ![a] = f]
  BY DEF Import
<1>2. /\ f \in Seq(FileRow) /\ f # <<>> /\ pc[a] = "idle" /\ plan'[a] = f
      /\ pc'[a] = "delete" /\ UNCHANGED <<table, mine, last, edit, source>>
  BY <1>1, FilesAssumption DEF IInv, TypeOK, Import
<1>3. TypeOK'
  BY <1>1, <1>2 DEF IInv, TypeOK, Import, uploads, Touched
<1>4. edit[a] = NoEdit /\ source[a] = NoUpload /\ \A i \in Ids : ~Touched(a, i)'
  BY <1>2 DEF IInv, Good, Control, Touched
<1>5. Good(a)'
  BY <1>2, <1>4 DEF Good, Control, Confirms, Replaces, Working
<1> QED BY <1>1, <1>3, <1>5, ReadKeeps DEF IInv, TypeOK, Import

LEMMA ScanKeeps ==
    ASSUME IInv, NEW a \in Transactions, DeleteScan(a) \/ CloseScan(a) PROVE IInv'
<1>1. PICK found \in SUBSET Ids, next \in Working \ {"insert"} :
          /\ pc[a] \in Working /\ pc[a] # "insert"
          /\ hit' = [hit EXCEPT ![a] = found] /\ pc' = [pc EXCEPT ![a] = next]
          /\ UNCHANGED <<table, mine, plan, edit, source, last, uploads, edits>>
  <2>1. CASE DeleteScan(a)
    <3> DEFINE found == IF Item(a).kind = "real"
                        THEN {i \in Ids : Seen(a, i).kind = "placeholder"} ELSE {}
    <3>1. found \in SUBSET Ids
      OBVIOUS
    <3>2. hit' = [hit EXCEPT ![a] = found]
      BY <2>1 DEF DeleteScan
    <3> QED BY <2>1, <3>1, <3>2 DEF DeleteScan, Working
  <2>2. CASE CloseScan(a)
    <3> DEFINE found == {i \in Ids : Overlaps(Seen(a, i), Item(a).from)}
    <3>1. found \in SUBSET Ids
      OBVIOUS
    <3>2. hit' = [hit EXCEPT ![a] = found]
      BY <2>2 DEF CloseScan
    <3> QED BY <2>2, <3>1, <3>2 DEF CloseScan, Working
  <2> QED BY <2>1, <2>2
<1>2. TypeOK'
  BY <1>1 DEF IInv, TypeOK, Working, uploads, Touched
<1>3. Good(a)'
  <2> pc'[a] \in Working /\ pc'[a] # "insert"
    BY <1>1 DEF IInv, TypeOK
  <2>1. \A i \in Ids : Touched(a, i)' <=> Touched(a, i)
    BY <1>1, RowsKeep
  <2>2. Inserted(a)' = Inserted(a)
    BY <1>1, <2>1 DEF Inserted
  <2>3. Control(a)' /\ Confirms(a)'
    BY <1>1, <2>1, <2>2 DEF IInv, Good, Control, Confirms, Working, uploads
  <2>4. Ends(a)' = Ends(a)
    BY <1>1, <2>2 DEF Ends, Firsts
  <2>5. Replaces(a)'
    BY <1>1, <2>1, <2>2, <2>4 DEF IInv, Good, Replaces, AllReal, Replaced
  <2> QED BY <2>3, <2>5 DEF Good
<1> QED BY <1>1, <1>2, <1>3, ReadKeeps DEF IInv, TypeOK

LEMMA EditKeeps ==
    ASSUME IInv, NEW a \in Transactions, NEW i \in Ids, NEW r \in Wanted,
           pc[a] = "idle", edits < MaxEdits, edits' = edits + 1,
           edit' = [edit EXCEPT ![a] = [id |-> i, view |-> table[i], new |-> r]],
           pc' = [pc EXCEPT ![a] = "write"],
           UNCHANGED <<table, mine, plan, hit, source, last, uploads>>
    PROVE  IInv'
<1>1. TypeOK'
  BY BoundsAssumption DEF IInv, TypeOK, uploads, Touched
<1>2. /\ \A j \in Ids : ~Touched(a, j)'
      /\ source[a] = NoUpload /\ plan[a] = <<>>
  BY DEF IInv, Good, Control, Touched, Working
<1>3. pc'[a] = "write" /\ edit'[a].id = i
  BY DEF IInv, TypeOK
<1>4. Good(a)'
  BY <1>2, <1>3 DEF Good, Control, Confirms, Replaces, Working
<1> QED BY <1>1, <1>4, ReadKeeps DEF IInv, TypeOK

LEMMA ChangeKeeps ==
    ASSUME IInv, NEW a \in Transactions, NEW i \in Ids, Change(a, i) PROVE IInv'
<1>1. PICK p \in Patches :
        edit' = [edit EXCEPT ![a] =
          [id |-> i, view |-> table[i],
           new |-> [table[i] EXCEPT !.kind = p.kind, !.from = p.from, !.to = p.to]]]
  BY DEF Change
<1>2. p.kind \in Kinds /\ p.from \in 0..Days /\ p.to \in 0..Open
  BY PatchesAssumption, BoundsAssumption DEF Day, Open
<1> DEFINE r == [table[i] EXCEPT !.kind = p.kind, !.from = p.from, !.to = p.to]
<1>3. r \in Wanted
  <2>1. table[i] \in Row
    BY DEF IInv, TypeOK
  <2>2. r \in Row
    BY <1>2, <2>1 DEF Row
  <2>3. r.kind = p.kind
    BY <2>1 DEF Row
  <2> QED BY <1>2, <2>2, <2>3 DEF Wanted, Kinds
<1>4. edit' = [edit EXCEPT ![a] = [id |-> i, view |-> table[i], new |-> r]]
  BY <1>1
<1> HIDE DEF r
<1> QED BY <1>3, <1>4, EditKeeps DEF Change

LEMMA EnterKeeps == ASSUME IInv, NEW a \in Transactions, Enter(a) PROVE IInv'
<1> DEFINE Opens(day) ==
      /\ plan' = [plan EXCEPT ![a] =
                    <<[kind |-> "real", key |-> SkuKey, from |-> day, to |-> Open]>>]
      /\ pc' = [pc EXCEPT ![a] = "delete"]
      /\ UNCHANGED edit
    New(i, day, given) == IF given THEN [table[i] EXCEPT !.from = day] ELSE table[i]
    Alters(i, day, given) ==
      /\ edit' = [edit EXCEPT ![a] = [id |-> i, view |-> table[i], new |-> New(i, day, given)]]
      /\ pc' = [pc EXCEPT ![a] = "write"]
      /\ UNCHANGED plan
<1>1. /\ pc[a] = "idle" /\ edits < MaxEdits /\ edits' = edits + 1
      /\ UNCHANGED <<table, mine, hit, source, last, uploads>>
  BY DEF Enter
<1>2. PICK day \in Day, given \in BOOLEAN :
          Opens(day) \/ \E i \in Ids : table[i].kind = "real" /\ Alters(i, day, given)
  BY DEF Enter, CostOn, Real
<1>3. CASE Opens(day)
  <2> DEFINE s == <<[kind |-> "real", key |-> SkuKey, from |-> day, to |-> Open]>>
  <2>1. s \in Seq(FileRow) /\ s # <<>>
    BY KeysAssumption DEF FileRow, Kinds
  <2>2. plan' = [plan EXCEPT ![a] = s]
    BY <1>3
  <2> HIDE DEF s
  <2>3. TypeOK'
    BY <1>1, <1>3, <2>1, <2>2, BoundsAssumption DEF IInv, TypeOK, uploads, Touched
  <2>4. /\ edit'[a] = NoEdit /\ source'[a] = NoUpload /\ \A i \in Ids : ~Touched(a, i)'
        /\ pc'[a] = "delete" /\ plan'[a] # <<>>
    BY <1>1, <1>3, <2>1, <2>2 DEF IInv, TypeOK, Good, Control, Touched
  <2>5. Good(a)'
    BY <2>4 DEF Good, Control, Confirms, Replaces, Working
  <2> QED BY <1>1, <1>3, <2>2, <2>3, <2>5, ReadKeeps DEF IInv, TypeOK
<1>4. ASSUME NEW i \in Ids, table[i].kind = "real", Alters(i, day, given) PROVE IInv'
  <2>1. New(i, day, given) \in Wanted
    <3>1. table[i] \in Row
      BY DEF IInv, TypeOK
    <3>2. [table[i] EXCEPT !.from = day] \in Row
      BY <3>1, DatedType
    <3>3. [table[i] EXCEPT !.from = day].kind = "real"
      BY <1>4, <3>1 DEF Row
    <3> QED BY <1>4, <3>1, <3>2, <3>3 DEF Wanted
  <2> QED BY <1>1, <1>4, <2>1, EditKeeps
<1> QED BY <1>2, <1>3, <1>4

-----------------------------------------------------------------------------
(* Steps that write rows.                                                  *)

\* What a transaction makes of rows: those it touches are its own, it gives no row a
\* key that it has not had, and takes none away from others.
LEMMA WriteRows ==
    ASSUME IInv, NEW a \in Transactions, NEW next \in [Ids -> Row],
           mine' = [mine EXCEPT ![a] = next], UNCHANGED <<table, last>>,
           \A i \in Ids : next[i] = mine[a][i] \/ (Free(a, i) /\ next[i].kind # "same"),
           \A i, j \in Ids : i # j =>
              /\ ~SameKey(Seen(a, i)', Seen(a, j)')
              /\ \A u \in Transactions \ {a} :
                   (Touched(u, j) /\ next[i].kind # "same") => ~SameKey(next[i], mine[u][j]),
           \A i \in Ids : i > last => ~Touched(a, i)'
    PROVE  /\ KeyInv' /\ IdInv'
           /\ mine' \in [Transactions -> [Ids -> Row]]
           /\ \A t, u \in Transactions, i \in Ids : Touched(t, i)' /\ Touched(u, i)' => t = u
<1>1. /\ mine'[a] = next /\ \A i \in Ids : Touched(a, i)' <=> next[i].kind # "same"
      /\ \A t \in Transactions \ {a} : mine'[t] = mine[t]
      /\ \A t \in Transactions \ {a}, i \in Ids :
           (Touched(t, i)' <=> Touched(t, i)) /\ Seen(t, i)' = Seen(t, i)
  BY DEF IInv, TypeOK, Touched, Seen
<1>2. \A t, u \in Transactions, i \in Ids : Touched(t, i)' /\ Touched(u, i)' => t = u
  <2>1. \A t, u \in Transactions, i \in Ids : Touched(t, i) /\ Touched(u, i) => t = u
    BY DEF IInv, TypeOK
  <2>2. ASSUME NEW u \in Transactions \ {a}, NEW i \in Ids, next[i].kind # "same"
        PROVE  ~Touched(u, i)
    <3>1. CASE next[i] = mine[a][i]
      BY <2>1, <2>2, <3>1 DEF Touched
    <3>2. CASE Free(a, i)
      BY <2>2, <3>2 DEF Free
    <3> QED BY <3>1, <3>2
  <2> QED BY <1>1, <2>1, <2>2
<1>3. IdInv'
  BY <1>1 DEF IInv, IdInv
<1>4. KeyInv'
  <2>1. \A t \in Transactions, i, j \in Ids : i # j => ~SameKey(Seen(t, i), Seen(t, j))'
    <3> TAKE t \in Transactions, i, j \in Ids
    <3>1. CASE t = a
      BY <3>1 DEF SameKey
    <3>2. CASE t # a
      BY <1>1, <3>2 DEF IInv, KeyInv, SameKey
    <3> QED BY <3>1, <3>2
  <2>2. \A t, u \in Transactions, i, j \in Ids :
          t # u /\ i # j /\ Touched(t, i)' /\ Touched(u, j)' => ~SameKey(mine'[t][i], mine'[u][j])
    BY <1>1 DEF IInv, KeyInv, SameKey
  <2> QED BY <2>1, <2>2 DEF IInv, KeyInv
<1> QED BY <1>1, <1>2, <1>3, <1>4 DEF IInv, TypeOK

\* The same for a statement that deletes or closes rows it sees.
LEMMA StatementRows ==
    ASSUME IInv, NEW a \in Transactions, NEW next \in [Ids -> Row],
           mine' = [mine EXCEPT ![a] = next], UNCHANGED <<table, last>>,
           \A i \in Ids :
              \/ next[i] = mine[a][i]
              \/ /\ Free(a, i) /\ Exists(Seen(a, i)) /\ next[i].kind # "same"
                 /\ Exists(next[i]) =>
                      next[i].key = Seen(a, i).key /\ next[i].from = Seen(a, i).from
    PROVE  /\ KeyInv' /\ IdInv'
           /\ mine' \in [Transactions -> [Ids -> Row]]
           /\ \A t, u \in Transactions, i \in Ids : Touched(t, i)' /\ Touched(u, i)' => t = u
           /\ \A i \in Ids : Touched(a, i)' => Touched(a, i) \/ Exists(table[i])
<1>1. mine'[a] = next
  BY DEF IInv, TypeOK
<1>2. \A i \in Ids : next[i] # mine[a][i] =>
        /\ Free(a, i) /\ Exists(Seen(a, i)) /\ next[i].kind # "same"
        /\ Exists(next[i]) => next[i].key = Seen(a, i).key /\ next[i].from = Seen(a, i).from
  OBVIOUS
<1>3. \A i \in Ids : Seen(a, i)' = IF next[i].kind # "same" THEN next[i] ELSE table[i]
  BY <1>1 DEF Seen, Touched
<1>4. \A i \in Ids : Exists(Seen(a, i)') =>
        /\ Exists(Seen(a, i))
        /\ Seen(a, i)'.key = Seen(a, i).key /\ Seen(a, i)'.from = Seen(a, i).from
  BY <1>2, <1>3 DEF Seen, Touched
<1>5. \A i, j \in Ids : i # j => ~SameKey(Seen(a, i)', Seen(a, j)')
  BY <1>4 DEF IInv, KeyInv, SameKey
<1>6. ASSUME NEW i \in Ids, NEW j \in Ids, i # j, NEW u \in Transactions \ {a},
             Touched(u, j), next[i].kind # "same"
      PROVE  ~SameKey(next[i], mine[u][j])
  <2>1. CASE Touched(a, i)
    <3>1. ~SameKey(mine[a][i], mine[u][j])
      BY <1>6, <2>1 DEF IInv, KeyInv
    <3> QED BY <1>2, <2>1, <3>1 DEF SameKey, Seen
  <2>2. CASE ~Touched(a, i)
    <3>1. Free(a, i) /\ Seen(a, i) = table[i]
      BY <1>2, <1>6, <2>2 DEF Touched, Seen
    <3>2. Seen(u, i) = table[i] /\ Seen(u, j) = mine[u][j]
      BY <1>6, <3>1 DEF Free, Seen
    <3>3. ~SameKey(table[i], mine[u][j])
      BY <1>6, <3>2 DEF IInv, KeyInv
    <3> QED BY <1>2, <1>6, <2>2, <3>1, <3>3 DEF SameKey, Touched
  <2> QED BY <2>1, <2>2
<1>7. \A i \in Ids : i > last => ~Touched(a, i)'
  BY <1>1, <1>2 DEF IInv, IdInv, Seen, Touched
<1>8. \A i \in Ids : Touched(a, i)' => Touched(a, i) \/ Exists(table[i])
  BY <1>1, <1>2 DEF Seen, Touched
<1>9. \A i \in Ids : next[i] = mine[a][i] \/ (Free(a, i) /\ next[i].kind # "same")
  BY <1>2
<1> QED BY <1>5, <1>6, <1>7, <1>8, <1>9, WriteRows

\* Rows a step of a newly touches are there; others have nothing to do with it.
LEMMA OthersStay ==
    ASSUME IInv, NEW a \in Transactions, UNCHANGED <<table, uploads>>, last' >= last,
           \A t \in Transactions \ {a} : /\ mine'[t] = mine[t] /\ pc'[t] = pc[t]
                                        /\ plan'[t] = plan[t] /\ source'[t] = source[t]
                                        /\ edit'[t] = edit[t],
           \A i \in Ids : Touched(a, i)' => Touched(a, i) \/ Exists(table[i]) \/ i > last,
           last' \in Nat
    PROVE  MadeInv' /\ \A t \in Transactions \ {a} : Good(t)'
<1>1. \A u \in Uploads : \A m \in made[u] : m[1] \in Ids /\ m[1] <= last
  BY DEF IInv, TypeOK, MadeInv
<1>2. last \in Nat /\ Ids \subseteq Nat
  BY DEF IInv, TypeOK, Ids
<1>3. ASSUME NEW u \in Uploads, NEW m \in made[u], NEW t \in Transactions, Touched(t, m[1])'
      PROVE  Exists(table[m[1]])
  <2>1. ~(m[1] > last)
    <3>1. m[1] \in Ids /\ m[1] <= last
      BY <1>1
    <3>2. m[1] \in Nat
      BY <1>2, <3>1
    <3> QED BY <1>2, <3>1, <3>2
  <2>2. CASE t = a
    BY <1>1, <1>3, <2>1, <2>2 DEF IInv, MadeInv
  <2>3. CASE t # a
    BY <1>1, <1>3, <2>3 DEF IInv, MadeInv, Touched
  <2> QED BY <2>2, <2>3
<1>4. \A u \in Uploads : \A m \in made[u] : m[1] <= last'
  BY <1>1, <1>2
<1>5. MadeInv'
  BY <1>3, <1>4 DEF IInv, MadeInv, uploads
<1>6. ASSUME NEW t \in Transactions \ {a} PROVE Good(t)'
  BY <1>6, OthersKeep DEF IInv, uploads
<1> QED BY <1>5, <1>6

LEMMA DeleteKeeps == ASSUME IInv, NEW a \in Transactions, Delete(a) PROVE IInv'
<1> DEFINE next == [i \in Ids |-> IF i \in hit[a] /\ Seen(a, i).kind = "placeholder"
                                THEN NoRow ELSE mine[a][i]]
<1>1. /\ pc[a] = "deleting" /\ \A i \in hit[a] : Free(a, i)
      /\ mine' = [mine EXCEPT ![a] = next]
      /\ hit' = [hit EXCEPT ![a] = {}] /\ pc' = [pc EXCEPT ![a] = "close"]
      /\ UNCHANGED <<table, plan, edit, source, last, uploads, edits>>
  BY DEF IInv, TypeOK, Delete
<1>2. next \in [Ids -> Row]
  BY RowTypes DEF IInv, TypeOK
<1>3. \A i \in Ids :
        \/ next[i] = mine[a][i]
        \/ /\ Free(a, i) /\ Seen(a, i).kind = "placeholder" /\ next[i] = NoRow
           /\ Exists(Seen(a, i)) /\ next[i].kind # "same" /\ ~Exists(next[i])
  BY <1>1, RowTypes DEF Exists
<1> HIDE DEF next
<1>4. /\ KeyInv' /\ IdInv' /\ mine' \in [Transactions -> [Ids -> Row]]
      /\ \A t, u \in Transactions, i \in Ids : Touched(t, i)' /\ Touched(u, i)' => t = u
      /\ \A i \in Ids : Touched(a, i)' => Touched(a, i) \/ Exists(table[i])
  BY <1>1, <1>2, <1>3, StatementRows
<1>5. TypeOK'
  BY <1>1, <1>4 DEF IInv, TypeOK, uploads
<1>6. MadeInv' /\ \A t \in Transactions \ {a} : Good(t)'
  BY <1>1, <1>4, OthersStay DEF IInv, TypeOK
<1>7. Good(a)'
  <2>1. mine'[a] = next /\ pc'[a] = "close" /\ pc[a] \in Working /\ Good(a)
    BY <1>1 DEF IInv, TypeOK, Working
  <2>2. \A i \in Ids : Touched(a, i) => Touched(a, i)'
    BY <1>3, <2>1 DEF Touched
  <2>3. Control(a)'
    BY <1>1, <2>1 DEF Good, Control, Working
  <2>4. plan[a] # <<>> /\ Confirms(a)'
    BY <1>1, <2>1 DEF Good, Control, Confirms, uploads
  <2>5. Inserted(a)' = Inserted(a)
    BY <1>1, <1>4, <2>2 DEF Inserted
  <2>6. Replaces(a)'
    <3> SUFFICES ASSUME edit[a] = NoEdit, AllReal(a)', NEW i \in Ids,
                        Touched(a, i)', Exists(table[i])
                 PROVE  Replaced(a, i)'
      BY <1>1 DEF Replaces
    <3>1. \A j \in Inserted(a) : next[j] = mine[a][j] /\ mine[a][j].kind = "real"
      BY <1>3, <2>1, <2>5 DEF AllReal, Inserted, NoRow
    <3>2. AllReal(a) /\ Ends(a)' = Ends(a)
      BY <1>1, <2>1, <2>5, <3>1 DEF AllReal, Ends, Firsts
    <3>3. CASE next[i] = mine[a][i]
      BY <1>1, <2>1, <3>2, <3>3 DEF Good, Replaces, Replaced, Touched
    <3>4. CASE Seen(a, i).kind = "placeholder" /\ next[i] = NoRow
      <4>1. table[i].kind = "placeholder"
        <5>1. CASE Touched(a, i)
          <6>1. Replaced(a, i) /\ mine[a][i].kind = "placeholder"
            BY <2>1, <3>2, <3>4, <5>1 DEF Good, Replaces, Seen
          <6>2. \A day : ClosedBefore(table[i], day).kind = table[i].kind
            BY DEF IInv, TypeOK, Row, ClosedBefore
          <6> QED BY <6>1, <6>2 DEF Replaced
        <5>2. CASE ~Touched(a, i)
          BY <3>4, <5>2 DEF Seen
        <5> QED BY <5>1, <5>2
      <4> QED BY <1>1, <2>1, <3>4, <4>1 DEF Replaced
    <3> QED BY <1>3, <3>3, <3>4
  <2> QED BY <2>3, <2>4, <2>6 DEF Good
<1> QED BY <1>4, <1>5, <1>6, <1>7 DEF IInv

LEMMA CloseKeeps == ASSUME IInv, NEW a \in Transactions, Close(a) PROVE IInv'
<1> DEFINE day == Item(a).from
           next == [i \in Ids |-> IF i \in hit[a] /\ Overlaps(Seen(a, i), day)
                                THEN ClosedBefore(Seen(a, i), day) ELSE mine[a][i]]
<1>1. /\ pc[a] = "closing" /\ \A i \in hit[a] : Free(a, i)
      /\ mine' = [mine EXCEPT ![a] = next]
      /\ hit' = [hit EXCEPT ![a] = {}] /\ pc' = [pc EXCEPT ![a] = "insert"]
      /\ UNCHANGED <<table, plan, edit, source, last, uploads, edits>>
  BY DEF IInv, TypeOK, Close
<1>2. plan[a] # <<>> /\ Item(a) \in FileRow /\ day \in Day /\ Good(a)
  BY <1>1, FileFacts, RowTypes DEF IInv, TypeOK, Good, Control, Working, Item
<1>3. \A i \in Ids : Seen(a, i) \in Row /\ Seen(a, i).kind # "same"
  BY DEF IInv, TypeOK, KeyInv, Seen, Touched
<1> HIDE DEF day
<1>4. next \in [Ids -> Row]
  BY <1>2, <1>3, ClosedType DEF IInv, TypeOK
<1>5. \A i \in Ids :
        \/ next[i] = mine[a][i]
        \/ /\ Free(a, i) /\ Overlaps(Seen(a, i), day) /\ next[i] = ClosedBefore(Seen(a, i), day)
           /\ Exists(Seen(a, i)) /\ Exists(next[i]) /\ next[i].kind = Seen(a, i).kind
           /\ next[i].kind # "same"
           /\ next[i].key = Seen(a, i).key /\ next[i].from = Seen(a, i).from
  <2> TAKE i \in Ids
  <2>1. CASE ~(i \in hit[a] /\ Overlaps(Seen(a, i), day))
    BY <2>1
  <2>2. CASE i \in hit[a] /\ Overlaps(Seen(a, i), day)
    <3>1. Free(a, i) /\ next[i] = ClosedBefore(Seen(a, i), day) /\ Seen(a, i) \in Row
      BY <1>1, <1>3, <2>2
    <3>2. Exists(Seen(a, i)) /\ Seen(a, i).kind # "same"
      BY <1>3, <2>2 DEF Overlaps, ValidOn
    <3> HIDE DEF next
    <3>3. /\ next[i].kind = Seen(a, i).kind /\ next[i].key = Seen(a, i).key
          /\ next[i].from = Seen(a, i).from
      BY <1>2, <3>1, ClosedType
    <3> QED BY <2>2, <3>1, <3>2, <3>3 DEF Exists
  <2> QED BY <2>1, <2>2
<1> HIDE DEF next
<1>6. /\ KeyInv' /\ IdInv' /\ mine' \in [Transactions -> [Ids -> Row]]
      /\ \A t, u \in Transactions, i \in Ids : Touched(t, i)' /\ Touched(u, i)' => t = u
      /\ \A i \in Ids : Touched(a, i)' => Touched(a, i) \/ Exists(table[i])
  <2>1. \A i \in Ids :
          \/ next[i] = mine[a][i]
          \/ /\ Free(a, i) /\ Exists(Seen(a, i)) /\ next[i].kind # "same"
             /\ Exists(next[i]) =>
                  next[i].key = Seen(a, i).key /\ next[i].from = Seen(a, i).from
    BY <1>5
  <2> QED BY <1>1, <1>4, <2>1, StatementRows
<1>7. TypeOK'
  BY <1>1, <1>6 DEF IInv, TypeOK, uploads
<1>8. MadeInv' /\ \A t \in Transactions \ {a} : Good(t)'
  BY <1>1, <1>6, OthersStay DEF IInv, TypeOK
<1>9. Good(a)'
  <2>1. mine'[a] = next /\ pc'[a] = "insert" /\ pc[a] \in Working
    BY <1>1 DEF IInv, TypeOK, Working
  <2>2. \A i \in Ids : Touched(a, i) => Touched(a, i)'
    BY <1>5, <2>1 DEF Touched
  <2>3. Control(a)'
    BY <1>1, <1>2, <2>1 DEF Good, Control, Working
  <2>4. Confirms(a)'
    BY <1>1, <1>2, <2>1 DEF Good, Confirms, uploads
  <2>5. Inserted(a)' = Inserted(a)
    BY <1>1, <1>6, <2>2 DEF Inserted
  <2>6. \A i \in Ids : Touched(a, i) =>
          /\ next[i].kind = mine[a][i].kind /\ next[i].from = mine[a][i].from
    BY <1>5 DEF Seen
  <2>7. AllReal(a)' => AllReal(a)
    BY <2>1, <2>5, <2>6 DEF AllReal, Inserted
  <2>8. Firsts(a)' = Firsts(a)
    BY <2>1, <2>5, <2>6 DEF Firsts, Inserted, Exists
  <2>9. Ends(a) \cup {day} \subseteq Ends(a)'
    BY <1>1, <2>1, <2>8 DEF Ends, Item, day
  <2>10. Replaces(a)'
    <3> SUFFICES ASSUME edit[a] = NoEdit, AllReal(a)', NEW i \in Ids,
                        Touched(a, i)', Exists(table[i])
                 PROVE  Replaced(a, i)'
      BY <1>1 DEF Replaces
    <3>1. Touched(a, i) => Replaced(a, i)
      BY <1>2, <2>7 DEF Good, Replaces
    <3>2. CASE next[i] = mine[a][i]
      BY <1>1, <2>1, <2>9, <3>1, <3>2 DEF Replaced, Touched
    <3>3. CASE Overlaps(Seen(a, i), day) /\ next[i] = ClosedBefore(Seen(a, i), day)
      <4>1. /\ Seen(a, i) \in Row /\ table[i] \in Row /\ day \in Nat
            /\ Exists(Seen(a, i)) /\ Seen(a, i).from <= day /\ day <= Seen(a, i).to
        BY <1>2, <1>3, <3>3, BoundsAssumption DEF IInv, TypeOK, Overlaps, ValidOn, Day
      <4>2. /\ next[i] = ClosedBefore(table[i], day)
            /\ table[i].from <= day /\ day <= table[i].to
        <5>1. CASE ~Touched(a, i)
          BY <3>3, <4>1, <5>1 DEF Seen
        <5>2. CASE Touched(a, i)
          <6>1. Seen(a, i) = mine[a][i] /\ mine[a][i] # NoRow
            BY <4>1, <5>2, RowTypes DEF Seen
          <6>2. PICK d \in Ends(a) : /\ mine[a][i] = ClosedBefore(table[i], d)
                                    /\ table[i].from <= d /\ d <= table[i].to
            BY <3>1, <5>2, <6>1 DEF Replaced
          <6>3. d \in Nat
            BY <1>2, BoundsAssumption DEF IInv, TypeOK, Ends, Firsts, Inserted, Row, Item, Day, day
          <6>4. Seen(a, i) = [table[i] EXCEPT !.to = d - 1]
            BY <6>1, <6>2 DEF ClosedBefore
          <6>5. /\ Seen(a, i).to = d - 1 /\ Seen(a, i).from = table[i].from
                /\ next[i] = [table[i] EXCEPT !.to = day - 1]
            BY <3>3, <4>1, <6>4 DEF ClosedBefore, Row
          <6>6. table[i].to \in Nat
            BY <4>1, BoundsAssumption DEF Row, Open
          <6> QED BY <4>1, <6>2, <6>3, <6>5, <6>6 DEF ClosedBefore
        <5> QED BY <5>1, <5>2
      <4> QED BY <1>1, <2>1, <2>9, <4>2 DEF Replaced
    <3> QED BY <1>5, <3>2, <3>3
  <2> QED BY <2>3, <2>4, <2>10, <1>1, <1>2, <2>1 DEF Good
<1> QED BY <1>6, <1>7, <1>8, <1>9 DEF IInv

LEMMA InsertKeeps == ASSUME IInv, NEW a \in Transactions, Insert(a) PROVE IInv'
<1>0. PICK new \in FileRow, k \in Ids, next \in [Ids -> Row] :
         /\ new = Item(a) /\ k = last + 1
         /\ next = [mine[a] EXCEPT ![k] = new]
  <2>1. plan[a] \in Seq(FileRow) /\ plan[a] # <<>>
    BY DEF Insert, IInv, TypeOK, Good, Control, Working
  <2>2. last + 1 \in Ids
    BY BoundsAssumption DEF Insert, IInv, TypeOK, Ids
  <2>3. Item(a) \in FileRow /\ Item(a) \in Row
    BY <2>1, FileFacts, RowTypes DEF Item
  <2>4. [mine[a] EXCEPT ![last + 1] = Item(a)] \in [Ids -> Row]
    BY <2>3 DEF IInv, TypeOK
  <2> QED BY <2>2, <2>3, <2>4
<1>1. /\ pc[a] = "insert" /\ last < MaxRows /\ ~Awaits(a, new) /\ ~Taken(a, new, 0)
      /\ last' = k /\ plan' = [plan EXCEPT ![a] = Tail(plan[a])]
      /\ pc' = [pc EXCEPT ![a] = FirstStep(Tail(plan[a]))]
      /\ mine' = [mine EXCEPT ![a] = next]
      /\ UNCHANGED <<table, hit, edit, source, uploads, edits>>
  BY <1>0 DEF IInv, TypeOK, Insert
<1>2. plan[a] \in Seq(FileRow) /\ plan[a] # <<>> /\ Good(a) /\ edit[a] = NoEdit
  BY <1>1 DEF IInv, TypeOK, Good, Control, Working
<1>3. /\ new \in FileRow /\ new \in Row /\ Exists(new) /\ new.kind # "same"
      /\ Tail(plan[a]) \in Seq(FileRow)
      /\ Tail(plan[a]) # <<>> => LastOf(Tail(plan[a])) = LastOf(plan[a])
      /\ Tail(plan[a]) = <<>> => LastOf(plan[a]) = new
  BY <1>0, <1>2, FileFacts, RowTypes DEF Item
<1>4. k \in Ids /\ last \in Nat /\ k > last /\ Ids \subseteq Nat
  BY <1>0, BoundsAssumption DEF IInv, TypeOK, Ids
<1>5. ~Exists(table[k]) /\ \A t \in Transactions : ~Touched(t, k)
  BY <1>4 DEF IInv, IdInv
<1>6. /\ mine'[a] = next /\ next \in [Ids -> Row] /\ next[k] = new
      /\ \A i \in Ids \ {k} : next[i] = mine[a][i]
  BY <1>0, <1>1, <1>3, <1>4 DEF IInv, TypeOK
<1>7. /\ Touched(a, k)' /\ Seen(a, k)' = new
      /\ \A i \in Ids \ {k} : (Touched(a, i)' <=> Touched(a, i)) /\ Seen(a, i)' = Seen(a, i)
      /\ \A t \in Transactions \ {a} : mine'[t] = mine[t]
  BY <1>1, <1>3, <1>6 DEF IInv, TypeOK, Touched, Seen
<1>8. KeyInv'
  <2>1. \A i \in Ids \ {k} : ~SameKey(Seen(a, i), new) /\ ~SameKey(new, Seen(a, i))
    BY <1>1, <1>4 DEF Taken, SameKey, Ids
  <2>2. \A t \in Transactions, i, j \in Ids : i # j => ~SameKey(Seen(t, i), Seen(t, j))'
    <3>1. ASSUME NEW i \in Ids, NEW j \in Ids, i # j PROVE ~SameKey(Seen(a, i)', Seen(a, j)')
      BY <1>7, <2>1, <3>1 DEF IInv, KeyInv
    <3>2. ASSUME NEW t \in Transactions \ {a}, NEW i \in Ids PROVE Seen(t, i)' = Seen(t, i)
      BY <1>1, <1>7 DEF Seen, Touched
    <3>3. \A t \in Transactions \ {a}, i, j \in Ids :
            i # j => ~SameKey(Seen(t, i)', Seen(t, j)')
      BY <3>2 DEF IInv, KeyInv
    <3> QED BY <3>1, <3>3 DEF SameKey, Exists
  <2>3. ASSUME NEW u \in Transactions \ {a}, NEW j \in Ids, Touched(u, j)
        PROVE  ~SameKey(new, mine[u][j]) /\ ~SameKey(mine[u][j], new)
    BY <1>1, <2>3 DEF Awaits, SameKey
  <2>4. \A t, u \in Transactions, i, j \in Ids :
          t # u /\ i # j /\ Touched(t, i)' /\ Touched(u, j)' => ~SameKey(mine'[t][i], mine'[u][j])
    BY <1>6, <1>7, <2>3 DEF IInv, KeyInv, Touched
  <2> QED BY <1>1, <2>2, <2>4 DEF IInv, KeyInv
<1>9. IdInv'
  BY <1>0, <1>1, <1>4, <1>7 DEF IInv, IdInv, Touched
<1>10. TypeOK'
  <2>1. ASSUME NEW t \in Transactions, NEW u \in Transactions, NEW i \in Ids,
               Touched(t, i)', Touched(u, i)'
        PROVE  t = u
    <3>1. \A v \in Transactions \ {a} : Touched(v, i)' <=> Touched(v, i)
      BY <1>7 DEF Touched
    <3>2. CASE i = k
      BY <1>5, <2>1, <3>1, <3>2
    <3>3. CASE i # k
      BY <1>7, <2>1, <3>1, <3>3 DEF IInv, TypeOK
    <3> QED BY <3>2, <3>3
  <2>2. mine' \in [Transactions -> [Ids -> Row]]
    BY <1>1, <1>6 DEF IInv, TypeOK
  <2>3. last' \in 0..MaxRows
    BY <1>0, <1>1, <1>4, BoundsAssumption DEF IInv, TypeOK
  <2>4. plan' \in [Transactions -> Seq(FileRow)]
    BY <1>1, <1>3 DEF IInv, TypeOK
  <2> QED BY <1>1, <2>1, <2>2, <2>3, <2>4 DEF IInv, TypeOK, FirstStep, uploads
<1>11. MadeInv' /\ \A t \in Transactions \ {a} : Good(t)'
  <2>1. \A i \in Ids : Touched(a, i)' => Touched(a, i) \/ Exists(table[i]) \/ i > last
    BY <1>4, <1>7
  <2>2. last' \in Nat /\ last' >= last
    BY <1>1, <1>4 DEF Ids
  <2> QED BY <1>1, <1>7, <2>1, <2>2, OthersStay DEF IInv, TypeOK
<1>12. Good(a)'
  <2>1. Inserted(a)' = Inserted(a) \cup {k} /\ k \notin Inserted(a)
    BY <1>1, <1>4, <1>5, <1>7 DEF Inserted
  <2>2. \A i \in Inserted(a) : mine'[a][i] = mine[a][i]
    BY <1>6, <2>1 DEF Inserted
  <2>3. pc'[a] = FirstStep(Tail(plan[a])) /\ plan'[a] = Tail(plan[a])
    BY <1>1 DEF IInv, TypeOK
  <2>4. Control(a)'
    <3>1. pc'[a] = IF plan'[a] = <<>> THEN "commit" ELSE "delete"
      BY <2>3 DEF FirstStep
    <3>2. edit'[a] = NoEdit /\ pc'[a] \notin {"idle", "write"}
      BY <1>1, <1>2, <3>1
    <3> QED BY <3>1, <3>2 DEF Control, Working
  <2>5. Confirms(a)'
    <3>1. k \in Inserted(a)' /\ SameKey(mine'[a][k], new)
      BY <1>3, <1>6, <2>1 DEF SameKey
    <3> QED BY <1>1, <1>2, <1>3, <2>3, <3>1 DEF Good, Confirms, uploads
  <2>6. Replaces(a)'
    <3> SUFFICES ASSUME AllReal(a)', NEW i \in Ids, Touched(a, i)', Exists(table[i])
                 PROVE  Replaced(a, i)'
      BY <1>1 DEF Replaces
    <3>1. AllReal(a)
      BY <2>1, <2>2 DEF AllReal
    <3>2. i # k
      BY <1>5
    <3>3. Replaced(a, i) /\ mine'[a][i] = mine[a][i]
      BY <1>2, <1>6, <1>7, <3>1, <3>2 DEF Good, Replaces
    <3>4. Ends(a) \subseteq Ends(a)'
      <4>1. Firsts(a)' = Firsts(a) \cup {new.from}
        BY <1>3, <1>6, <2>1, <2>2 DEF Firsts
      <4> QED BY <1>0, <1>1, <4>1 DEF Ends
    <3> QED BY <1>1, <3>3, <3>4 DEF Replaced
  <2> QED BY <2>4, <2>5, <2>6 DEF Good
<1> QED BY <1>8, <1>9, <1>10, <1>11, <1>12 DEF IInv

LEMMA WriteKeeps == ASSUME IInv, NEW a \in Transactions, Write(a) PROVE IInv'
<1>0. PICK i \in Ids, r \in Row, next \in [Ids -> Row] :
         /\ i = edit[a].id /\ r = Merged(table[i], edit[a].view, edit[a].new)
         /\ next = [mine[a] EXCEPT ![i] = r]
  <2>1. edit[a].id \in Ids
    BY DEF Write, IInv, Good, Control
  <2>2. table[edit[a].id] \in Row /\ edit[a].view \in Row /\ edit[a].new \in Row
    BY <2>1, RowTypes DEF IInv, TypeOK
  <2>3. Merged(table[edit[a].id], edit[a].view, edit[a].new) \in Row
    BY <2>2, MergedType
  <2>4. [mine[a] EXCEPT ![edit[a].id] = Merged(table[edit[a].id], edit[a].view, edit[a].new)]
           \in [Ids -> Row]
    BY <2>3 DEF IInv, TypeOK
  <2> QED BY <2>1, <2>3, <2>4
<1>1. /\ pc[a] = "write" /\ Free(a, i) /\ Exists(table[i])
      /\ ~Awaits(a, r) /\ ~Taken(a, r, i)
      /\ mine' = [mine EXCEPT ![a] = next] /\ pc' = [pc EXCEPT ![a] = "commit"]
      /\ UNCHANGED <<table, plan, hit, edit, source, last, uploads, edits>>
  BY <1>0 DEF Write, IInv, TypeOK
<1>2. /\ Good(a) /\ source[a] = NoUpload /\ plan[a] = <<>> /\ \A j \in Ids : ~Touched(a, j)
  BY <1>1 DEF IInv, Good, Control, Working
<1>3. r \in Row /\ r.kind # "same"
  <2>1. /\ table[i] \in Row /\ table[i].kind # "same"
        /\ edit[a].view \in Row /\ edit[a].new \in Row /\ edit[a].new.kind # "same"
    BY RowTypes DEF IInv, TypeOK, KeyInv
  <2> QED BY <1>0, <2>1, MergedType
<1>4. /\ next \in [Ids -> Row] /\ next[i] = r /\ mine'[a] = next
      /\ \A j \in Ids \ {i} : next[j] = mine[a][j] /\ next[j].kind = "same"
  BY <1>0, <1>1, <1>2, <1>3 DEF IInv, TypeOK, Touched
<1>5. /\ Seen(a, i)' = r /\ Touched(a, i)'
      /\ \A j \in Ids \ {i} : ~Touched(a, j)' /\ Seen(a, j)' = table[j] /\ Seen(a, j) = table[j]
  BY <1>1, <1>2, <1>3, <1>4 DEF Seen, Touched
<1>6. \A j \in Ids \ {i} : ~SameKey(table[j], r) /\ ~SameKey(r, table[j])
  BY <1>1, <1>5 DEF Taken, SameKey
<1>7. ASSUME NEW u \in Transactions \ {a}, NEW j \in Ids, Touched(u, j)
      PROVE  ~SameKey(r, mine[u][j])
  BY <1>1, <1>7 DEF Awaits, SameKey
<1>8. /\ KeyInv' /\ IdInv' /\ mine' \in [Transactions -> [Ids -> Row]]
      /\ \A t, u \in Transactions, j \in Ids : Touched(t, j)' /\ Touched(u, j)' => t = u
  <2>1. \A j \in Ids : next[j] = mine[a][j] \/ (Free(a, j) /\ next[j].kind # "same")
    BY <1>1, <1>3, <1>4
  <2>2. ASSUME NEW j \in Ids, NEW k \in Ids, j # k
        PROVE  /\ ~SameKey(Seen(a, j)', Seen(a, k)')
               /\ \A u \in Transactions \ {a} :
                    (Touched(u, k) /\ next[j].kind # "same") => ~SameKey(next[j], mine[u][k])
    BY <1>4, <1>5, <1>6, <1>7, <2>2 DEF IInv, KeyInv
  <2>3. \A j \in Ids : j > last => ~Touched(a, j)'
    BY <1>1, <1>5 DEF IInv, IdInv
  <2> QED BY <1>1, <1>4, <2>1, <2>2, <2>3, WriteRows
<1>9. TypeOK'
  <2>1. UNCHANGED <<table, plan, hit, edit, source, last, upload, confirmed, made, edits>>
    BY <1>1 DEF uploads
  <2>2. pc' \in [Transactions -> {"idle", "delete", "deleting", "close", "closing",
                                  "insert", "write", "commit"}]
    BY <1>1 DEF IInv, TypeOK
  <2> QED BY <1>8, <2>1, <2>2 DEF IInv, TypeOK
<1>10. MadeInv' /\ \A t \in Transactions \ {a} : Good(t)'
  <2>1. \A j \in Ids : Touched(a, j)' => Exists(table[j])
    BY <1>1, <1>5
  <2>2. /\ \A t \in Transactions \ {a} : mine'[t] = mine[t] /\ pc'[t] = pc[t]
        /\ UNCHANGED <<table, last, plan, source, edit, uploads>>
    BY <1>1 DEF IInv, TypeOK
  <2>3. last \in Nat /\ last' = last /\ last' >= last /\ last' \in Nat
    BY <2>2, BoundsAssumption DEF IInv, TypeOK
  <2> QED BY <2>1, <2>2, <2>3, OthersStay
<1>11. Good(a)'
  <2>1. /\ pc'[a] = "commit" /\ plan'[a] = <<>> /\ source'[a] = NoUpload
        /\ edit'[a] # NoEdit
    BY <1>0, <1>1, <1>2, RowTypes DEF IInv, TypeOK, Ids
  <2> QED BY <2>1 DEF Good, Control, Confirms, Replaces, Working
<1> QED BY <1>8, <1>9, <1>10, <1>11 DEF IInv

LEMMA CommitKeeps == ASSUME IInv, NEW a \in Transactions, Commit(a) PROVE IInv'
<1>1. /\ pc[a] = "commit" /\ Clear(a) /\ UNCHANGED <<last, edits>>
      /\ \A i \in Ids : table'[i] = Seen(a, i)
      /\ Good(a) /\ plan[a] = <<>>
  BY DEF Commit, IInv, Good, Control, Working
<1>2. /\ \A i \in Ids : ~Touched(a, i)' /\ Seen(a, i)' = table'[i]
      /\ \A t \in Transactions \ {a} : mine'[t] = mine[t]
      /\ \A t \in Transactions \ {a}, i \in Ids : Touched(t, i)' <=> Touched(t, i)
      /\ \A t \in Transactions \ {a}, i \in Ids :
           Seen(t, i)' = IF Touched(t, i) THEN mine[t][i] ELSE Seen(a, i)
  BY <1>1, RowTypes DEF IInv, TypeOK, Clear, Touched, Seen
<1>3. \A t \in Transactions \ {a}, i \in Ids :
        Touched(t, i) => ~Touched(a, i) /\ table'[i] = table[i]
  BY <1>1 DEF IInv, TypeOK, Seen
<1>4. \/ UNCHANGED uploads
      \/ \E u \in Uploads :
           /\ upload' = [upload EXCEPT ![u].committed = TRUE]
           /\ confirmed' = [confirmed EXCEPT ![u] = @ + 1]
           /\ made' = made \/ made' = [made EXCEPT ![u] = Kept(a)]
  <2>1. source[a] \in Uploads \cup {NoUpload}
    BY DEF IInv, TypeOK
  <2> QED BY <2>1 DEF Commit
<1>13. \A u \in Uploads : upload'[u].rows = upload[u].rows
  <2>1. CASE UNCHANGED uploads
    BY <2>1 DEF uploads
  <2>2. ASSUME NEW u \in Uploads, upload' = [upload EXCEPT ![u].committed = TRUE]
        PROVE  \A w \in Uploads : upload'[w].rows = upload[w].rows
    BY <2>2 DEF IInv, TypeOK
  <2> QED BY <1>4, <2>1, <2>2
<1>5. Kept(a) \in SUBSET (Ids \X Row)
  BY DEF IInv, TypeOK, Kept, Inserted
<1>6. TypeOK'
  <2>1. table' \in [Ids -> Row]
    BY DEF Commit, IInv, TypeOK, Seen
  <2>2. \A t, u \in Transactions, i \in Ids : Touched(t, i)' /\ Touched(u, i)' => t = u
    BY <1>2 DEF IInv, TypeOK
  <2>3. /\ mine' \in [Transactions -> [Ids -> Row]] /\ plan' \in [Transactions -> Seq(FileRow)]
        /\ edit' \in [Transactions -> [id : Ids \cup {0}, view : Row, new : Wanted]]
        /\ hit' \in [Transactions -> SUBSET Ids]
        /\ source' \in [Transactions -> Uploads \cup {NoUpload}]
        /\ pc' \in [Transactions -> {"idle", "delete", "deleting", "close", "closing",
                                    "insert", "write", "commit"}]
    BY <1>1, RowTypes DEF IInv, TypeOK, Clear
  <2>4. /\ upload' \in [Uploads -> [rows : Seq(FileRow), committed : BOOLEAN]]
        /\ confirmed' \in [Uploads -> Nat] /\ made' \in [Uploads -> SUBSET (Ids \X Row)]
    <3>1. CASE UNCHANGED uploads
      BY <3>1 DEF IInv, TypeOK, uploads
    <3>2. ASSUME NEW u \in Uploads,
                 upload' = [upload EXCEPT ![u].committed = TRUE],
                 confirmed' = [confirmed EXCEPT ![u] = @ + 1],
                 made' = made \/ made' = [made EXCEPT ![u] = Kept(a)]
          PROVE  /\ upload' \in [Uploads -> [rows : Seq(FileRow), committed : BOOLEAN]]
                 /\ confirmed' \in [Uploads -> Nat]
                 /\ made' \in [Uploads -> SUBSET (Ids \X Row)]
      <4>1. upload' \in [Uploads -> [rows : Seq(FileRow), committed : BOOLEAN]]
        BY <3>2 DEF IInv, TypeOK
      <4>2. confirmed' \in [Uploads -> Nat]
        BY <3>2 DEF IInv, TypeOK
      <4>3. made \in [Uploads -> SUBSET (Ids \X Row)]
        BY DEF IInv, TypeOK
      <4>4. made' \in [Uploads -> SUBSET (Ids \X Row)]
        BY <1>5, <3>2, <4>3
      <4> QED BY <4>1, <4>2, <4>4
    <3> QED BY <1>4, <3>1, <3>2
  <2> QED BY <1>1, <2>1, <2>2, <2>3, <2>4 DEF IInv, TypeOK
<1>7. KeyInv'
  <2>1. \A i \in Ids : table'[i].kind # "same"
    BY <1>1 DEF IInv, KeyInv, Seen, Touched
  <2>2. \A i, j \in Ids : i # j => ~SameKey(table'[i], table'[j])
    BY <1>1 DEF IInv, KeyInv
  <2>3. ASSUME NEW t \in Transactions \ {a}, NEW i \in Ids, NEW j \in Ids, i # j
        PROVE  ~SameKey(Seen(t, i)', Seen(t, j)')
    <3>1. CASE Touched(t, i) /\ Touched(t, j)
      BY <1>2, <2>3, <3>1 DEF IInv, KeyInv, Seen
    <3>2. CASE ~Touched(t, i) /\ ~Touched(t, j)
      BY <1>2, <2>3, <3>2 DEF IInv, KeyInv
    <3>3. ASSUME NEW x \in Ids, NEW y \in Ids, x # y, Touched(t, x), ~Touched(t, y)
          PROVE  ~SameKey(mine[t][x], Seen(a, y)) /\ ~SameKey(Seen(a, y), mine[t][x])
      <4>1. CASE Touched(a, y)
        BY <2>3, <3>3, <4>1 DEF IInv, KeyInv, Seen, SameKey
      <4>2. CASE ~Touched(a, y)
        <5>1. Seen(a, y) = Seen(t, y) /\ Seen(t, x) = mine[t][x]
          BY <3>3, <4>2 DEF Seen
        <5> QED BY <2>3, <3>3, <5>1 DEF IInv, KeyInv
      <4> QED BY <4>1, <4>2
    <3> QED BY <1>2, <2>3, <3>1, <3>2, <3>3
  <2>4. \A t, u \in Transactions, i, j \in Ids :
          t # u /\ i # j /\ Touched(t, i)' /\ Touched(u, j)' => ~SameKey(mine'[t][i], mine'[u][j])
    BY <1>2 DEF IInv, KeyInv
  <2>5. \A t \in Transactions, i, j \in Ids : i # j => ~SameKey(Seen(t, i), Seen(t, j))'
    BY <1>2, <2>2, <2>3 DEF SameKey, Exists
  <2> QED BY <2>1, <2>2, <2>4, <2>5 DEF KeyInv
<1>8. IdInv'
  BY <1>1, <1>2 DEF IInv, IdInv, Seen
<1>9. MadeInv'
  <2>1. \A t \in Transactions, i \in Ids : Touched(t, i)' => t # a /\ Touched(t, i) /\ table'[i] = table[i]
    BY <1>2, <1>3
  <2>2. \A m \in Kept(a) :
          m[1] \in Ids /\ m[1] <= last /\ \A t \in Transactions : ~Touched(t, m[1])'
    <3>1. \A m \in Kept(a) : m[1] \in Inserted(a)
      BY DEF Kept
    <3>2. \A i \in Inserted(a) : i \in Ids /\ Touched(a, i) /\ ~(i > last)
      BY DEF IInv, IdInv, Inserted
    <3>3. last \in Nat /\ Ids \subseteq Nat
      BY DEF IInv, TypeOK, Ids
    <3>4. ASSUME NEW i \in Inserted(a), NEW t \in Transactions PROVE ~Touched(t, i)'
      BY <1>3, <2>1, <3>2
    <3>5. ASSUME NEW i \in Inserted(a) PROVE i \in Ids /\ i <= last
      <4>1. i \in Nat /\ ~(i > last)
        BY <3>2, <3>3
      <4> QED BY <3>2, <3>3, <4>1
    <3> QED BY <3>1, <3>4, <3>5
  <2>3. \A u \in Uploads : \A m \in made[u] :
          /\ m[1] \in Ids /\ m[1] <= last
          /\ \A t \in Transactions : Touched(t, m[1])' => Exists(table'[m[1]])
    BY <2>1 DEF IInv, TypeOK, MadeInv
  <2>4. ASSUME NEW u \in Uploads
        PROVE  /\ made'[u] = made[u] \/ made'[u] = Kept(a)
               /\ confirmed'[u] > 0 =>
                    upload[u].rows # <<>> /\ \E m \in made'[u] : SameKey(m[2], LastOf(upload[u].rows))
    <3>1. CASE source[a] # u \/ confirmed[u] > 0
      <4>1. made'[u] = made[u]
        BY <3>1 DEF Commit, IInv, TypeOK, uploads
      <4>2. source[a] # u => confirmed'[u] = confirmed[u]
        BY <3>1 DEF Commit, IInv, TypeOK, uploads
      <4> QED BY <3>1, <4>1, <4>2 DEF IInv, MadeInv
    <3>2. CASE source[a] = u /\ ~(confirmed[u] > 0)
      <4>1. u # NoUpload
        BY KeysAssumption
      <4>2. confirmed[u] = 0
        BY <3>2 DEF IInv, TypeOK
      <4>3. made'[u] = Kept(a)
        BY <3>2, <4>1, <4>2 DEF Commit, IInv, TypeOK
      <4>4. PICK i \in Inserted(a) : SameKey(mine[a][i], LastOf(upload[u].rows))
        BY <1>1, <3>2, <4>1 DEF Good, Confirms
      <4>5. <<i, mine[a][i]>> \in Kept(a) /\ upload[u].rows # <<>>
        BY <1>1, <3>2, <4>1, <4>4 DEF Kept, SameKey, Inserted, Good, Confirms
      <4> QED BY <4>3, <4>4, <4>5
    <3> QED BY <3>1, <3>2
  <2> QED BY <1>1, <1>13, <2>2, <2>3, <2>4 DEF MadeInv
<1>10. Good(a)'
  BY <1>1, <1>2 DEF IInv, TypeOK, Clear, Good, Control, Confirms, Replaces, Working
<1>11. ASSUME NEW t \in Transactions \ {a} PROVE Good(t)'
  BY <1>1, <1>3, <1>11, <1>13, OthersKeep DEF IInv, TypeOK, Clear
<1> QED BY <1>6, <1>7, <1>8, <1>9, <1>10, <1>11 DEF IInv

-----------------------------------------------------------------------------
LEMMA StepHolds == IInv /\ [Next]_vars => IInv'
<1> SUFFICES ASSUME IInv, [Next]_vars PROVE IInv'
  OBVIOUS
<1>1. ASSUME NEW u \in Uploads, Store(u) PROVE IInv'
  BY <1>1, StoreKeeps
<1>2. ASSUME NEW t \in Transactions,
             \/ Import(t) \/ Enter(t) \/ DeleteScan(t) \/ CloseScan(t)
             \/ \E u \in Uploads : Confirm(t, u)
             \/ \E i \in Ids : Change(t, i)
      PROVE  IInv'
  BY <1>2, ImportKeeps, EnterKeeps, ScanKeeps, ConfirmKeeps, ChangeKeeps
<1>3. ASSUME NEW t \in Transactions,
             Delete(t) \/ Close(t) \/ Insert(t) \/ Write(t) \/ Commit(t)
      PROVE  IInv'
  BY <1>3, DeleteKeeps, CloseKeeps, InsertKeeps, WriteKeeps, CommitKeeps
<1>4. ASSUME NEW t \in Transactions, Collides(t) \/ WriteFails(t) \/ Fails(t) PROVE IInv'
  BY <1>4, ClearKeeps DEF Collides, RollsBack, WriteFails, Fails
<1>5. CASE UNCHANGED vars
  <2>1. UNCHANGED <<table, mine, last, upload, confirmed, made, edits>>
        /\ UNCHANGED <<pc, plan, hit, edit, source>>
    BY <1>5 DEF vars, tx, uploads
  <2>2. KeyInv' /\ IdInv' /\ MadeInv'
    BY <2>1, RowsKeep
  <2>3. TypeOK'
    BY <2>1 DEF IInv, TypeOK, Touched
  <2>4. \A t \in Transactions : Good(t)'
    BY <2>1, OthersKeep DEF IInv
  <2> QED BY <2>2, <2>3, <2>4 DEF IInv
<1> QED BY <1>1, <1>2, <1>3, <1>4, <1>5 DEF Next

LEMMA Invariant == Spec => []IInv
BY InitHolds, StepHolds, PTL DEF Spec

\* The state has its types, and no row is in the hands of two transactions.
THEOREM TypeCorrect == Spec => []TypeOK
<1>1. IInv => TypeOK
  BY DEF IInv
<1> QED BY <1>1, Invariant, PTL

-----------------------------------------------------------------------------
(* What a commit makes of the costs.                                       *)

\* Whose commit a step is: nothing else writes the table or confirms a file.
LEMMA OnlyCommits ==
    ASSUME IInv, [Next]_vars, table' # table \/ confirmed' # confirmed
    PROVE  \E t \in Transactions : Commit(t)
<1> SUFFICES ASSUME ~\E t \in Transactions : Commit(t) PROVE UNCHANGED <<table, confirmed>>
  OBVIOUS
<1> QED BY DEF Next, vars, tx, uploads, Store, Import, Enter, Confirm, Change, DeleteScan,
           Delete, CloseScan, Close, Insert, Collides, Write, WriteFails, Fails

\* What a file's commit makes of a row that was there.
LEMMA CommittedRows ==
    ASSUME IInv, NEW t \in Transactions, Commit(t), edit[t] = NoEdit, AllReal(t),
           NEW i \in Ids, Exists(table[i])
    PROVE  \/ table'[i] = table[i]
           \/ table'[i] = NoRow /\ table[i].kind = "placeholder"
           \/ \E day \in Firsts(t) :
                /\ table'[i] = ClosedBefore(table[i], day)
                /\ table[i].from <= day /\ day <= table[i].to
<1>1. table'[i] = Seen(t, i) /\ Ends(t) = Firsts(t)
  BY DEF Commit, Ends
<1>2. CASE Touched(t, i)
  <2>1. Replaced(t, i)
    BY <1>2 DEF IInv, Good, Replaces
  <2> QED BY <1>1, <1>2, <2>1 DEF Replaced, Seen
<1>3. CASE ~Touched(t, i)
  BY <1>1, <1>3 DEF Seen
<1> QED BY <1>2, <1>3

\* A real cost that was there is not better for its commit, and on days before all
\* rows of the file, and if it begins after them, it is as it was.
LEMMA RealRows ==
    ASSUME IInv, NEW t \in Transactions, Commit(t), edit[t] = NoEdit, AllReal(t),
           NEW i \in Ids, Exists(table[i]), NEW day \in Day
    PROVE  /\ Real(table'[i], day) =>
                Real(table[i], day) /\ table'[i].from = table[i].from
           /\ Real(table[i], day) =>
                \/ Real(table'[i], day) /\ table'[i].from = table[i].from
                \/ \E first \in Firsts(t) : first <= day /\ table[i].from <= first
<1>1. table[i] \in Row /\ day \in Nat /\ Open \in Nat
  BY BoundsAssumption DEF IInv, TypeOK, Day, Open
<1>2. table[i].from \in Nat /\ table[i].to \in Nat
  BY <1>1, BoundsAssumption DEF Row, Open
<1>3. CASE table'[i] = table[i]
  BY <1>3
<1>4. CASE table'[i] = NoRow /\ table[i].kind = "placeholder"
  BY <1>4 DEF Real, NoRow
<1>5. ASSUME NEW first \in Firsts(t), table'[i] = ClosedBefore(table[i], first),
             table[i].from <= first, first <= table[i].to
      PROVE  /\ Real(table'[i], day) =>
                  Real(table[i], day) /\ table'[i].from = table[i].from
             /\ Real(table[i], day) =>
                  (Real(table'[i], day) /\ table'[i].from = table[i].from) \/ first <= day
  <2>1. first \in Nat
    BY BoundsAssumption DEF IInv, TypeOK, Firsts, Inserted, Row
  <2>2. /\ table'[i].kind = table[i].kind /\ table'[i].from = table[i].from
        /\ table'[i].to = first - 1
    BY <1>1, <1>5 DEF ClosedBefore, Row
  <2> QED BY <1>1, <1>2, <1>5, <2>1, <2>2 DEF Real, ValidOn, Exists
<1> QED BY <1>3, <1>4, <1>5, CommittedRows

\* Rows that were not there are the file's.
LEMMA NewRows ==
    ASSUME IInv, NEW t \in Transactions, Commit(t), NEW i \in Ids, ~Exists(table[i]),
           NEW day, Real(table'[i], day)
    PROVE  i \in Inserted(t) /\ table'[i] = mine[t][i] /\ table'[i].from \in Firsts(t)
<1>1. table'[i] = Seen(t, i) /\ Exists(table'[i])
  BY DEF Commit, Real, ValidOn
<1>2. Touched(t, i)
  BY <1>1 DEF Seen
<1> QED BY <1>1, <1>2 DEF Seen, Inserted, Firsts

\* A day that has a real cost keeps one when a file of costs that hold until further
\* notice is committed (close_overlapping_rows and the insert after it).
THEOREM Covered == Spec => CoverageKept
<1> DEFINE AllOpen(t) == \A i \in Inserted(t) : mine[t][i].kind = "real" /\ mine[t][i].to = Open
           Keeps(t) == Imported(t) /\ AllOpen(t) =>
             \A day \in Day : CostOn(table, day) # {} => CostOn(table', day) # {}
<1>1. ASSUME IInv, IInv', [Next]_vars, NEW t \in Transactions PROVE Keeps(t)
  <2> SUFFICES ASSUME Imported(t), AllOpen(t), NEW day \in Day, CostOn(table, day) # {}
               PROVE  CostOn(table', day) # {}
    OBVIOUS
  <2>1. Commit(t) /\ edit[t] = NoEdit /\ AllReal(t)
    <3>1. PICK u \in Transactions : Commit(u)
      BY <1>1, OnlyCommits DEF Imported
    <3>2. u = t
      BY <3>1 DEF Commit, Clear, Imported
    <3> QED BY <3>1, <3>2 DEF Imported, AllReal
  <2>2. PICK i \in Ids : Real(table[i], day)
    BY DEF CostOn
  <2>3. \E j \in Ids : Real(table'[j], day)
    <3>1. Exists(table[i])
      BY <2>2 DEF Real, ValidOn
    <3>2. CASE Real(table'[i], day)
      BY <3>2
    <3>3. ASSUME NEW first \in Firsts(t), first <= day PROVE \E j \in Ids : Real(table'[j], day)
      <4>1. PICK j \in Inserted(t) : Exists(mine[t][j]) /\ mine[t][j].from = first
        BY DEF Firsts
      <4>2. j \in Ids /\ table'[j] = mine[t][j]
        BY <2>1, <4>1 DEF Commit, Seen, Inserted
      <4>3. mine[t][j].kind = "real" /\ mine[t][j].to = Open
        BY <4>1
      <4>4. day <= Open
        BY BoundsAssumption DEF Day, Open
      <4> QED BY <3>3, <4>1, <4>2, <4>3, <4>4 DEF Real, ValidOn
    <3> QED BY <1>1, <2>1, <2>2, <3>1, <3>2, <3>3, RealRows
  <2>4. table' \in [Ids -> Row]
    BY <1>1 DEF IInv, TypeOK
  <2> QED BY <2>3, <2>4, SomeCost
<1>2. IInv /\ IInv' /\ [Next]_vars => [\A t \in Transactions : Keeps(t)]_vars
  BY <1>1
<1> QED BY <1>2, Invariant, PTL DEF Spec, CoverageKept

\* A file of real costs changes which cost holds only from its first day on, and only
\* up to the day on which a cost stored for later begins, whatever others have committed
\* between its statements (_commit_valid_rows 290-355).
THEOREM OthersUntouched == Spec => NoCollateral
<1> DEFINE Same(t) ==
      Imported(t) /\ Firsts(t) # {} /\ (\A i \in Inserted(t) : mine[t][i].kind = "real") =>
        \A day \in Day :
           CostOn(table', day) = CostOn(table, day)
           \/ /\ \E first \in Firsts(t) : first <= day
              /\ \A i \in CostOn(table, day) :
                   \E first \in Firsts(t) : table[i].from <= first
<1>1. ASSUME IInv, IInv', [Next]_vars, NEW t \in Transactions PROVE Same(t)
  <2> SUFFICES ASSUME Imported(t), \A i \in Inserted(t) : mine[t][i].kind = "real",
                      NEW day \in Day,
                      \/ \A first \in Firsts(t) : ~(first <= day)
                      \/ \E i \in CostOn(table, day) :
                           \A first \in Firsts(t) : ~(table[i].from <= first)
               PROVE  CostOn(table', day) = CostOn(table, day)
    OBVIOUS
  <2>1. Commit(t) /\ edit[t] = NoEdit /\ AllReal(t)
    <3>1. PICK u \in Transactions : Commit(u)
      BY <1>1, OnlyCommits DEF Imported
    <3>2. u = t
      BY <3>1 DEF Commit, Clear, Imported
    <3> QED BY <3>1, <3>2 DEF Imported, AllReal
  <2>2. \A i \in Ids : Exists(table[i]) =>
          /\ Real(table'[i], day) => Real(table[i], day) /\ table'[i].from = table[i].from
          /\ Real(table[i], day) =>
               \/ Real(table'[i], day) /\ table'[i].from = table[i].from
               \/ \E first \in Firsts(t) : first <= day /\ table[i].from <= first
    BY <1>1, <2>1, RealRows
  <2>3. \A i \in Ids : Real(table[i], day) => Exists(table[i])
    BY DEF Real, ValidOn
  <2>4. \A i \in Ids : ~Exists(table[i]) /\ Real(table'[i], day) =>
          table'[i].from \in Firsts(t) /\ table'[i].from <= day
    <3> TAKE i \in Ids
    <3>1. ~Exists(table[i]) /\ Real(table'[i], day) => table'[i].from \in Firsts(t)
      BY <1>1, <2>1, NewRows
    <3> QED BY <3>1 DEF Real, ValidOn
  <2>5. CASE \A first \in Firsts(t) : ~(first <= day)
    <3>1. \A i \in Ids : Real(table'[i], day) <=> Real(table[i], day)
      BY <2>2, <2>3, <2>4, <2>5
    <3>2. \A i \in Ids : Real(table[i], day) => table'[i].from = table[i].from
      BY <2>2, <2>3, <2>5
    <3>3. \A i, j \in Ids : Real(table[i], day) /\ Real(table[j], day) =>
            (Better(table'[i], i, table'[j], j) <=> Better(table[i], i, table[j], j))
      BY <3>2 DEF Better
    <3> QED BY <3>1, <3>3 DEF CostOn
  <2>6. ASSUME NEW i \in CostOn(table, day), \A first \in Firsts(t) : ~(table[i].from <= first)
        PROVE  CostOn(table', day) = CostOn(table, day)
    <3>1. i \in Ids /\ Real(table[i], day)
      BY DEF CostOn
    <3>2. Real(table'[i], day) /\ table'[i].from = table[i].from
      BY <2>2, <2>3, <2>6, <3>1
    <3>3. \A j \in Ids : table[j].from \in Nat /\ table'[j].from \in Nat
      <4>1. table \in [Ids -> Row] /\ table' \in [Ids -> Row]
        BY <1>1 DEF IInv, TypeOK
      <4>2. \A r \in Row : r.from \in Nat
        BY BoundsAssumption DEF Row
      <4> QED BY <4>1, <4>2
    <3>4. \A j \in Ids : Real(table'[j], day) =>
            \/ Real(table[j], day) /\ table'[j].from = table[j].from
            \/ table'[j].from < table[i].from
      BY <2>2, <2>4, <2>6, <3>1, <3>3
    <3>5. \A j \in Ids : Real(table[j], day) => ~Better(table[i], i, table[j], j)
      BY DEF CostOn
    <3>6. i \in CostOn(table', day)
      BY <3>1, <3>2, <3>3, <3>4, <3>5 DEF CostOn, Better
    <3>7. \A rows \in {table, table'} : i \in CostOn(rows, day) => CostOn(rows, day) = {i}
      <4> SUFFICES ASSUME NEW rows, \A j \in Ids : rows[j].from \in Nat, i \in CostOn(rows, day),
                          NEW j \in CostOn(rows, day), j # i
                   PROVE  FALSE
        BY <3>3
      <4>1. /\ ~Better(rows[i], i, rows[j], j) /\ ~Better(rows[j], j, rows[i], i)
            /\ i \in Nat /\ j \in Nat /\ rows[i].from \in Nat /\ rows[j].from \in Nat
        BY DEF CostOn, Ids
      <4> QED BY <4>1 DEF Better
    <3> QED BY <3>6, <3>7
  <2> QED BY <2>5, <2>6
<1>2. IInv /\ IInv' /\ [Next]_vars => [\A t \in Transactions : Same(t)]_vars
  BY <1>1
<1> QED BY <1>2, Invariant, PTL DEF Spec, NoCollateral

\* A file is committed a second time only if a row of its first commit is gone or has
\* got another first day (confirm_upload 674, the unique key).
THEOREM SecondConfirmation == Spec => ConfirmedTwiceOnlyIfGone
<1> DEFINE Gone(u) == confirmed[u] > 0 /\ confirmed'[u] > confirmed[u] =>
                        \E m \in made[u] : ~SameKey(table'[m[1]], m[2])
<1>1. ASSUME IInv, IInv', [Next]_vars, NEW u \in Uploads PROVE Gone(u)
  <2> SUFFICES ASSUME confirmed[u] > 0, confirmed'[u] > confirmed[u]
               PROVE  \E m \in made[u] : ~SameKey(table'[m[1]], m[2])
    OBVIOUS
  <2>1. confirmed[u] \in Nat /\ confirmed' # confirmed
    BY <1>1 DEF IInv, TypeOK
  <2>2. PICK t \in Transactions : Commit(t)
    BY <1>1, <2>1, OnlyCommits
  <2>3. source[t] = u /\ u # NoUpload
    <3>1. u # NoUpload
      BY KeysAssumption
    <3>2. source[t] # NoUpload
      BY <2>1, <2>2 DEF Commit, uploads
    <3>3. confirmed' = [confirmed EXCEPT ![source[t]] = @ + 1]
      BY <2>2, <3>2 DEF Commit
    <3> QED BY <1>1, <2>1, <3>1, <3>3 DEF IInv, TypeOK
  <2>4. plan[t] = <<>> /\ Good(t)
    BY <1>1, <2>2 DEF Commit, IInv, Good, Control, Working
  <2>5. PICK i \in Inserted(t) : SameKey(mine[t][i], LastOf(upload[u].rows))
    BY <2>3, <2>4 DEF Good, Confirms
  <2>6. PICK m \in made[u] : SameKey(m[2], LastOf(upload[u].rows))
    BY <1>1 DEF IInv, MadeInv
  <2>7. i \in Ids /\ m[1] \in Ids /\ i # m[1]
    <3>1. i \in Ids /\ Touched(t, i) /\ ~Exists(table[i])
      BY DEF Inserted
    <3>2. m[1] \in Ids
      BY <1>1 DEF IInv, TypeOK
    <3>3. Touched(t, m[1]) => Exists(table[m[1]])
      BY <1>1 DEF IInv, MadeInv
    <3> QED BY <3>1, <3>2, <3>3
  <2>8. table'[i] = mine[t][i]
    BY <2>2, <2>5 DEF Commit, Inserted, Seen
  <2>9. ~SameKey(table'[i], table'[m[1]])
    BY <1>1, <2>7 DEF IInv, KeyInv
  <2> QED BY <2>5, <2>6, <2>8, <2>9 DEF SameKey
<1>2. IInv /\ IInv' /\ [Next]_vars => \A u \in Uploads : Gone(u)
  BY <1>1
<1>3. IInv /\ IInv' /\ [Next]_vars => [\A u \in Uploads : Gone(u)]_vars
  BY <1>2
<1> QED BY <1>3, Invariant, PTL DEF Spec, ConfirmedTwiceOnlyIfGone
=============================================================================
