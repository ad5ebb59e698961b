-------------------------- MODULE ReplyDraftProofs --------------------------
(***************************************************************************)
(* Theorems about one reply, for any requests, synchronisations and        *)
(* bounds.                                                                 *)
(*                                                                         *)
(* WB's answer, once there, stays: what is sent is the text of a draft     *)
(* that exists (TextInv).  So a transaction that has given a draft the     *)
(* status "published", or has found it with it, knows of an answer         *)
(* (AnswerInv), and an item that existed when a synchronisation began is   *)
(* on one of its two lists, within its pages or beyond (ListsInv).         *)
(***************************************************************************)
EXTENDS ReplyDraft, TLAPS

Lists == [existed : BOOLEAN, open : Results, answered : Results]

Types ==
    /\ wb \in [exists : BOOLEAN, answer : Nat]
    /\ draft \in Draft
    /\ pc \in [Txns -> Steps] /\ seen \in [Txns -> Draft]
    /\ set \in [Txns -> DraftStatuses]
    /\ lists \in [Syncs -> Lists]
    /\ texts \in Nat
    /\ used \in [requests : Nat, lost : Nat]

Generating == Generates \cup Regenerates \cup {Queue}

TextInv ==
    /\ draft = NoDraft \/ draft.text > 0
    /\ \A t \in Txns :
         /\ pc[t] = "text" => t \in Generating
         /\ (pc[t] = "text" /\ t \in Regenerates) => draft.text > 0
         /\ pc[t] \in {"flush", "send"} => seen[t].text > 0 /\ draft.text > 0
         /\ (pc[t] = "commit" /\ t \notin NoReplies) => seen[t].text > 0
         /\ (pc[t] = "commit" /\ t \notin Generates \cup {Queue} \cup NoReplies)
              => draft.text > 0
         /\ seen[t].st # "absent" => draft.text > 0

AnswerInv ==
    /\ draft.st = "published" => wb.answer # 0
    /\ \A t \in Txns : set[t] = "published" => wb.answer # 0

ListsInv ==
    \A s \in Syncs : lists[s].existed =>
        /\ pc[s] = "second" => wb.exists /\ (lists[s].open # "none" \/ wb.answer # 0)
        /\ pc[s] = "upsert" => lists[s].open # "none" \/ lists[s].answered # "none"

IInv == Types /\ TextInv /\ AnswerInv /\ ListsInv

LEMMA InitHolds == Init => IInv
<1> SUFFICES ASSUME Init PROVE IInv
  OBVIOUS
<1>1. NoDraft \in Draft /\ NoDraft.st = "absent"
  BY DEF NoDraft, Draft, DraftStatuses
<1>2. Types
  BY <1>1 DEF Init, Types, Steps, DraftStatuses, Lists, NoLists, Results
<1>3. TextInv /\ AnswerInv /\ ListsInv
  BY <1>1 DEF Init, TextInv, AnswerInv, ListsInv, NoLists
<1> QED BY <1>2, <1>3 DEF IInv

-----------------------------------------------------------------------------
(* Steps in general.                                                       *)

\* A transaction that ends, with a draft that is there if it was.
LEMMA EndKeeps ==
    ASSUME IInv, NEW t \in Txns, End(t),
           draft' \in Draft, draft' = NoDraft \/ draft'.text > 0,
           draft.text > 0 => draft'.text > 0,
           draft'.st = "published" => wb'.answer # 0,
           wb' \in [exists : BOOLEAN, answer : Nat],
           wb.exists => wb'.exists, wb.answer # 0 => wb'.answer # 0,
           lists' \in [Syncs -> Lists], \A s \in Syncs \ {t} : lists'[s] = lists[s],
           texts' = texts, used' \in [requests : Nat, lost : Nat]
    PROVE  IInv'
<1>1. NoDraft \in Draft /\ NoDraft.st = "absent"
  BY DEF NoDraft, Draft, DraftStatuses
<1>2. /\ pc'[t] = "idle" /\ seen'[t] = NoDraft /\ set'[t] = "absent"
      /\ \A u \in Txns \ {t} : pc'[u] = pc[u] /\ seen'[u] = seen[u] /\ set'[u] = set[u]
  BY DEF IInv, Types, End
<1>3. Types'
  BY <1>1 DEF IInv, Types, End, Steps, DraftStatuses
<1>4. TextInv'
  BY <1>1, <1>2 DEF IInv, TextInv, Generating
<1>5. AnswerInv'
  BY <1>2 DEF IInv, AnswerInv
<1>6. ListsInv'
  BY <1>2 DEF IInv, ListsInv, Txns
<1> QED BY <1>3, <1>4, <1>5, <1>6 DEF IInv

\* A transaction that goes on and leaves the draft and WB alone.
LEMMA GotoKeeps ==
    ASSUME IInv, NEW t \in Txns, NEW step \in Steps \ {"idle", "second", "upsert"},
           Goto(t, step), UNCHANGED <<wb, draft, lists>>,
           seen' \in [Txns -> Draft], set' \in [Txns -> DraftStatuses],
           \A u \in Txns \ {t} : seen'[u] = seen[u] /\ set'[u] = set[u],
           texts' \in Nat, used' \in [requests : Nat, lost : Nat],
           set'[t] = "published" => wb.answer # 0,
           seen'[t].st # "absent" => draft.text > 0,
           step = "text" => t \in Generating /\ (t \in Regenerates => draft.text > 0),
           step \in {"flush", "send"} => seen'[t].text > 0 /\ draft.text > 0,
           step = "commit" =>
             \/ t \in NoReplies
             \/ seen'[t].text > 0 /\ (t \in Generates \cup {Queue} \/ draft.text > 0)
    PROVE  IInv'
<1>1. /\ pc'[t] = step
      /\ \A u \in Txns \ {t} : pc'[u] = pc[u] /\ seen'[u] = seen[u] /\ set'[u] = set[u]
  BY DEF IInv, Types, Goto
<1>2. Types'
  BY DEF IInv, Types, Goto
<1>3. TextInv'
  BY <1>1 DEF IInv, TextInv, Generating
<1>4. AnswerInv' /\ ListsInv'
  BY <1>1 DEF IInv, AnswerInv, ListsInv, Txns
<1> QED BY <1>2, <1>3, <1>4 DEF IInv

\* The draft and the status in the memory of one transaction.
LEMMA MemoryFits ==
    ASSUME IInv, NEW t \in Txns,
           NEW d \in Draft, seen' = [seen EXCEPT ![t] = d],
           NEW st \in DraftStatuses, set' = [set EXCEPT ![t] = st]
    PROVE  /\ seen' \in [Txns -> Draft] /\ set' \in [Txns -> DraftStatuses]
           /\ seen'[t] = d /\ set'[t] = st
           /\ \A u \in Txns \ {t} : seen'[u] = seen[u] /\ set'[u] = set[u]
BY DEF IInv, Types

\* What is read of the draft.
LEMMA ReadFits ==
    ASSUME IInv
    PROVE  /\ draft \in Draft /\ draft.st \in DraftStatuses /\ draft.text \in Nat
           /\ draft.st = "published" => wb.answer # 0
           /\ draft.st # "absent" => draft.text > 0
           /\ draft # NoDraft => draft.text > 0
BY DEF IInv, Types, TextInv, AnswerInv, Draft, NoDraft

-----------------------------------------------------------------------------
(* Requests begin.                                                         *)

LEMMA StartFits ==
    ASSUME IInv, NEW t \in Txns, Start(t)
    PROVE  pc[t] = "idle" /\ used' \in [requests : Nat, lost : Nat]
BY DEF IInv, Types, Start

LEMMA RequestKeeps == ASSUME IInv, NEW t \in Operators, Request(t) PROVE IInv'
<1>1. t \in Txns /\ texts \in Nat /\ seen[t] \in Draft /\ set[t] \in DraftStatuses
  BY DEF Txns, IInv, Types
<1>2. CASE StartGenerate(t)
  <2>1. seen' = [seen EXCEPT ![t] = seen[t]] /\ set' = [set EXCEPT ![t] = set[t]]
    BY <1>1, <1>2 DEF StartGenerate, IInv, Types
  <2>2. /\ set[t] = "published" => wb.answer # 0
        /\ seen[t].st # "absent" => draft.text > 0
    BY <1>1 DEF IInv, AnswerInv, TextInv
  <2>3. Start(t) /\ Goto(t, "text") /\ UNCHANGED <<wb, draft, lists, texts>> /\ t \in Generates
    BY <1>2 DEF StartGenerate, history
  <2>4. t \notin Regenerates /\ t \in Generating
    BY <2>3, KindsAssumption DEF Generating
  <2>5. used' \in [requests : Nat, lost : Nat]
    BY <1>1, <2>3, StartFits
  <2> QED BY <1>1, <2>1, <2>2, <2>3, <2>4, <2>5, MemoryFits, GotoKeeps DEF Steps
<1>3. CASE StartRegenerate(t) \/ StartApprove(t) \/ StartPublish(t) \/ StartReject(t) \/ StartNoReply(t)
  <2>1. PICK step \in {"text", "flush", "send", "commit"} :
          /\ Goto(t, step) /\ Start(t) /\ Read(t) /\ UNCHANGED <<wb, draft, lists, texts>>
          /\ step = "text" => t \in Regenerates
          /\ t \notin NoReplies => draft # NoDraft
          /\ step \in {"flush", "send", "text"} => draft # NoDraft
          /\ t \notin Generates
          /\ step \in {"flush", "send"} => t \notin NoReplies
    <3>1. draft.st = "done" => draft # NoDraft
      BY DEF NoDraft
    <3> QED BY <1>3, <3>1, KindsAssumption DEF StartRegenerate, StartApprove, StartPublish,
            StartReject, StartNoReply, Publishable, history
  <2>2. seen' = [seen EXCEPT ![t] = draft] /\ set' = [set EXCEPT ![t] = draft.st]
    BY <2>1 DEF Read
  <2>3. used' \in [requests : Nat, lost : Nat]
    BY <1>1, <2>1, StartFits
  <2>4. step = "text" => t \in Generating
    BY <2>1 DEF Generating
  <2> QED BY <1>1, <2>1, <2>2, <2>3, <2>4, ReadFits, MemoryFits, GotoKeeps DEF Steps
<1> QED BY <1>2, <1>3 DEF Request

LEMMA QueueKeeps == ASSUME IInv, StartQueue PROVE IInv'
<1>1. /\ Queue \in Txns /\ texts \in Nat /\ seen[Queue] \in Draft /\ set[Queue] \in DraftStatuses
      /\ Queue \notin Regenerates /\ Queue \in Generating
  BY TxnsAssumption DEF Txns, Operators, IInv, Types, Generating
<1>2. seen' = [seen EXCEPT ![Queue] = seen[Queue]] /\ set' = [set EXCEPT ![Queue] = set[Queue]]
  BY <1>1 DEF StartQueue, IInv, Types
<1>3. /\ set[Queue] = "published" => wb.answer # 0
      /\ seen[Queue].st # "absent" => draft.text > 0
  BY <1>1 DEF IInv, AnswerInv, TextInv
<1>4. /\ Goto(Queue, "text") /\ UNCHANGED <<wb, draft, lists, texts>>
      /\ used' \in [requests : Nat, lost : Nat]
  BY <1>1, StartFits DEF StartQueue, history
<1> QED BY <1>1, <1>2, <1>3, <1>4, MemoryFits, GotoKeeps DEF Steps

-----------------------------------------------------------------------------
(* Texts.                                                                  *)

LEMMA HaveTextKeeps == ASSUME IInv, NEW t \in Txns, HaveText(t) PROVE IInv'
<1>1. /\ texts \in Nat /\ texts' = texts + 1 /\ set[t] \in DraftStatuses
      /\ seen[t] \in Draft /\ pc[t] = "text"
      /\ Goto(t, "commit") /\ UNCHANGED <<wb, draft, lists, used, set>>
      /\ used \in [requests : Nat, lost : Nat]
  BY DEF HaveText, IInv, Types
<1>2. /\ t \in Generating /\ (t \in Regenerates => draft.text > 0)
      /\ seen[t].st # "absent" => draft.text > 0
      /\ set[t] = "published" => wb.answer # 0
  BY <1>1 DEF IInv, TextInv, AnswerInv
<1>3. PICK d \in {[seen[t] EXCEPT !.text = texts + 1], [draft EXCEPT !.text = texts + 1]} :
        seen' = [seen EXCEPT ![t] = d]
  BY DEF HaveText
<1>4. d \in Draft /\ d.text = texts + 1 /\ (d.st = seen[t].st \/ d.st = draft.st)
  BY <1>1, <1>3, ReadFits DEF Draft
<1>5. set' = [set EXCEPT ![t] = set[t]]
  BY <1>1 DEF IInv, Types
<1>6. d.st # "absent" => draft.text > 0
  BY <1>2, <1>4, ReadFits
<1>7. d.text > 0 /\ texts' \in Nat /\ used' = used /\ "commit" \in Steps
  BY <1>1, <1>4 DEF Steps
<1>8. t \in Generates \cup {Queue} \/ draft.text > 0
  BY <1>2 DEF Generating
<1> HIDE DEF Goto
<1>9. /\ seen' \in [Txns -> Draft] /\ set' \in [Txns -> DraftStatuses]
      /\ seen'[t] = d /\ set'[t] = set[t]
      /\ \A u \in Txns \ {t} : seen'[u] = seen[u] /\ set'[u] = set[u]
  BY <1>1, <1>3, <1>4, <1>5, MemoryFits
<1> QED BY <1>1, <1>2, <1>6, <1>7, <1>8, <1>9, GotoKeeps

LEMMA NoTextKeeps == ASSUME IInv, NEW t \in Txns, NoText(t) PROVE IInv'
BY ReadFits, EndKeeps DEF NoText, history, IInv, Types

LEMMA SaveDraftKeeps == ASSUME IInv, NEW t \in Txns, SaveDraft(t) PROVE IInv'
<1>1. /\ End(t) /\ UNCHANGED <<wb, lists, texts, used>>
      /\ pc[t] = "commit" /\ t \in Generating
      /\ wb \in [exists : BOOLEAN, answer : Nat] /\ lists \in [Syncs -> Lists]
      /\ used \in [requests : Nat, lost : Nat]
  BY DEF SaveDraft, history, Generating, IInv, Types
<1>2. t \notin NoReplies
  BY <1>1, KindsAssumption, TxnsAssumption DEF Generating, Operators
<1>3. seen[t].text > 0 /\ seen[t].text \in Nat
  BY <1>1, <1>2 DEF IInv, TextInv, Types, Draft
<1>4. CASE draft' = draft
  BY <1>1, <1>4, ReadFits, EndKeeps
<1>5. CASE draft' = [st |-> Written(seen[t].st, "new", draft.st), text |-> seen[t].text]
  <2>1. Written(seen[t].st, "new", draft.st) \in {"new", draft.st}
    BY DEF Written
  <2>2. draft'.st \in {"new", draft.st} /\ draft'.text = seen[t].text /\ draft' \in Draft
    BY <1>3, <1>5, <2>1, ReadFits DEF Draft, DraftStatuses
  <2> QED BY <1>1, <1>3, <2>2, ReadFits, EndKeeps
<1> QED BY <1>4, <1>5 DEF SaveDraft

-----------------------------------------------------------------------------
(* Decisions.                                                              *)

LEMMA FlushApprovalKeeps == ASSUME IInv, NEW t \in Txns, FlushApproval(t) PROVE IInv'
<1>1. /\ seen[t] \in Draft /\ seen[t].text > 0 /\ draft.text > 0 /\ texts \in Nat
      /\ used \in [requests : Nat, lost : Nat]
  BY DEF FlushApproval, IInv, Types, TextInv
<1>2. seen' = [seen EXCEPT ![t] = seen[t]] /\ set' = [set EXCEPT ![t] = "done"]
  BY DEF FlushApproval, IInv, Types
<1>3. Goto(t, "send") /\ UNCHANGED <<wb, draft, lists, texts, used>>
  BY DEF FlushApproval, history
<1>4. texts' \in Nat /\ used' \in [requests : Nat, lost : Nat]
  BY <1>1, <1>3
<1>5. "send" \in Steps /\ "done" \in DraftStatuses
  BY DEF Steps, DraftStatuses
<1> QED BY <1>1, <1>2, <1>3, <1>4, <1>5, MemoryFits, GotoKeeps

\* WB has a text now, whoever sent it: nothing that was known of an answer is lost.
LEMMA AnswerKeeps ==
    ASSUME IInv, wb' \in [exists : BOOLEAN, answer : Nat],
           wb.exists => wb'.exists,
           wb'.answer # 0 \/ (~wb.exists /\ wb'.answer = wb.answer),
           UNCHANGED <<draft, pc, seen, set, lists>>,
           texts' \in Nat, used' \in [requests : Nat, lost : Nat]
    PROVE  IInv'
<1>1. wb.answer # 0 => wb'.answer # 0
  OBVIOUS
<1>2. Types' /\ TextInv' /\ AnswerInv'
  BY <1>1 DEF IInv, Types, TextInv, AnswerInv
<1>3. ListsInv'
  BY <1>1 DEF IInv, ListsInv
<1> QED BY <1>2, <1>3 DEF IInv

\* What other items do, and the settings, touch nothing of this one.
LEMMA AroundKeeps == ASSUME IInv, OthersMove \/ ScheduleChanges PROVE IInv'
<1>1. /\ UNCHANGED <<wb, item, draft, lock, pc, seen, sawItem, set, lists, texts, approved, sent>>
      /\ used' \in [requests : Nat, lost : Nat]
  BY DEF OthersMove, ScheduleChanges, work, history, IInv, Types
<1> QED BY <1>1 DEF IInv, Types, TextInv, AnswerInv, ListsInv

LEMMA OutsideKeeps == ASSUME IInv, Arrives \/ AnsweredElsewhere PROVE IInv'
<1>1. /\ wb \in [exists : BOOLEAN, answer : Nat] /\ texts \in Nat
      /\ used \in [requests : Nat, lost : Nat]
  BY DEF IInv, Types
<1>2. CASE Arrives
  <2>1. /\ wb' \in [exists : BOOLEAN, answer : Nat] /\ ~wb.exists /\ wb'.answer = wb.answer
        /\ texts' \in Nat /\ used' \in [requests : Nat, lost : Nat]
        /\ UNCHANGED <<draft, pc, seen, set, lists, texts, used>>
    BY <1>1, <1>2 DEF Arrives, work, history
  <2> QED BY <1>1, <2>1, AnswerKeeps
<1>3. CASE AnsweredElsewhere
  <2>1. wb' = [wb EXCEPT !.answer = texts + 1] /\ wb.exists
    BY <1>3 DEF AnsweredElsewhere
  <2>2. wb' \in [exists : BOOLEAN, answer : Nat] /\ wb'.exists /\ wb'.answer # 0
    BY <1>1, <2>1
  <2>3. UNCHANGED <<draft, pc, seen, set, lists, used>> /\ texts' = texts + 1
    BY <1>3 DEF AnsweredElsewhere, work
  <2>4. texts' \in Nat /\ used' \in [requests : Nat, lost : Nat]
    BY <1>1, <2>3
  <2> QED BY <2>2, <2>3, <2>4, AnswerKeeps
<1> QED BY <1>2, <1>3

\* Sent, or perhaps sent; what follows is the commit.
LEMMA SentKeeps ==
    ASSUME IInv, NEW t \in Txns, pc[t] = "send", Goto(t, "commit"),
           wb' = [wb EXCEPT !.answer = seen[t].text] \/ wb' = wb,
           NEW st \in DraftStatuses, set' = [set EXCEPT ![t] = st],
           st = "published" => wb'.answer # 0,
           UNCHANGED <<draft, seen, lists, texts>>, used' \in [requests : Nat, lost : Nat]
    PROVE  IInv'
<1>1. /\ wb \in [exists : BOOLEAN, answer : Nat] /\ seen[t].text \in Nat
      /\ seen[t].text > 0 /\ draft.text > 0
  BY DEF IInv, Types, TextInv, Draft
<1>2. /\ wb' \in [exists : BOOLEAN, answer : Nat] /\ wb'.exists = wb.exists
      /\ wb.answer # 0 => wb'.answer # 0
  BY <1>1
<1>3. /\ pc'[t] = "commit" /\ set'[t] = st
      /\ \A u \in Txns \ {t} : pc'[u] = pc[u] /\ set'[u] = set[u]
  BY DEF IInv, Types, Goto
<1>4. Types'
  BY <1>2 DEF IInv, Types, Goto, Steps
<1>5. TextInv' /\ AnswerInv'
  BY <1>1, <1>2, <1>3 DEF IInv, TextInv, AnswerInv
<1>6. ListsInv'
  BY <1>2, <1>3 DEF IInv, ListsInv, Txns
<1> QED BY <1>4, <1>5, <1>6 DEF IInv

LEMMA SendKeeps == ASSUME IInv, NEW t \in Txns, Send(t) PROVE IInv'
<1>1. wb'.answer # 0
  <2>1. seen[t].text > 0 /\ wb \in [exists : BOOLEAN, answer : Nat]
    BY DEF Send, IInv, TextInv, Types
  <2> QED BY <2>1 DEF Send
<1> QED BY <1>1, SentKeeps DEF Send, DraftStatuses, IInv, Types

LEMMA SendFailsKeeps == ASSUME IInv, NEW t \in Txns, SendFails(t) PROVE IInv'
<1>1. /\ used' \in [requests : Nat, lost : Nat] /\ pc[t] = "send"
      /\ wb' = [wb EXCEPT !.answer = seen[t].text] \/ wb' = wb
      /\ UNCHANGED <<draft, lists, texts>>
      /\ wb \in [exists : BOOLEAN, answer : Nat] /\ seen[t].text \in Nat /\ seen[t].text > 0
      /\ lists \in [Syncs -> Lists] /\ set[t] \in DraftStatuses
  BY DEF SendFails, IInv, Types, TextInv, Draft
<1>2. /\ wb' \in [exists : BOOLEAN, answer : Nat] /\ wb'.exists = wb.exists
      /\ wb.answer # 0 => wb'.answer # 0
  BY <1>1
<1>3. CASE Goto(t, "commit") /\ UNCHANGED <<seen, sawItem, set, lock>>
  <2>1. set' = [set EXCEPT ![t] = set[t]]
    BY <1>3 DEF IInv, Types
  <2>2. set[t] = "published" => wb'.answer # 0
    BY <1>2 DEF IInv, AnswerInv
  <2> QED BY <1>1, <1>3, <2>1, <2>2, SentKeeps
<1>4. CASE End(t)
  BY <1>1, <1>2, <1>4, ReadFits, EndKeeps
<1> QED BY <1>3, <1>4 DEF SendFails

\* The status a decision writes is one it may write of this draft.
LEMMA DecisionKeeps ==
    ASSUME IInv, NEW t \in Txns, End(t), UNCHANGED <<wb, lists, texts, used>>,
           NEW st \in DraftStatuses, draft' = [draft EXCEPT !.st = st],
           st = draft.st \/ draft.text > 0,
           st = "published" => wb.answer # 0
    PROVE  IInv'
<1>1. /\ draft' \in Draft /\ draft'.text = draft.text /\ draft'.st = st
      /\ st = draft.st => draft' = draft
  BY ReadFits DEF Draft
<1> QED BY <1>1, ReadFits, EndKeeps DEF IInv, Types

LEMMA CommitDecisionKeeps == ASSUME IInv, NEW t \in Txns, CommitDecision(t) PROVE IInv'
<1>1. /\ End(t) /\ UNCHANGED <<wb, lists, texts, used>> /\ pc[t] = "commit"
      /\ t \in Approvals \cup Publishes
  BY DEF CommitDecision, history
<1>2. t \notin Generates \cup {Queue} \cup NoReplies
  BY <1>1, KindsAssumption, TxnsAssumption DEF Operators
<1>3. /\ draft.text > 0 /\ set[t] \in DraftStatuses
      /\ set[t] = "published" => wb.answer # 0
  BY <1>1, <1>2 DEF IInv, TextInv, AnswerInv, Types
<1>4. PICK st \in {set[t], draft.st} : draft' = [draft EXCEPT !.st = st]
  BY DEF CommitDecision
<1> QED BY <1>1, <1>3, <1>4, ReadFits, DecisionKeeps

LEMMA CommitRejectKeeps == ASSUME IInv, NEW t \in Txns, CommitReject(t) PROVE IInv'
<1>1. /\ End(t) /\ UNCHANGED <<wb, lists, texts, used>> /\ pc[t] = "commit" /\ t \in Rejects
  BY DEF CommitReject, history
<1>2. t \notin Generates \cup {Queue} \cup NoReplies
  BY <1>1, KindsAssumption, TxnsAssumption DEF Operators
<1>3. draft.text > 0
  BY <1>1, <1>2 DEF IInv, TextInv
<1>4. PICK st \in {"ignored", draft.st} : draft' = [draft EXCEPT !.st = st]
  BY DEF CommitReject, Written
<1> QED BY <1>1, <1>3, <1>4, ReadFits, DecisionKeeps DEF DraftStatuses

LEMMA CommitNoReplyKeeps == ASSUME IInv, NEW t \in Txns, CommitNoReply(t) PROVE IInv'
<1>1. End(t) /\ UNCHANGED <<wb, lists, texts, used>>
  BY DEF CommitNoReply, history
<1>2. PICK st \in {"rejected", draft.st} :
        draft' = [draft EXCEPT !.st = st] /\ (st = draft.st \/ seen[t].st = "new")
  BY DEF CommitNoReply
<1>3. seen[t].st = "new" => draft.text > 0
  BY DEF IInv, TextInv
<1> QED BY <1>1, <1>2, <1>3, ReadFits, DecisionKeeps DEF DraftStatuses

-----------------------------------------------------------------------------
(* The synchronisation, and transactions that are lost.                    *)

LEMMA FoundType ==
    ASSUME NEW list, NEW atWB \in BOOLEAN
    PROVE  Found(list, atWB) \in Results /\ (Found(list, atWB) = "none" <=> ~atWB)
BY DEF Found, Results

LEMMA SyncKeeps ==
    ASSUME IInv, NEW s \in Syncs, StartSync(s) \/ ContinueSync(s)
    PROVE  IInv'
<1>1. PICK step \in {"second", "upsert"}, l \in Lists :
        /\ Goto(s, step) /\ lists' = [lists EXCEPT ![s] = l]
        /\ UNCHANGED <<wb, draft, seen, set, texts, used>>
        /\ (step = "second" /\ l.existed) => wb.exists /\ (l.open # "none" \/ wb.answer # 0)
        /\ (step = "upsert" /\ l.existed) => l.open # "none" \/ l.answered # "none"
  <2>1. CASE StartSync(s)
    <3> DEFINE l == FirstFetch([NoLists EXCEPT !.existed = wb.exists])
    <3>1. wb.exists \in BOOLEAN
      BY DEF IInv, Types
    <3>2. l \in Lists /\ l.existed = wb.exists /\ l.open = Found("open", OpenAtWB)
      BY <3>1, FoundType DEF FirstFetch, NoLists, Lists, Results, OpenAtWB
    <3>3. l.existed => wb.exists /\ (l.open # "none" \/ wb.answer # 0)
      BY <3>2, FoundType DEF OpenAtWB
    <3>4. lists' = [lists EXCEPT ![s] = l] /\ Goto(s, "second")
      BY <2>1 DEF StartSync
    <3>5. UNCHANGED <<wb, draft, seen, set, texts, used>>
      BY <2>1 DEF StartSync, history
    <3> HIDE DEF l
    <3> QED BY <3>2, <3>3, <3>4, <3>5
  <2>2. CASE ContinueSync(s)
    <3> DEFINE l == SecondFetch(lists[s])
    <3>1. /\ lists[s] \in Lists /\ pc[s] = "second"
          /\ lists[s].existed => wb.exists /\ (lists[s].open # "none" \/ wb.answer # 0)
      BY <2>2 DEF ContinueSync, IInv, Types, ListsInv
    <3>2. l \in Lists /\ l.existed = lists[s].existed /\ l.open = lists[s].open
          /\ l.answered = Found("answered", AnsweredAtWB)
      BY <3>1, FoundType DEF SecondFetch, Lists, AnsweredAtWB
    <3>3. l.existed => l.open # "none" \/ l.answered # "none"
      BY <3>1, <3>2, FoundType DEF AnsweredAtWB
    <3>4. lists' = [lists EXCEPT ![s] = l] /\ Goto(s, "upsert")
      BY <2>2 DEF ContinueSync
    <3>5. UNCHANGED <<wb, draft, seen, set, texts, used>>
      BY <2>2 DEF ContinueSync, history
    <3> HIDE DEF l
    <3> QED BY <3>2, <3>3, <3>4, <3>5
  <2> QED BY <2>1, <2>2
<1>2. s \in Txns /\ step \in Steps /\ step \notin {"idle", "text", "flush", "send", "commit"}
  BY DEF Txns, Steps
<1>3. /\ pc'[s] = step /\ lists'[s] = l
      /\ \A u \in Txns \ {s} : pc'[u] = pc[u]
      /\ \A u \in Syncs \ {s} : lists'[u] = lists[u]
  BY <1>1, <1>2 DEF IInv, Types, Goto
<1>4. Types'
  BY <1>1, <1>2 DEF IInv, Types, Goto
<1>5. TextInv' /\ AnswerInv'
  BY <1>1, <1>2, <1>3 DEF IInv, TextInv, AnswerInv
<1>6. ListsInv'
  BY <1>1, <1>3 DEF IInv, ListsInv, Txns
<1> QED BY <1>4, <1>5, <1>6 DEF IInv

LEMMA CommitSyncKeeps == ASSUME IInv, NEW s \in Syncs, CommitSync(s) PROVE IInv'
<1>1. s \in Txns /\ NoLists \in Lists
  BY DEF Txns, Lists, NoLists, Results
<1>2. lists' \in [Syncs -> Lists] /\ \A u \in Syncs \ {s} : lists'[u] = lists[u]
  BY <1>1 DEF CommitSync, IInv, Types
<1> QED BY <1>1, <1>2, ReadFits, EndKeeps DEF CommitSync, history, IInv, Types

LEMMA AbortKeeps == ASSUME IInv, NEW t \in Txns, Abort(t) PROVE IInv'
<1>1. NoLists \in Lists
  BY DEF Lists, NoLists, Results
<1>2. lists' \in [Syncs -> Lists] /\ \A u \in Syncs \ {t} : lists'[u] = lists[u]
  BY <1>1 DEF Abort, IInv, Types
<1>3. used' \in [requests : Nat, lost : Nat]
  BY DEF Abort, IInv, Types
<1> QED BY <1>2, <1>3, ReadFits, EndKeeps DEF Abort, history, IInv, Types

-----------------------------------------------------------------------------
LEMMA StepHolds == IInv /\ [Next]_vars => IInv'
<1> SUFFICES ASSUME IInv, [Next]_vars PROVE IInv'
  OBVIOUS
<1>1. CASE Arrives \/ AnsweredElsewhere \/ StartQueue \/ \E s \in Syncs : StartSync(s)
  BY <1>1, OutsideKeeps, QueueKeeps, SyncKeeps
<1>6. CASE OthersMove \/ ScheduleChanges
  BY <1>6, AroundKeeps
<1>2. ASSUME NEW t \in Operators, Request(t) PROVE IInv'
  BY <1>2, RequestKeeps
<1>3. ASSUME NEW t \in Txns, Step(t) PROVE IInv'
  BY <1>3, HaveTextKeeps, NoTextKeeps, SaveDraftKeeps, FlushApprovalKeeps, SendKeeps,
     CommitDecisionKeeps, CommitRejectKeeps, CommitNoReplyKeeps, SyncKeeps, CommitSyncKeeps
     DEF Step
<1>4. ASSUME NEW t \in Txns, SendFails(t) \/ Abort(t) PROVE IInv'
  BY <1>4, SendFailsKeeps, AbortKeeps
<1>5. CASE UNCHANGED vars
  BY <1>5 DEF vars, work, history, IInv, Types, TextInv, AnswerInv, ListsInv
<1> QED BY <1>1, <1>2, <1>3, <1>4, <1>5, <1>6 DEF Next

LEMMA Invariant == Spec => []IInv
BY InitHolds, StepHolds, PTL DEF Spec

\* A draft shown as published has an answer at WB, whatever approvals, publications and
\* lost answers overlap (publish_reply, approve_draft).
THEOREM PublishedAnswered == Spec => []PublishedIsAnswered
<1>1. IInv => PublishedIsAnswered
  BY DEF IInv, AnswerInv, PublishedIsAnswered
<1> QED BY <1>1, Invariant, PTL

\* An item that existed when a synchronisation began is known when it commits, unless it
\* was beyond the pages of a list and found in neither; and an answer it has found is not
\* undone by the older list (sync_reputation).
THEOREM NothingMissed == Spec => SyncMissesNothing
<1> DEFINE Missing ==
      \A s \in Syncs : (pc[s] = "upsert" /\ lists'[s] # lists[s] /\ used' = used) =>
         LET fetched == {lists[s].open, lists[s].answered}
         IN  /\ lists[s].existed =>
                  item' # "absent" \/ ("beyond" \in fetched /\ "found" \notin fetched)
             /\ lists[s].answered = "found" => item' = "answered"
<1>1. IInv /\ [Next]_vars => [Missing]_vars
  <2> SUFFICES ASSUME IInv, Next, NEW s \in Syncs,
                      pc[s] = "upsert", lists'[s] # lists[s], used' = used
               PROVE  /\ (lists[s].existed /\ item' = "absent") =>
                           /\ "beyond" \in {lists[s].open, lists[s].answered}
                           /\ "found" \notin {lists[s].open, lists[s].answered}
                      /\ lists[s].answered = "found" => item' = "answered"
    OBVIOUS
  <2>1. CommitSync(s)
    <3>1. ASSUME NEW t \in Txns, Abort(t) PROVE FALSE
      <4>1. used.lost \in Nat /\ used'.lost = used.lost + 1
        BY <3>1 DEF Abort, IInv, Types
      <4> QED BY <4>1
    <3>2. \A u \in Syncs : u # s => ~(StartSync(u) \/ ContinueSync(u) \/ CommitSync(u))
      BY DEF StartSync, ContinueSync, CommitSync, IInv, Types
    <3>3. ~StartSync(s) /\ ~ContinueSync(s)
      BY DEF StartSync, ContinueSync
    <3> QED BY <3>1, <3>2, <3>3 DEF Next, Request, Step, Arrives, AnsweredElsewhere, OthersMove,
            ScheduleChanges, StartQueue,
            StartGenerate, StartRegenerate, StartApprove, StartPublish, StartReject,
            StartNoReply, HaveText, NoText, SaveDraft, FlushApproval, Send, SendFails,
            CommitDecision, CommitReject, CommitNoReply
  <2>2. /\ lists[s].existed => lists[s].open # "none" \/ lists[s].answered # "none"
        /\ lists[s].open \in Results /\ lists[s].answered \in Results
    BY DEF IInv, ListsInv, Types, Lists
  <2>3. item' = Upserted(lists[s])
    BY <2>1 DEF CommitSync
  <2> QED BY <2>2, <2>3 DEF Upserted, Results
<1> QED BY <1>1, Invariant, PTL DEF Spec, SyncMissesNothing

-----------------------------------------------------------------------------
(***************************************************************************)
(* The rest of the types.  A text that is before somebody, was approved or *)
(* was sent had been generated; the draft's row is locked by the flush of  *)
(* an approval and by nothing else, and released when it ends.             *)
(***************************************************************************)
RowInv ==
    /\ lock \in {Nobody} \cup Approvals
    /\ lock # Nobody => pc[lock] \in {"send", "commit"}
    /\ \A t \in Txns : pc[t] = "flush" => t \in Approvals

GeneratedInv ==
    /\ draft.text <= texts /\ \A t \in Txns : seen[t].text <= texts
    /\ approved \subseteq 0 .. texts /\ sent \subseteq 0 .. texts

ItemInv == item \in ItemStatuses /\ sawItem \in [Txns -> ItemStatuses]

AroundInv == pages \subseteq ListNames /\ scheduled \in BOOLEAN

TInv == IInv /\ RowInv /\ GeneratedInv /\ ItemInv

LEMMA TypesHoldInitially == Init => TInv
<1> SUFFICES ASSUME Init PROVE TInv
  OBVIOUS
<1>1. IInv
  BY InitHolds
<1>2. RowInv /\ GeneratedInv /\ ItemInv
  BY DEF Init, RowInv, GeneratedInv, ItemInv, NoDraft, ItemStatuses
<1> QED BY <1>1, <1>2 DEF TInv

\* One transaction goes on or ends.
LEMMA RowKeeps ==
    ASSUME IInv, RowInv, NEW t \in Txns, NEW step \in Steps, Goto(t, step),
           lock' \in {lock, t, Nobody},
           lock' = t => t \in Approvals /\ step \in {"send", "commit"},
           step = "flush" => t \in Approvals
    PROVE  RowInv'
<1>1. pc'[t] = step /\ \A u \in Txns \ {t} : pc'[u] = pc[u]
  BY DEF IInv, Types, Goto
<1>2. Nobody \notin Txns /\ Approvals \subseteq Txns
  BY TxnsAssumption DEF Txns, Operators
<1> QED BY <1>1, <1>2 DEF RowInv

LEMMA EndKeepsRow == ASSUME IInv, RowInv, NEW t \in Txns, End(t) PROVE RowInv'
<1>1. Goto(t, "idle") /\ lock' \in {lock, Nobody} /\ lock' # t
  BY TxnsAssumption DEF End, Goto, Txns
<1> QED BY <1>1, RowKeeps DEF Steps

\* The texts that are known are among those that have been generated.
LEMMA GeneratedKeeps ==
    ASSUME IInv, GeneratedInv, NEW t \in Txns,
           texts' \in Nat, texts <= texts',
           draft'.text \in {draft.text, seen[t].text},
           \A u \in Txns : seen'[u].text \in {0, seen[u].text, seen[t].text, draft.text, texts'},
           approved' \in {approved, approved \cup {draft.text}},
           sent' \in {sent, sent \cup {seen[t].text}}
    PROVE  GeneratedInv'
<1>1. /\ texts \in Nat /\ draft.text \in Nat /\ \A u \in Txns : seen[u].text \in Nat
      /\ DOMAIN seen = Txns
  BY DEF IInv, Types, Draft
<1>2. draft.text <= texts' /\ \A u \in Txns : seen[u].text <= texts'
  BY <1>1 DEF GeneratedInv
<1>3. 0 .. texts \subseteq 0 .. texts'
  BY <1>1
<1>4. draft.text \in 0 .. texts' /\ seen[t].text \in 0 .. texts'
  BY <1>1, <1>2
<1>5. approved' \subseteq 0 .. texts' /\ sent' \subseteq 0 .. texts'
  BY <1>3, <1>4 DEF GeneratedInv
<1>6. draft'.text <= texts' /\ \A u \in Txns : seen'[u].text <= texts'
  BY <1>1, <1>2
<1> QED BY <1>5, <1>6 DEF GeneratedInv

\* What a transaction that ends has to say of the texts and the item.
LEMMA EndKeepsTypes ==
    ASSUME TInv, IInv', NEW t \in Txns, End(t), UNCHANGED <<texts, approved>>,
           draft'.text \in {draft.text, seen[t].text},
           sent' \in {sent, sent \cup {seen[t].text}}, item' \in ItemStatuses
    PROVE  TInv'
<1>1. RowInv'
  BY EndKeepsRow DEF TInv
<1>2. texts \in Nat /\ \A u \in Txns : seen'[u].text \in {0, seen[u].text}
  BY DEF TInv, IInv, Types, End, NoDraft
<1>3. GeneratedInv'
  BY <1>2, GeneratedKeeps DEF TInv
<1>4. ItemInv'
  BY DEF TInv, ItemInv, End, ItemStatuses
<1> QED BY <1>1, <1>3, <1>4 DEF TInv

\* A transaction that goes on and leaves the draft and the committed item alone.
LEMMA GotoKeepsTypes ==
    ASSUME TInv, IInv', NEW t \in Txns, NEW step \in Steps, Goto(t, step),
           lock' = lock \/ (lock' = t /\ t \in Approvals /\ step = "send"),
           pc[t] \in {"send", "commit"} => step \in {"send", "commit"},
           step = "flush" => t \in Approvals,
           texts' \in Nat, texts <= texts', UNCHANGED <<draft, item>>,
           \A u \in Txns : seen'[u].text \in {0, seen[u].text, seen[t].text, draft.text, texts'},
           approved' \in {approved, approved \cup {draft.text}},
           sent' \in {sent, sent \cup {seen[t].text}},
           sawItem' \in {sawItem, [sawItem EXCEPT ![t] = item]}
    PROVE  TInv'
<1>1. lock' = t => t \in Approvals /\ step \in {"send", "commit"}
  BY TxnsAssumption DEF TInv, RowInv, Txns
<1>2. RowInv'
  BY <1>1, RowKeeps DEF TInv
<1>3. GeneratedInv'
  BY GeneratedKeeps DEF TInv
<1>4. ItemInv'
  BY DEF TInv, ItemInv
<1> QED BY <1>2, <1>3, <1>4 DEF TInv

\* Requests begin with what they have read.
LEMMA RequestKeepsTypes ==
    ASSUME TInv, IInv', NEW t \in Txns, (t \in Operators /\ Request(t)) \/ (t = Queue /\ StartQueue)
    PROVE  TInv'
<1>1. texts \in Nat /\ seen[t] \in Draft
  BY DEF TInv, IInv, Types
<1>2. PICK step \in {"text", "flush", "send", "commit"} :
        /\ Goto(t, step) /\ pc[t] = "idle" /\ (step = "flush" => t \in Approvals)
        /\ UNCHANGED <<lock, texts, draft, item, sent>>
        /\ seen' = seen \/ seen' = [seen EXCEPT ![t] = draft]
        /\ approved' \in {approved, approved \cup {draft.text}}
        /\ sawItem' \in {sawItem, [sawItem EXCEPT ![t] = item]}
  BY DEF Request, StartGenerate, StartRegenerate, StartApprove, StartPublish, StartReject,
     StartNoReply, StartQueue, Start, Read, history
<1>3. texts' \in Nat /\ texts <= texts' /\ step \in Steps
  BY <1>1, <1>2 DEF Steps
<1>4. \A u \in Txns : seen'[u].text \in {seen[u].text, draft.text}
  BY <1>2 DEF TInv, IInv, Types
<1>5. pc[t] \notin {"send", "commit"}
  BY <1>2
<1> HIDE DEF Goto
<1> QED BY <1>2, <1>3, <1>4, <1>5, GotoKeepsTypes

LEMMA TextKeepsTypes == ASSUME TInv, IInv', NEW t \in Txns, HaveText(t) PROVE TInv'
<1>1. texts \in Nat /\ draft \in Draft /\ seen[t] \in Draft
  BY DEF TInv, IInv, Types
<1>2. PICK d \in {[seen[t] EXCEPT !.text = texts + 1], [draft EXCEPT !.text = texts + 1]} :
        seen' = [seen EXCEPT ![t] = d]
  BY DEF HaveText
<1>3. d.text = texts + 1
  BY <1>1, <1>2 DEF Draft
<1>4. /\ Goto(t, "commit") /\ pc[t] = "text" /\ texts' = texts + 1
      /\ UNCHANGED <<lock, draft, item, sawItem, approved, sent>>
  BY DEF HaveText
<1>5. texts' \in Nat /\ texts <= texts' /\ "commit" \in Steps /\ d.text = texts'
  BY <1>1, <1>3, <1>4 DEF Steps
<1>6. \A u \in Txns : seen'[u].text \in {seen[u].text, texts'}
  BY <1>2, <1>5 DEF TInv, IInv, Types
<1> QED BY <1>4, <1>5, <1>6, GotoKeepsTypes

LEMMA ApprovalKeepsTypes ==
    ASSUME TInv, IInv', NEW t \in Txns,
           FlushApproval(t) \/ Send(t) \/ (SendFails(t) /\ Goto(t, "commit") /\ UNCHANGED <<seen, sawItem, lock>>)
    PROVE  TInv'
<1>1. texts \in Nat /\ (pc[t] = "flush" => t \in Approvals)
  BY DEF TInv, IInv, Types, RowInv
<1>2. PICK step \in {"send", "commit"} :
        /\ Goto(t, step) /\ (lock' = lock \/ (lock' = t /\ t \in Approvals /\ step = "send"))
        /\ UNCHANGED <<texts, draft, item, seen, approved>>
        /\ sent' \in {sent, sent \cup {seen[t].text}}
        /\ sawItem' \in {sawItem, [sawItem EXCEPT ![t] = item]}
  BY <1>1 DEF FlushApproval, Send, SendFails, history
<1>3. texts' \in Nat /\ texts <= texts' /\ step \in Steps
  BY <1>1, <1>2 DEF Steps
<1> QED BY <1>2, <1>3, GotoKeepsTypes

LEMMA SyncKeepsTypes ==
    ASSUME TInv, IInv', NEW s \in Syncs, StartSync(s) \/ ContinueSync(s)
    PROVE  TInv'
<1>1. s \in Txns /\ texts \in Nat
  BY DEF Txns, TInv, IInv, Types
<1>2. PICK step \in {"second", "upsert"} :
        /\ Goto(s, step) /\ pc[s] \in {"idle", "second"}
        /\ UNCHANGED <<lock, texts, draft, item, seen, approved, sent, sawItem>>
  BY DEF StartSync, ContinueSync, history
<1>3. texts' \in Nat /\ texts <= texts' /\ step \in Steps
  BY <1>1, <1>2 DEF Steps
<1> QED BY <1>1, <1>2, <1>3, GotoKeepsTypes

\* A transaction that ends has written the draft's text or its own, and a status.
LEMMA EndedKeepsTypes ==
    ASSUME TInv, IInv', NEW t \in Txns,
           \/ NoText(t) \/ SaveDraft(t) \/ CommitDecision(t) \/ CommitReject(t)
           \/ CommitNoReply(t) \/ Abort(t) \/ (t \in Syncs /\ CommitSync(t))
           \/ (SendFails(t) /\ End(t))
    PROVE  TInv'
<1>1. item \in ItemStatuses /\ draft \in Draft
  BY DEF TInv, ItemInv, IInv, Types
<1>2. End(t) /\ UNCHANGED <<texts, approved>>
  BY DEF NoText, SaveDraft, CommitDecision, CommitReject, CommitNoReply, Abort, CommitSync,
     SendFails, history
<1>3. sent' \in {sent, sent \cup {seen[t].text}}
  BY DEF NoText, SaveDraft, CommitDecision, CommitReject, CommitNoReply, Abort, CommitSync,
     SendFails, history
<1>4. draft'.text \in {draft.text, seen[t].text}
  <2>1. \A st : [draft EXCEPT !.st = st].text = draft.text
    BY <1>1 DEF Draft
  <2>2. CASE UNCHANGED draft
    BY <2>2
  <2>3. CASE SaveDraft(t)
    BY <2>3 DEF SaveDraft
  <2>4. CASE CommitDecision(t) \/ CommitReject(t) \/ CommitNoReply(t)
    BY <2>1, <2>4 DEF CommitDecision, CommitReject, CommitNoReply
  <2> QED BY <2>2, <2>3, <2>4 DEF NoText, Abort, CommitSync, SendFails
<1>5. item' \in ItemStatuses
  BY <1>1 DEF NoText, SaveDraft, CommitDecision, CommitReject, CommitNoReply, Abort, CommitSync,
     SendFails, Written, Upserted, ItemStatuses
<1> QED BY <1>2, <1>3, <1>4, <1>5, EndKeepsTypes

LEMMA TypesStep == TInv /\ [Next]_vars => TInv'
<1> SUFFICES ASSUME TInv, [Next]_vars PROVE TInv'
  OBVIOUS
<1>1. IInv'
  BY StepHolds DEF TInv
<1>2. /\ Queue \in Txns /\ Syncs \subseteq Txns /\ Operators \subseteq Txns
  BY DEF Txns
<1>3. CASE Arrives \/ AnsweredElsewhere
  <2>1. /\ UNCHANGED <<item, draft, lock, pc, seen, sawItem, approved, sent>>
        /\ texts' \in {texts, texts + 1}
    BY <1>3 DEF Arrives, AnsweredElsewhere, work, history
  <2>2. texts \in Nat /\ texts <= texts' /\ texts' \in Nat
    BY <2>1 DEF TInv, IInv, Types
  <2>3. RowInv' /\ ItemInv'
    BY <2>1 DEF TInv, RowInv, ItemInv
  <2>4. GeneratedInv'
    BY <1>2, <2>1, <2>2, GeneratedKeeps DEF TInv
  <2> QED BY <1>1, <2>3, <2>4 DEF TInv
<1>4. CASE StartQueue \/ \E t \in Operators : Request(t)
  BY <1>1, <1>2, <1>4, RequestKeepsTypes
<1>10. CASE OthersMove \/ ScheduleChanges
  BY <1>1, <1>10 DEF OthersMove, ScheduleChanges, work, history, TInv, RowInv, GeneratedInv,
     ItemInv
<1>5. CASE \E s \in Syncs : StartSync(s)
  BY <1>1, <1>5, SyncKeepsTypes
<1>6. ASSUME NEW t \in Txns, Step(t) PROVE TInv'
  BY <1>1, <1>6, TextKeepsTypes, ApprovalKeepsTypes, SyncKeepsTypes, EndedKeepsTypes DEF Step
<1>7. ASSUME NEW t \in Txns, SendFails(t) PROVE TInv'
  <2>1. End(t) \/ (Goto(t, "commit") /\ UNCHANGED <<seen, sawItem, lock>>)
    BY <1>7 DEF SendFails
  <2> QED BY <1>1, <1>7, <2>1, ApprovalKeepsTypes, EndedKeepsTypes
<1>8. ASSUME NEW t \in Txns, Abort(t) PROVE TInv'
  BY <1>1, <1>8, EndedKeepsTypes
<1>9. CASE UNCHANGED vars
  BY <1>1, <1>9 DEF vars, work, history, TInv, RowInv, GeneratedInv, ItemInv
<1> QED BY <1>3, <1>4, <1>5, <1>6, <1>7, <1>8, <1>9, <1>10 DEF Next

LEMMA AroundStep == AroundInv /\ [Next]_vars => AroundInv'
<1> SUFFICES ASSUME AroundInv, [Next]_vars, ~OthersMove, ~ScheduleChanges PROVE UNCHANGED around
  BY DEF AroundInv, around, OthersMove, ScheduleChanges
<1>1. ASSUME NEW t \in Operators, Request(t) PROVE UNCHANGED around
  BY <1>1 DEF Request, StartGenerate, StartRegenerate, StartApprove, StartPublish, StartReject,
     StartNoReply
<1>2. ASSUME NEW t \in Txns, Step(t) \/ SendFails(t) \/ Abort(t) PROVE UNCHANGED around
  BY <1>2 DEF Step, HaveText, NoText, SaveDraft, FlushApproval, Send, SendFails, CommitDecision,
     CommitReject, CommitNoReply, ContinueSync, CommitSync, Abort
<1> QED BY <1>1, <1>2 DEF Next, vars, Arrives, AnsweredElsewhere, StartQueue, StartSync

\* Every variable keeps its type; only an approval that is calling WB, or has called it,
\* holds the draft's row (approve_draft); no text is approved or sent that was never
\* generated.
THEOREM TypeCorrect == Spec => []TypeOK
<1>1. TInv /\ AroundInv => TypeOK
  BY DEF TInv, IInv, Types, RowInv, GeneratedInv, ItemInv, AroundInv, TypeOK, Lists
<1>2. Init => AroundInv
  BY DEF Init, AroundInv
<1> QED BY <1>1, <1>2, TypesHoldInitially, TypesStep, AroundStep, PTL DEF Spec
=============================================================================
