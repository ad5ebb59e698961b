----------------------------- MODULE ReplyDraft -----------------------------
(***************************************************************************)
(* The reply to one review or question of a buyer (app/services/           *)
(* reputation.py): the item as WB has it, the local copy the               *)
(* synchronisation keeps, and the one draft there is of its reply.         *)
(*                                                                         *)
(* Requests and jobs are transactions of their own.  Each loads the draft, *)
(* works for a while (a text is generated, WB is called), and then writes  *)
(* the columns it has changed: an attribute that is set to the value that  *)
(* was loaded is not part of the UPDATE.  Publishing is enabled            *)
(* (enable_reputation_publish), so that an approval sends the reply.       *)
(*                                                                         *)
(* A list of WB is fetched as its newest 20 pages of 100 items: an older   *)
(* item is beyond them.                                                    *)
(***************************************************************************)
EXTENDS Naturals, FiniteSets

CONSTANTS
    Generates,      \* generate_draft called by operators
    Queue,          \* the auto-draft queue
    Regenerates,    \* regenerate_draft
    Approvals,      \* approve_draft, and approve_all_drafts of a new draft
    Publishes,      \* publish_reply
    Rejects,        \* reject_draft
    NoReplies,      \* mark_no_reply_needed
    Syncs,          \* sync_reputation
    Nobody,
    MaxRequests,    \* bound: requests of operators, changes of what the pages have
                    \* and of the settings
    MaxTexts,       \* bound: generated texts
    MaxLost         \* bound: transactions aborted and answers of WB lost

Operators == Generates \cup Regenerates \cup Approvals \cup Publishes \cup Rejects \cup NoReplies
Txns == Operators \cup {Queue} \cup Syncs

ASSUME TxnsAssumption ==
    /\ Nobody \notin Txns /\ Queue \notin Operators \cup Syncs /\ Syncs \cap Operators = {}
\* A request is of one kind; only those that generate a text or say that no reply is
\* needed do without a draft.
ASSUME KindsAssumption ==
    LET drafted == Regenerates \cup Approvals \cup Publishes \cup Rejects
    IN  Generates \cap (drafted \cup NoReplies) = {} /\ NoReplies \cap drafted = {}
ASSUME BoundsAssumption == {MaxRequests, MaxTexts, MaxLost} \subseteq Nat

VARIABLES
    wb,         \* at WB: does the item exist, and which text answers it; 0 for none
    pages,      \* the lists (open, answered) whose newest pages reach the item
    scheduled,  \* does the nightly job take the account?
    item,       \* committed local copy: status, "absent" before the first sync
    draft,      \* committed draft: status and text
    lock,       \* the transaction that holds the draft's row
    pc,         \* where each transaction is
    seen,       \* the draft as it has loaded it
    sawItem,    \* the item's status as it has loaded it
    set,        \* the status it has given the draft in memory
    lists,      \* what a synchronisation has found in the lists it has fetched, and
                \* whether the item existed when it began
    texts,      \* texts generated so far
    approved,   \* texts a manager had before him when he approved
    sent,       \* texts sent to WB
    used        \* how much of each bound is used

work == <<pc, seen, sawItem, set>>
history == <<texts, approved, sent>>
around == <<pages, scheduled>>
vars == <<wb, around, item, draft, lock, work, lists, history, used>>

-----------------------------------------------------------------------------
ItemStatuses == {"absent", "needs_reply", "draft_ready", "answered", "ignored"}
DraftStatuses == {"absent", "new", "done", "published", "ignored", "rejected"}
Steps == {"idle", "text", "find", "flush", "send", "commit", "second", "upsert"}

Draft == [st : DraftStatuses, text : Nat]
NoDraft == [st |-> "absent", text |-> 0]
ListNames == {"open", "answered"}
Results == {"none", "found", "beyond"}
NoLists == [existed |-> FALSE, open |-> "none", answered |-> "none"]

Init ==
    /\ wb = [exists |-> FALSE, answer |-> 0]
    /\ pages = ListNames /\ scheduled = TRUE
    /\ item = "absent" /\ draft = NoDraft /\ lock = Nobody
    /\ pc = [t \in Txns |-> "idle"]
    /\ seen = [t \in Txns |-> NoDraft]
    /\ sawItem = [t \in Txns |-> "absent"]
    /\ set = [t \in Txns |-> "absent"]
    /\ lists = [s \in Syncs |-> NoLists]
    /\ texts = 0 /\ approved = {} /\ sent = {}
    /\ used = [requests |-> 0, lost |-> 0]

Goto(t, step) == pc' = [pc EXCEPT ![t] = step]

\* The transaction has read the draft and the item.
Read(t) ==
    /\ seen' = [seen EXCEPT ![t] = draft]
    /\ sawItem' = [sawItem EXCEPT ![t] = item]
    /\ set' = [set EXCEPT ![t] = draft.st]

RowFree(t) == lock \in {Nobody, t}

\* Its columns after the UPDATE: the row's, unless it has changed them.
Written(was, now, row) == IF now # was THEN now ELSE row

\* A request starts: only so many do.
Start(t) ==
    /\ pc[t] = "idle"
    /\ t \in Operators => used.requests < MaxRequests
    /\ used' = IF t \in Operators THEN [used EXCEPT !.requests = @ + 1] ELSE used

\* A transaction that ends leaves nothing behind in memory.
End(t) ==
    /\ pc' = [pc EXCEPT ![t] = "idle"]
    /\ seen' = [seen EXCEPT ![t] = NoDraft]
    /\ sawItem' = [sawItem EXCEPT ![t] = "absent"]
    /\ set' = [set EXCEPT ![t] = "absent"]
    /\ lock' = IF lock = t THEN Nobody ELSE lock

-----------------------------------------------------------------------------
(* WB: buyers write, and the seller may answer in WB's own cabinet.        *)

Arrives ==
    /\ ~wb.exists
    /\ wb' = [wb EXCEPT !.exists = TRUE]
    /\ UNCHANGED <<around, item, draft, lock, work, lists, history, used>>

AnsweredElsewhere ==
    /\ wb.exists /\ wb.answer = 0 /\ texts < MaxTexts
    /\ texts' = texts + 1
    /\ wb' = [wb EXCEPT !.answer = texts + 1]
    /\ UNCHANGED <<around, item, draft, lock, work, lists, approved, sent, used>>

\* Other items are written, answered and removed, so that the newest pages of a list
\* reach the item no more, or again.
OthersMove ==
    /\ used.requests < MaxRequests
    /\ used' = [used EXCEPT !.requests = @ + 1]
    /\ pages' \in SUBSET ListNames
    /\ UNCHANGED <<wb, scheduled, item, draft, lock, work, lists, history>>

\* automation_enabled and auto_sync of the account, its token, and its place among the
\* first 20 that have one.
ScheduleChanges ==
    /\ used.requests < MaxRequests
    /\ used' = [used EXCEPT !.requests = @ + 1]
    /\ scheduled' = ~scheduled
    /\ UNCHANGED <<wb, pages, item, draft, lock, work, lists, history>>

-----------------------------------------------------------------------------
(* Drafts.                                                                 *)

\* generate_draft: the item is loaded, the draft not yet.
StartGenerate(t) ==
    /\ t \in Generates /\ Start(t) /\ item # "absent"
    /\ sawItem' = [sawItem EXCEPT ![t] = item]
    /\ Goto(t, "text")
    /\ UNCHANGED <<wb, around, item, draft, lock, seen, set, lists, history>>

\* process_auto_draft_queue: items that need a reply and have no new or approved
\* draft.
Drafted == draft.st \in {"new", "done"}

StartQueue ==
    /\ Start(Queue) /\ item = "needs_reply" /\ ~Drafted
    /\ sawItem' = [sawItem EXCEPT ![Queue] = item]
    /\ Goto(Queue, "text")
    /\ UNCHANGED <<wb, around, item, draft, lock, seen, set, lists, history>>

\* regenerate_draft: the draft is loaded before the text is generated.
StartRegenerate(t) ==
    /\ t \in Regenerates /\ Start(t) /\ draft # NoDraft /\ item # "absent"
    /\ Read(t) /\ Goto(t, "text")
    /\ UNCHANGED <<wb, around, item, draft, lock, lists, history>>

\* The text is there.  _persist_draft looks the draft up only now.
HaveText(t) ==
    /\ pc[t] = "text" /\ texts < MaxTexts
    /\ texts' = texts + 1
    /\ IF t \in Regenerates
       THEN seen' = [seen EXCEPT ![t].text = texts + 1]
       ELSE seen' = [seen EXCEPT ![t] = [draft EXCEPT !.text = texts + 1]]
    /\ Goto(t, "commit")
    /\ UNCHANGED <<wb, around, item, draft, lock, sawItem, set, lists, approved, sent, used>>

\* Generation is blocked or fails: the draft stays as it is.
NoText(t) ==
    /\ pc[t] = "text" /\ End(t)
    /\ UNCHANGED <<wb, around, item, draft, lists, history, used>>

\* The unique constraint on the draft's source.
Collides(t) == seen[t].st = "absent" /\ draft # NoDraft

SaveDraft(t) ==
    /\ pc[t] = "commit" /\ t \in Generates \cup Regenerates \cup {Queue} /\ RowFree(t)
    /\ IF Collides(t) THEN UNCHANGED <<draft, item>>
       ELSE /\ draft' = [st |-> Written(seen[t].st, "new", draft.st), text |-> seen[t].text]
            /\ item' = IF t \in Regenerates THEN item
                       ELSE Written(sawItem[t], "draft_ready", item)
    /\ End(t)
    /\ UNCHANGED <<wb, around, lists, history, used>>

-----------------------------------------------------------------------------
(* Decisions.                                                              *)

\* approve_draft looks at no status; approve_all_drafts takes the new ones.
StartApprove(t) ==
    /\ t \in Approvals /\ Start(t) /\ draft # NoDraft /\ item # "absent"
    /\ Read(t) /\ Goto(t, "flush")
    /\ approved' = approved \cup {draft.text}
    /\ UNCHANGED <<wb, around, item, draft, lock, lists, texts, sent>>

\* The approval is flushed by the SELECT of the item, so that its row is locked while
\* WB is called.
FlushApproval(t) ==
    /\ pc[t] = "flush" /\ RowFree(t)
    /\ lock' = t
    /\ sawItem' = [sawItem EXCEPT ![t] = item]
    /\ set' = [set EXCEPT ![t] = "done"]
    /\ Goto(t, "send")
    /\ UNCHANGED <<wb, around, item, draft, seen, lists, history, used>>

Publishable(st) == st = "done"

StartPublish(t) ==
    /\ t \in Publishes /\ Start(t) /\ Publishable(draft.st) /\ item # "absent"
    /\ Read(t) /\ Goto(t, "send")
    /\ UNCHANGED <<wb, around, item, draft, lock, lists, history>>

\* WB takes the reply and says so.
Send(t) ==
    /\ pc[t] = "send"
    /\ wb' = [wb EXCEPT !.answer = seen[t].text]
    /\ sent' = sent \cup {seen[t].text}
    /\ set' = [set EXCEPT ![t] = "published"]
    /\ Goto(t, "commit")
    /\ UNCHANGED <<around, item, draft, lock, seen, sawItem, lists, texts, approved, used>>

PublishedAnyway(t) ==                                                  \* mutant
    /\ pc[t] = "send" /\ used.lost < MaxLost
    /\ used' = [used EXCEPT !.lost = @ + 1]
    /\ set' = [set EXCEPT ![t] = "published"]
    /\ Goto(t, "commit")
    /\ UNCHANGED <<wb, around, item, draft, lock, seen, sawItem, lists, history>>

\* WB refuses, or takes it and the answer is lost: the same exception.  An approval
\* is committed all the same, a publication is not.
SendFails(t) ==
    /\ pc[t] = "send" /\ used.lost < MaxLost
    /\ used' = [used EXCEPT !.lost = @ + 1]
    /\ \/ UNCHANGED <<wb, sent>>
       \/ /\ wb' = [wb EXCEPT !.answer = seen[t].text]
          /\ sent' = sent \cup {seen[t].text}
    /\ IF t \in Approvals
       THEN Goto(t, "commit") /\ UNCHANGED <<seen, sawItem, set, lock>>
       ELSE End(t)
    /\ UNCHANGED <<around, item, draft, lists, texts, approved>>

\* Whether the transaction's UPDATEs contain the status: an approval flushes it once
\* before WB is called and once more afterwards.
StatusWritten(t) ==
    IF set[t] = "done" THEN seen[t].st # "done" ELSE TRUE

CommitDecision(t) ==
    /\ pc[t] = "commit" /\ t \in Approvals \cup Publishes /\ RowFree(t)
    /\ draft' = [draft EXCEPT !.st = IF StatusWritten(t) THEN set[t] ELSE @]
    /\ item' = IF set[t] = "published" THEN Written(sawItem[t], "answered", item) ELSE item
    /\ End(t)
    /\ UNCHANGED <<wb, around, lists, history, used>>

StartReject(t) ==
    /\ t \in Rejects /\ Start(t) /\ draft # NoDraft
    /\ Read(t) /\ Goto(t, "commit")
    /\ UNCHANGED <<wb, around, item, draft, lock, lists, history>>

CommitReject(t) ==
    /\ pc[t] = "commit" /\ t \in Rejects /\ RowFree(t)
    /\ draft' = [draft EXCEPT !.st = Written(seen[t].st, "ignored", @)]
    /\ End(t)
    /\ UNCHANGED <<wb, around, item, lists, history, used>>

StartNoReply(t) ==
    /\ t \in NoReplies /\ Start(t) /\ item # "absent"
    /\ Read(t) /\ Goto(t, "commit")
    /\ UNCHANGED <<wb, around, item, draft, lock, lists, history>>

CommitNoReply(t) ==
    /\ pc[t] = "commit" /\ t \in NoReplies /\ (seen[t].st = "new" => RowFree(t))
    /\ item' = Written(sawItem[t], "ignored", item)
    /\ draft' = [draft EXCEPT !.st = IF seen[t].st = "new" THEN "rejected" ELSE @]
    /\ End(t)
    /\ UNCHANGED <<wb, around, lists, history, used>>

-----------------------------------------------------------------------------
(* The synchronisation: first the list of the unanswered items is fetched, *)
(* then that of the answered ones, and both are written in this order.     *)

OpenAtWB == wb.exists /\ wb.answer = 0
AnsweredAtWB == wb.exists /\ wb.answer # 0

Found(list, atWB) ==
    IF ~atWB THEN "none" ELSE IF list \in pages THEN "found" ELSE "beyond"

FirstFetch(l) == [l EXCEPT !.open = Found("open", OpenAtWB)]
SecondFetch(l) == [l EXCEPT !.answered = Found("answered", AnsweredAtWB)]

StartSync(s) ==
    /\ pc[s] = "idle"
    /\ lists' = [lists EXCEPT ![s] = FirstFetch([NoLists EXCEPT !.existed = wb.exists])]
    /\ Goto(s, "second")
    /\ UNCHANGED <<wb, around, item, draft, lock, seen, sawItem, set, history, used>>

ContinueSync(s) ==
    /\ pc[s] = "second"
    /\ lists' = [lists EXCEPT ![s] = SecondFetch(@)]
    /\ Goto(s, "upsert")
    /\ UNCHANGED <<wb, around, item, draft, lock, seen, sawItem, set, history, used>>

OpenWins(l) ==                                                         \* mutant
    IF l.open = "found" THEN "needs_reply"
    ELSE IF l.answered = "found" THEN "answered" ELSE item
OpenOnly(l) == IF l.open = "found" THEN "needs_reply" ELSE item        \* mutant
Upserted(l) ==
    IF l.answered = "found" THEN "answered"
    ELSE IF l.open = "found" THEN "needs_reply" ELSE item

CommitSync(s) ==
    /\ pc[s] = "upsert"
    /\ item' = Upserted(lists[s])
    /\ lists' = [lists EXCEPT ![s] = NoLists]
    /\ End(s)
    /\ UNCHANGED <<wb, around, draft, history, used>>

\* lock_timeout, a deadlock, an error or a restart ends a transaction.
Abort(t) ==
    /\ pc[t] # "idle" /\ used.lost < MaxLost
    /\ used' = [used EXCEPT !.lost = @ + 1]
    /\ lists' = IF t \in Syncs THEN [lists EXCEPT ![t] = NoLists] ELSE lists
    /\ End(t)
    /\ UNCHANGED <<wb, around, item, draft, history>>

-----------------------------------------------------------------------------
\* What a transaction that has started does next.
Step(t) ==
    \/ HaveText(t) \/ NoText(t) \/ SaveDraft(t)
    \/ FlushApproval(t) \/ Send(t) \/ CommitDecision(t)
    \/ CommitReject(t) \/ CommitNoReply(t)
    \/ t \in Syncs /\ (ContinueSync(t) \/ CommitSync(t))

Request(t) ==
    \/ StartGenerate(t) \/ StartRegenerate(t) \/ StartApprove(t) \/ StartPublish(t)
    \/ StartReject(t) \/ StartNoReply(t)

Next ==
    \/ Arrives \/ AnsweredElsewhere \/ OthersMove \/ ScheduleChanges
    \/ StartQueue \/ \E s \in Syncs : StartSync(s)
    \/ \E t \in Operators : Request(t)
    \/ \E t \in Txns : Step(t) \/ SendFails(t) \/ Abort(t)

Spec == Init /\ [][Next]_vars

\* The nightly job; an operator may ask for a synchronisation at any time.
NightlySync(s) == scheduled /\ StartSync(s)

\* A synchronisation starts every night as long as the account is one of those the job
\* takes, and every transaction comes to an end.
FairSpec ==
    /\ Spec
    /\ \A s \in Syncs : WF_vars(NightlySync(s))
    /\ \A t \in Txns : SF_vars(Step(t))

-----------------------------------------------------------------------------
(***************************************************************************)
(* Types; the draft's row is held by an approval that calls WB only.       *)
(***************************************************************************)
TypeOK ==
    /\ wb \in [exists : BOOLEAN, answer : Nat]
    /\ pages \subseteq ListNames /\ scheduled \in BOOLEAN
    /\ item \in ItemStatuses /\ draft \in Draft
    /\ lock \in {Nobody} \cup Approvals
    /\ lock # Nobody => pc[lock] \in {"send", "commit"}
    /\ pc \in [Txns -> Steps] /\ seen \in [Txns -> Draft]
    /\ sawItem \in [Txns -> ItemStatuses] /\ set \in [Txns -> DraftStatuses]
    /\ lists \in [Syncs -> [existed : BOOLEAN, open : Results, answered : Results]]
    /\ texts \in Nat /\ approved \subseteq 0 .. texts /\ sent \subseteq 0 .. texts
    /\ used \in [requests : Nat, lost : Nat]

(***************************************************************************)
(* A draft is shown as published only if WB has an answer, whatever        *)
(* approvals, publications, lost answers of WB and aborted transactions    *)
(* overlap.                                                                *)
(***************************************************************************)
PublishedIsAnswered == draft.st = "published" => wb.answer # 0

(***************************************************************************)
(* A synchronisation misses only what the pages do not reach: an item that *)
(* existed when it began is known when it commits, although the item may   *)
(* have moved from the list of the unanswered to that of the answered      *)
(* between the two requests, unless it was beyond the pages of a list and  *)
(* the pages of neither had it; and an answer found in the second list is  *)
(* not undone by the older list.                                           *)
(***************************************************************************)
SyncMissesNothing ==
    [][\A s \in Syncs : (pc[s] = "upsert" /\ lists'[s] # lists[s] /\ used' = used) =>
         LET fetched == {lists[s].open, lists[s].answered}
         IN  /\ lists[s].existed =>
                  item' # "absent" \/ ("beyond" \in fetched /\ "found" \notin fetched)
             /\ lists[s].answered = "found" => item' = "answered"]_vars

(***************************************************************************)
(* An answer is eventually shown: whichever way it came to WB, and even if *)
(* the transaction that sent it was lost, the item ends up answered, as    *)
(* long as the nightly job takes the account and the item is among the     *)
(* newest the pages have of the answered ones.                             *)
(***************************************************************************)
AnswerIsShown ==
    <>[](wb.answer # 0 /\ scheduled /\ "answered" \in pages) => <>[](item = "answered")

\* "Marketplace writes remain blocked unless manual confirm, ... approved draft ...
\* are all satisfied": a text that was sent had been approved.
OnlyApprovedIsSent == sent \subseteq approved

=============================================================================
