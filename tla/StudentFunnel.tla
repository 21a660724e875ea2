---------------------------- MODULE StudentFunnel ----------------------------
(***************************************************************************)
(* One student on the way to `approved': onboarding, the receipts he sends *)
(* and the admins review, /ban and /unban, with the job that posts again   *)
(* the receipts whose card did not reach the admin group.                  *)
(*                                                                         *)
(* Each update is handled in a transaction of its own that the middleware  *)
(* commits after the handler returned.  UserLoaderMiddleware fixes its     *)
(* snapshot, and every plain read of the handler is of that snapshot; an   *)
(* UPDATE locks the row, reads what is committed in it and keeps the lock  *)
(* until the end of the transaction.  Redis (the FSM, the submit lock) and *)
(* Telegram (the cards) are changed at once and are not rolled back.       *)
(*                                                                         *)
(* A step is what a handler does up to its next effect that others see, or *)
(* an exception before it.                                                 *)
(***************************************************************************)
EXTENDS Integers, FiniteSets

CONSTANTS
    Worker,       \* bound: the activations that may run at the same time
    MaxPending,   \* max_pending_per_user, 3 in the code
    MaxReceipts,  \* bound: the receipts ever inserted
    MaxCodes,     \* bound: the reference codes ever generated
    MaxFaults,    \* bound: failed transactions and sends, crashes, stalls
    Kinds,        \* bound: the kinds of updates that come
    Start         \* where the student is at first, see Init

ASSUME WorkersAssumption == IsFiniteSet(Worker) /\ Worker # {}
ASSUME CapAssumption == MaxPending \in Nat \ {0}
ASSUME LimitsAssumption ==
    MaxReceipts \in Nat /\ MaxCodes \in Nat \ {0} /\ MaxFaults \in Nat
ASSUME StartAssumption == Start \in {"new", "pending_payment"}

ReceiptId == 1..MaxReceipts
None      == 0        \* no receipt, no reference code

UserStatus == {"new", "onboarding_phone", "onboarding_name",
               "pending_payment", "pending_approval", "approved",
               "rejected", "banned"}
UserRow    == [status : UserStatus,
               stamped : BOOLEAN,               \* approved_at is not NULL
               code : 0..MaxCodes]              \* reference_code
ReceiptRow == [status : {"absent", "pending", "approved", "rejected"},
               posted : BOOLEAN]  \* admin_notification_message_id not NULL
NoReceipt  == [status |-> "absent", posted |-> FALSE]

\* What one update asks for: of the student, or of an admin.
StudentOp == {"start", "begin", "contact", "name", "i_paid", "photo"}
AdminOp   == {"approve", "reject", "reason", "ban", "unban"}
Request ==
    [op : StudentOp \cup {"ban", "unban", "reason"}, receipt : {None}]
        \cup [op : {"approve", "reject"}, receipt : ReceiptId]

ASSUME KindsAssumption == Kinds \subseteq StudentOp \cup AdminOp

VARIABLES
    user,       \* the committed row of the student in `users'
    receipts,   \* the committed rows of `payment_receipts'
    nextId,     \* AUTO_INCREMENT of payment_receipts
    nextCode,   \* the next reference code to be generated
    fsm,        \* the student's FSM state in Redis
    rejecting,  \* the admins' FSM: the receipts a reason is awaited for
    submitLock, \* the receipt_submit_lock of the student in Redis
    card,       \* the card of each receipt in the group, and its buttons
    verdicts,   \* history: the verdicts sent to the student, per receipt
    undone,     \* history: those of them whose review was rolled back
    pc,         \* where each activation is
    tx,         \* its transaction
    repost,     \* _repost_unnotified_receipts: phase, and receipts in hand
    faults      \* history: the faults so far

db    == <<user, receipts>>
redis == <<fsm, rejecting, submitLock>>
chat  == <<verdicts, undone>>
group == <<card, chat>>
ids   == <<nextId, nextCode>>
vars  == <<db, redis, group, ids, pc, tx, repost, faults>>

Pending(rows) == {r \in ReceiptId : rows[r].status = "pending"}

-----------------------------------------------------------------------------
(* Transactions. *)

NoUser == [status |-> "new", stamped |-> FALSE, code |-> None]
NoTx   == [op |-> "start", target |-> None,        \* the update
           snap |-> NoUser, pending |-> {},        \* the snapshot
           lock |-> "none", row |-> NoUser,        \* the user row
           receipt |-> None, record |-> NoReceipt, \* the receipt row
           fate |-> "none"]                        \* what approve() returned

Goto(p, label) == pc' = [pc EXCEPT ![p] = label]

\* The end of a transaction, committed or not.
Ended(p) == tx' = [tx EXCEPT ![p] = NoTx] /\ Goto(p, "idle")

\* Variant: an UPDATE that does not wait for a shared lock.
CanWriteOverShared(p) == \A o \in Worker \ {p} : tx[o].lock # "X"

\* The foreign key of a new receipt takes "S" on the user row, an UPDATE "X".
CanShare(p) == \A o \in Worker \ {p} : tx[o].lock # "X"
CanWrite(p) == \A o \in Worker \ {p} : tx[o].lock = "none"

\* No other open transaction has inserted or updated receipt r.
ReceiptFree(p, r) == \A o \in Worker \ {p} : tx[o].receipt # r

\* UPDATE users ... WHERE id: `to' is the row it leaves.
WriteUser(p, to) ==
    /\ CanWrite(p)
    /\ tx' = [tx EXCEPT ![p].lock = "X", ![p].row = to]

SetStatus(p, status) == WriteUser(p, [user EXCEPT !.status = status])

Handling(p, op) == pc[p] = "handle" /\ tx[p].op = op

\* The updates that come: the middleware drops those of a banned student,
\* the FSM filters select the handler, and a button must be on a screen.
Arrives(r) ==
    /\ r.op \in Kinds
    /\ r.op \in StudentOp => user.status # "banned"
    /\ r.op = "contact" => fsm = "phone"
    /\ r.op = "name" => fsm = "name" /\ nextCode <= MaxCodes
    /\ r.op = "i_paid" => nextCode > 1  \* the payment screen was sent
    /\ r.op = "photo" => fsm = "receipt" /\ nextId <= MaxReceipts
    /\ r.op \in {"approve", "reject"} => card[r.receipt] = "live"
    /\ r.op = "reason" => rejecting # {}

Begin(p, r) ==
    /\ pc[p] = "idle" /\ Arrives(r)
    /\ tx' = [tx EXCEPT ![p] = [NoTx EXCEPT
                  !.op = r.op, !.target = r.receipt,
                  !.snap = user, !.pending = Pending(receipts)]]
    /\ Goto(p, "handle")
    /\ UNCHANGED <<db, redis, group, ids, repost, faults>>

\* DbSessionMiddleware commits.
Commit(p) ==
    /\ pc[p] = "commit"
    /\ user' = IF tx[p].lock = "X" THEN tx[p].row ELSE user
    /\ receipts' = IF tx[p].receipt = None THEN receipts
                   ELSE [receipts EXCEPT ![tx[p].receipt] = tx[p].record]
    /\ Ended(p)
    /\ UNCHANGED <<redis, group, ids, repost, faults>>

-----------------------------------------------------------------------------
(* Onboarding: UserService checks the status the snapshot shows, and then   *)
(* writes with UPDATEs that have no condition on the status.               *)

\* cmd_start: the screen, and the FSM state, of the user's status.
StartTap(p) ==
    /\ Handling(p, "start")
    /\ fsm' = CASE tx[p].snap.status = "onboarding_phone" -> "phone"
                [] tx[p].snap.status = "onboarding_name" -> "name"
                [] OTHER -> "none"
    /\ Ended(p)
    /\ UNCHANGED <<db, rejecting, submitLock, group, ids, repost, faults>>

\* on_start_onboarding: a tap on a stale welcome is refused.
BeginTap(p) ==
    /\ Handling(p, "begin")
    /\ \/ /\ tx[p].snap.status = "new"
          /\ SetStatus(p, "onboarding_phone")
          /\ fsm' = "phone"
          /\ Goto(p, "commit")
       \/ /\ tx[p].snap.status # "new"
          /\ Ended(p) /\ UNCHANGED fsm
    /\ UNCHANGED <<db, rejecting, submitLock, group, ids, repost, faults>>

\* on_contact_shared: the FSM moves on even when set_phone refused, for the
\* status or because the number is empty.
Contact(p) ==
    /\ Handling(p, "contact")
    /\ \/ /\ tx[p].snap.status \in {"new", "onboarding_phone"}
          /\ SetStatus(p, "onboarding_name")
          /\ Goto(p, "commit")
       \/ Ended(p)
    /\ fsm' = "name"
    /\ UNCHANGED <<db, rejecting, submitLock, group, ids, repost, faults>>

\* on_name_entered with a valid name: set_name, a fresh reference code,
\* attach_reference_code.
NameEntered(p) ==
    /\ Handling(p, "name")
    /\ \/ /\ tx[p].snap.status \in
                {"new", "onboarding_phone", "onboarding_name"}
          /\ WriteUser(p, [user EXCEPT !.status = "pending_payment",
                                       !.code = nextCode])
          /\ Goto(p, "commit")
       \/ /\ tx[p].snap.status \notin
                {"new", "onboarding_phone", "onboarding_name"}
          /\ Ended(p)
    /\ nextCode <= MaxCodes
    /\ nextCode' = nextCode + 1
    /\ fsm' = "none"
    /\ UNCHANGED <<db, rejecting, submitLock, group, nextId, repost, faults>>

\* ... with a name that is refused: the student may retry.
NameRefused(p) ==
    /\ Handling(p, "name")
    /\ Ended(p)
    /\ UNCHANGED <<db, redis, group, ids, repost, faults>>

-----------------------------------------------------------------------------
(* A receipt is sent: on_i_paid, on_receipt_photo, ReceiptService.submit.   *)

IPaid(p) ==
    /\ Handling(p, "i_paid")
    /\ fsm' = IF tx[p].snap.status = "approved" THEN fsm ELSE "receipt"
    /\ Ended(p)
    /\ UNCHANGED <<db, rejecting, submitLock, group, ids, repost, faults>>

\* The early returns of on_receipt_photo: already approved, or not the first
\* photo of a group, too large, not downloaded, the submit lock is taken.
PhotoRefused(p) ==
    /\ Handling(p, "photo")
    /\ fsm' = IF tx[p].snap.status = "approved" THEN "none" ELSE fsm
    /\ Ended(p)
    /\ UNCHANGED <<db, rejecting, submitLock, group, ids, repost, faults>>

TakeSubmitLock(p) ==
    /\ Handling(p, "photo")
    /\ tx[p].snap.status # "approved"
    /\ ~submitLock
    /\ submitLock' = TRUE
    /\ Goto(p, "submit")
    /\ UNCHANGED <<db, fsm, rejecting, group, ids, tx, repost, faults>>

\* submit() raises: too many pending receipts in the snapshot, an image like
\* that of one of them, or bytes that are no image.
SubmitRefused(p) ==
    /\ pc[p] = "submit"
    /\ submitLock' = FALSE
    /\ Ended(p)
    /\ UNCHANGED <<db, fsm, rejecting, group, ids, repost, faults>>

\* submit() inserts the receipt and, from two statuses only, moves the user
\* to pending_approval (mark_pending_approval).
Submit(p) ==
    LET moves == tx[p].snap.status \in {"pending_payment", "rejected"}
    IN  /\ pc[p] = "submit"
        /\ Cardinality(tx[p].pending) < MaxPending
        /\ nextId <= MaxReceipts
        /\ IF moves THEN CanWrite(p) ELSE CanShare(p)
        /\ tx' = [tx EXCEPT
                  ![p].receipt = nextId,
                  ![p].record = [NoReceipt EXCEPT !.status = "pending"],
                  ![p].lock = IF moves THEN "X" ELSE "S",
                  ![p].row = IF moves
                             THEN [user EXCEPT !.status = "pending_approval"]
                             ELSE @]
        /\ nextId' = nextId + 1
        /\ Goto(p, "post")
        /\ UNCHANGED <<db, redis, group, nextCode, repost, faults>>

\* The card goes to the admin group and its message id to the receipt, then
\* the student is answered and the submit lock released, all before the
\* commit.  A failed send only leaves the receipt without a message id.
PostCard(p) ==
    /\ pc[p] = "post"
    /\ \/ /\ card' = [card EXCEPT ![tx[p].receipt] = "live"]
          /\ tx' = [tx EXCEPT ![p].record.posted = TRUE]
          /\ UNCHANGED faults
       \/ /\ faults < MaxFaults /\ faults' = faults + 1
          /\ UNCHANGED <<card, tx>>
    /\ fsm' = "none" /\ submitLock' = FALSE
    /\ Goto(p, "commit")
    /\ UNCHANGED <<db, rejecting, chat, ids, repost>>

-----------------------------------------------------------------------------
(* Review: ReceiptService.approve and reject, whose UPDATEs are conditioned *)
(* on a pending receipt and on a user who is not banned.                   *)

\* The rows a verdict leaves, in the transaction of p.
Resolve(p, r, verdict, to, fate) ==
    /\ tx' = [tx EXCEPT ![p].lock = "X", ![p].row = to,
                        ![p].receipt = r,
                        ![p].record = [receipts[r] EXCEPT !.status = verdict],
                        ![p].fate = fate]
    /\ Goto(p, IF fate = "refused" THEN "commit" ELSE "announce")

\* Variant: mark_approved of the user without `status <> banned'.
ApproveUnguardedUser(p, r) ==
    /\ Handling(p, "approve") /\ r = tx[p].target
    /\ ReceiptFree(p, r) /\ CanWrite(p)
    /\ receipts[r].status = "pending"
    /\ Resolve(p, r, "approved",
               [user EXCEPT !.status = "approved", !.stamped = TRUE],
               "approved")

\* approve(): the user is promoted unless banned.  No row matched: the
\* re-read, from the snapshot, decides whether that was a refusal.
Approve(p, r) ==
    /\ Handling(p, "approve") /\ r = tx[p].target
    /\ ReceiptFree(p, r) /\ CanWrite(p)
    /\ receipts[r].status = "pending"
    /\ IF user.status # "banned"
       THEN Resolve(p, r, "approved",
                    [user EXCEPT !.status = "approved", !.stamped = TRUE],
                    "approved")
       ELSE Resolve(p, r, "approved", user,
                    IF tx[p].snap.status = "banned" THEN "refused"
                    ELSE "approved")

\* on_reject_init: the FSM of the admin who tapped waits for his reason.
RejectTap(p) ==
    /\ Handling(p, "reject")
    /\ \E r \in ReceiptId :
          r = tx[p].target /\ rejecting' = rejecting \cup {r}
    /\ Ended(p)
    /\ UNCHANGED <<db, fsm, submitLock, group, ids, repost, faults>>

\* Variant: whether the user is banned is read in the snapshot.
RejectBySnapshot(p, r) ==
    /\ Handling(p, "reason") /\ r \in rejecting
    /\ ReceiptFree(p, r) /\ CanWrite(p)
    /\ receipts[r].status = "pending"
    /\ Resolve(p, r, "rejected",
               IF tx[p].snap.status = "banned" THEN user
               ELSE [user EXCEPT !.status = "rejected"],
               "rejected")

\* on_reject_reason, reject(): the user is moved unless banned.
Reject(p, r) ==
    /\ Handling(p, "reason") /\ r \in rejecting
    /\ ReceiptFree(p, r) /\ CanWrite(p)
    /\ receipts[r].status = "pending"
    /\ Resolve(p, r, "rejected",
               IF user.status = "banned" THEN user
               ELSE [user EXCEPT !.status = "rejected"],
               "rejected")

\* Variant: the review does not ask for a pending receipt.
ReviewAgain(p) ==
    /\ \E r \in ReceiptId :
          /\ ReceiptFree(p, r) /\ CanWrite(p)
          /\ receipts[r].status # "absent"
          /\ \/ /\ Handling(p, "approve") /\ r = tx[p].target
                /\ Resolve(p, r, "approved", user, "approved")
             \/ /\ Handling(p, "reason") /\ r \in rejecting
                /\ Resolve(p, r, "rejected", user, "rejected")
    /\ UNCHANGED <<db, redis, group, ids, repost, faults>>

Review(p) ==
    /\ \E r \in ReceiptId : Approve(p, r) \/ Reject(p, r)
    /\ UNCHANGED <<db, redis, group, ids, repost, faults>>

\* No pending receipt matched, or the reason was "cancel", or another update
\* had cleared the FSM of this admin.
ReviewNothing(p) ==
    /\ \/ /\ Handling(p, "approve")
          /\ ReceiptFree(p, tx[p].target)
          /\ receipts[tx[p].target].status # "pending"
          /\ UNCHANGED rejecting
       \/ /\ Handling(p, "reason")
          /\ \E r \in ReceiptId : rejecting' = rejecting \ {r}
    /\ Ended(p)
    /\ UNCHANGED <<db, fsm, submitLock, group, ids, repost, faults>>

\* The buttons are taken off the card and the verdict is sent to the
\* student, either of which may fail, before the middleware commits.  The
\* receipt stays in `rejecting' if another admin was asked for a reason too.
Announce(p) ==
    LET r == tx[p].receipt
    IN  /\ pc[p] = "announce"
        /\ card' \in {card, [card EXCEPT ![r] = "spent"]}
        /\ \/ verdicts' = [verdicts EXCEPT ![r] = @ \cup {tx[p].fate}]
           \/ UNCHANGED verdicts
        /\ \/ tx[p].op = "reason" /\ rejecting' = rejecting \ {r}
           \/ UNCHANGED rejecting
        /\ Goto(p, "commit")
        /\ UNCHANGED <<db, fsm, submitLock, undone, ids, tx, repost, faults>>

-----------------------------------------------------------------------------
(* /ban and /unban. *)

Ban(p) ==
    /\ Handling(p, "ban")
    /\ SetStatus(p, "banned")
    /\ Goto(p, "commit")
    /\ UNCHANGED <<db, redis, group, ids, repost, faults>>

\* Variant: unban restores whoever is banned.
UnbanAnyone(p) ==
    /\ Handling(p, "unban")
    /\ \/ /\ tx[p].snap.status = "banned"
          /\ SetStatus(p, "approved")
          /\ Goto(p, "commit")
       \/ tx[p].snap.status # "banned" /\ Ended(p)
    /\ UNCHANGED <<db, redis, group, ids, repost, faults>>

\* Only who was approved before the ban is restored (approved_at).
Unban(p) ==
    /\ Handling(p, "unban")
    /\ \/ /\ tx[p].snap.status = "banned" /\ tx[p].snap.stamped
          /\ SetStatus(p, "approved")
          /\ Goto(p, "commit")
       \/ ~(tx[p].snap.status = "banned" /\ tx[p].snap.stamped) /\ Ended(p)
    /\ UNCHANGED <<db, redis, group, ids, repost, faults>>

-----------------------------------------------------------------------------
(* _repost_unnotified_receipts: select, send, store in a second session.    *)

Unnotified == {r \in Pending(receipts) : ~receipts[r].posted}

\* A receipt is committed after its first card was sent or failed, so the
\* five minutes of grace exclude none that is committed without a card.
RepostCollect ==
    /\ repost.phase = "idle" /\ Unnotified # {}
    /\ repost' = [phase |-> "send", hand |-> Unnotified]
    /\ UNCHANGED <<db, redis, group, ids, pc, tx, faults>>

Carded(sent) ==
    [r \in ReceiptId |-> IF r \in sent THEN "live" ELSE card[r]]

\* Variant: a receipt counts as posted also when the send failed.
RepostSendOptimistic ==
    /\ repost.phase = "send"
    /\ \E sent \in SUBSET repost.hand :
          /\ card' = Carded(sent)
          /\ repost' = [repost EXCEPT !.phase = "store"]
          /\ IF sent = repost.hand THEN UNCHANGED faults
             ELSE faults < MaxFaults /\ faults' = faults + 1
    /\ UNCHANGED <<db, redis, chat, ids, pc, tx>>

RepostSend ==
    /\ repost.phase = "send"
    /\ \E sent \in SUBSET repost.hand :
          /\ card' = Carded(sent)
          /\ repost' = [phase |-> "store", hand |-> sent]
          /\ IF sent = repost.hand THEN UNCHANGED faults
             ELSE faults < MaxFaults /\ faults' = faults + 1
    /\ UNCHANGED <<db, redis, chat, ids, pc, tx>>

RepostStore ==
    /\ repost.phase = "store"
    /\ \A r \in repost.hand, p \in Worker : tx[p].receipt # r
    /\ receipts' = [r \in ReceiptId |->
                       IF r \in repost.hand
                       THEN [receipts[r] EXCEPT !.posted = TRUE]
                       ELSE receipts[r]]
    /\ repost' = [phase |-> "idle", hand |-> {}]
    /\ UNCHANGED <<user, redis, group, ids, pc, tx, faults>>

-----------------------------------------------------------------------------
(* What goes wrong. *)

Submitting(p) == pc[p] \in {"submit", "post"}

\* The reviews of P are rolled back: the student keeps the messages they have
\* sent, and the receipts stay pending.
Undo(P) ==
    undone' = [r \in ReceiptId |-> undone[r] \cup
                  {v \in verdicts[r] : \E p \in P :
                      /\ pc[p] = "commit" /\ tx[p].receipt = r
                      /\ tx[p].record.status = v}]

\* Variant: the user row is committed by the service, not by the middleware.
FailKeepsUser(p) ==
    /\ pc[p] # "idle" /\ faults < MaxFaults
    /\ faults' = faults + 1
    /\ submitLock' = IF Submitting(p) THEN FALSE ELSE submitLock
    /\ user' = IF tx[p].lock = "X" THEN tx[p].row ELSE user
    /\ Undo({p}) /\ Ended(p)
    /\ UNCHANGED <<receipts, fsm, rejecting, card, verdicts, ids, repost>>

\* An exception, or a commit that fails: the middleware rolls back; the
\* `finally' of on_receipt_photo still releases the submit lock.
Fail(p) ==
    /\ pc[p] # "idle" /\ faults < MaxFaults
    /\ faults' = faults + 1
    /\ submitLock' = IF Submitting(p) THEN FALSE ELSE submitLock
    /\ Undo({p}) /\ Ended(p)
    /\ UNCHANGED <<db, fsm, rejecting, card, verdicts, ids, repost>>

\* The process dies: its transactions and the job are gone, Redis stays.
Crash ==
    /\ faults < MaxFaults /\ faults' = faults + 1
    /\ \E p \in Worker : pc[p] # "idle"
    /\ tx' = [p \in Worker |-> NoTx] /\ pc' = [p \in Worker |-> "idle"]
    /\ repost' = [phase |-> "idle", hand |-> {}]
    /\ Undo(Worker)
    /\ UNCHANGED <<db, redis, card, verdicts, ids>>

\* Variant: the lock has no TTL.
LockNeverExpires == FALSE /\ UNCHANGED vars

\* The TTL of the submit lock runs out: its holder is gone, or is stalled
\* for longer than the TTL.
LockExpires ==
    /\ submitLock /\ submitLock' = FALSE
    /\ IF \E p \in Worker : Submitting(p)
       THEN faults < MaxFaults /\ faults' = faults + 1
       ELSE UNCHANGED faults
    /\ UNCHANGED <<db, fsm, rejecting, group, ids, pc, tx, repost>>

-----------------------------------------------------------------------------
Init ==
    /\ user = [status |-> Start, stamped |-> FALSE,
               code |-> IF Start = "new" THEN None ELSE 1]
    /\ nextCode = IF Start = "new" THEN 1 ELSE 2
    /\ receipts = [r \in ReceiptId |-> NoReceipt] /\ nextId = 1
    /\ fsm = "none" /\ rejecting = {} /\ submitLock = FALSE
    /\ card = [r \in ReceiptId |-> "unsent"]
    /\ verdicts = [r \in ReceiptId |-> {}] /\ undone = [r \in ReceiptId |-> {}]
    /\ pc = [p \in Worker |-> "idle"] /\ tx = [p \in Worker |-> NoTx]
    /\ repost = [phase |-> "idle", hand |-> {}]
    /\ faults = 0

Onboard(p) ==
    StartTap(p) \/ BeginTap(p) \/ Contact(p) \/ NameEntered(p)
        \/ NameRefused(p)
SendReceipt(p) ==
    IPaid(p) \/ PhotoRefused(p) \/ TakeSubmitLock(p) \/ SubmitRefused(p)
        \/ Submit(p) \/ PostCard(p)
Moderate(p) ==
    RejectTap(p) \/ Review(p) \/ ReviewNothing(p) \/ Announce(p)
        \/ Ban(p) \/ Unban(p)
Handle(p) == Onboard(p) \/ SendReceipt(p) \/ Moderate(p) \/ Commit(p)

Repost == RepostCollect \/ RepostSend \/ RepostStore

Next ==
    \/ \E p \in Worker : Handle(p) \/ Fail(p) \/ \E r \in Request : Begin(p, r)
    \/ Repost
    \/ Crash
    \/ LockExpires

Spec == Init /\ [][Next]_vars

\* The event loop resumes every handler that can go on, the cron runs the
\* job every hour, Redis expires keys.
Fairness ==
    /\ \A p \in Worker : WF_vars(Handle(p))
    /\ WF_vars(Repost)
    /\ WF_vars(LockExpires)

FairSpec == Spec /\ Fairness

-----------------------------------------------------------------------------
(* Properties. *)

TxType == [op : StudentOp \cup AdminOp,
           target : ReceiptId \cup {None}, snap : UserRow,
           pending : SUBSET ReceiptId, lock : {"none", "S", "X"},
           row : UserRow, receipt : ReceiptId \cup {None},
           record : ReceiptRow,
           fate : {"none", "approved", "rejected", "refused"}]

Place == {"idle", "handle", "submit", "post", "announce", "commit"}

\* The types of the variables.
TypeOK ==
    /\ user \in UserRow /\ receipts \in [ReceiptId -> ReceiptRow]
    /\ nextId \in 1..(MaxReceipts + 1) /\ nextCode \in 1..(MaxCodes + 1)
    /\ fsm \in {"none", "phone", "name", "receipt"}
    /\ rejecting \subseteq ReceiptId /\ submitLock \in BOOLEAN
    /\ card \in [ReceiptId -> {"unsent", "live", "spent"}]
    /\ verdicts \in [ReceiptId -> SUBSET {"approved", "rejected"}]
    /\ undone \in [ReceiptId -> SUBSET {"approved", "rejected"}]
    /\ pc \in [Worker -> Place]
    /\ tx \in [Worker -> TxType]
    /\ repost \in [phase : {"idle", "send", "store"}, hand : SUBSET ReceiptId]
    /\ faults \in 0..MaxFaults

\* The transactions and their locks.  A transaction that has not come to its
\* UPDATEs holds nothing; what is announced is a verdict; "X" excludes every
\* other lock on the user row; two transactions never hold the same receipt;
\* the receipt that one holds is not decided yet, and ids that were not given
\* out are free; approved_at is set only by the approval of a receipt, and
\* never cleared.
TxDiscipline ==
    /\ \A p \in Worker :
          /\ pc[p] \in {"idle", "handle", "submit"} =>
                tx[p].lock = "none" /\ tx[p].receipt = None
          /\ pc[p] = "announce" => tx[p].fate \in {"approved", "rejected"}
          /\ \A o \in Worker \ {p} :
                /\ tx[p].lock = "X" => tx[o].lock = "none"
                /\ tx[p].receipt # None => tx[o].receipt # tx[p].receipt
    /\ \A p \in Worker :
          tx[p].receipt # None =>
              /\ tx[p].receipt < nextId
              /\ receipts[tx[p].receipt].status \in {"absent", "pending"}
    /\ \A r \in ReceiptId : r >= nextId => receipts[r].status = "absent"
    /\ \A p \in Worker :
          /\ tx[p].snap.stamped => user.stamped
          /\ tx[p].lock = "X" =>
                /\ user.stamped => tx[p].row.stamped
                /\ tx[p].row.status = "approved" => tx[p].row.stamped
                /\ tx[p].row.stamped =>
                      \/ user.stamped
                      \/ /\ tx[p].receipt # None
                         /\ tx[p].record.status = "approved"

\* The photos in hand that submit() will not refuse for the cap: it counts the
\* pending receipts of a snapshot that is older than the submit lock.
Admitted ==
    {p \in Worker : /\ pc[p] # "idle" /\ tx[p].op = "photo"
                    /\ Cardinality(tx[p].pending) < MaxPending}

\* The cap on pending receipts is exceeded, but by no more than the photos that
\* are handled at once: neither photos one after another nor a verdict, a
\* failure or an expired submit lock in between adds to it.
CapDiscipline ==
    Cardinality(Pending(receipts)) + Cardinality(Admitted)
        <= MaxPending + Cardinality(Worker) - 1

\* All three, the inductive invariant of the funnel.
FunnelInv == TypeOK /\ TxDiscipline /\ CapDiscipline

\* The funnel keeps the contract of AccessContract: whatever the transactions,
\* the admins, the job and the faults do, each commit is one of its steps.  So a
\* verdict is final, and it is committed with the status it calls for.
Contract == INSTANCE AccessContract WITH
    Receipt <- ReceiptId,
    status <- user.status, paid <- user.stamped,
    review <- [r \in ReceiptId |-> receipts[r].status]

KeepsContract == Contract!Spec

\* Access is paid for: an approved student, and one whom /unban would make
\* approved again, has an approved receipt.
AccessIsPaid ==
    user.status = "approved" \/ user.stamped
        => /\ user.stamped
           /\ \E r \in ReceiptId : receipts[r].status = "approved"

\* "Under review" is true: a student in pending_approval has a receipt the
\* admins have not decided on.
ReviewIsPending ==
    user.status = "pending_approval" => Pending(receipts) # {}

\* A ban is left only through /unban, or by an update of the student whose
\* handler had started before the ban: never by the review of a receipt
\* that was pending when he was banned (C2).
BanOutlivesReview ==
    [][user.status = "banned" /\ user'.status # "banned"
          => \E p \in Worker :
                /\ pc[p] = "commit"
                /\ \/ tx[p].op = "unban" /\ user'.status = "approved"
                   \/ tx[p].op \in StudentOp
                      /\ tx[p].snap.status # "banned"]_vars

\* Two admins never tell a student both, and what he was sent is what his
\* receipt says, but for a verdict whose review was rolled back behind the
\* message: the verdict is sent before the commit.
OneVerdict ==
    \A r \in ReceiptId :
        (\A p \in Worker : tx[p].receipt # r)
            => verdicts[r] \ undone[r] \subseteq {receipts[r].status}

\* A pending receipt whose card was not sent gets one in the admin group, or
\* is decided, whatever sends fail, finitely often.
EventuallyPosted ==
    \A r \in ReceiptId :
        receipts[r].status = "pending" /\ ~receipts[r].posted
            ~> card[r] # "unsent" \/ receipts[r].status # "pending"

\* The submit lock of a student is never held for ever, even if the process
\* dies with it.
LockIsReleased == []<>~submitLock
=============================================================================
