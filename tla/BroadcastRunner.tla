---------------------------- MODULE BroadcastRunner ----------------------------
(***************************************************************************)
(* Announcements to the students.  An admin composes a message, confirms   *)
(* it, and a row of `broadcasts' is created whose runner copies the        *)
(* message to the approved students in batches, in the order of their ids, *)
(* committing counters and cursor after each batch.  A restart resumes the *)
(* unfinished rows from the cursor.  Next to it goes the notice of a newly *)
(* published test, which is sent to all at once and does not survive a     *)
(* crash.  Both flag the students who blocked the bot.                     *)
(***************************************************************************)
EXTENDS Integers, FiniteSets

CONSTANTS
    MaxUsers,      \* the students, by id
    BatchSize,     \* _BATCH_SIZE, 25 in the code
    MaxBroadcasts, \* bound: rows ever inserted
    MaxMessages,   \* bound: messages composed
    Tap,           \* bound: taps on the confirm button handled at once
    MaxChanges,    \* bound: changes of students' status and reachability
    MaxFaults      \* bound: crashes of the process and failures of a run

ASSUME SizesAssumption ==
    /\ MaxUsers \in Nat /\ BatchSize \in Nat \ {0}
    /\ MaxBroadcasts \in Nat /\ MaxMessages \in Nat
    /\ MaxChanges \in Nat /\ MaxFaults \in Nat

User      == 1..MaxUsers
Broadcast == 1..MaxBroadcasts
None      == 0

VARIABLES
    approved,    \* the students with status approved
    flagged,     \* users.bot_blocked, as committed
    blocking,    \* the students who blocked the bot, which Telegram knows
    fsm,         \* the compose flow of the admin: step and message
    tap,         \* the handlers of taps on the confirm button
    row,         \* the rows of `broadcasts'
    run,         \* the delivery task of each row
    notice,      \* the task that tells of a new test
    up,          \* the process runs
    composed,    \* history: the messages composed
    copies,      \* history: how often each student got each announcement
    handled,     \* history: the students in committed batches of each row
    steady,      \* history: those who were recipients ever since the row was made
    interrupted, \* history: the batches of each row lost to a crash or failure
    overlapped,  \* history: the messages that two taps read before one cleared
    reports,     \* history: the completion reports of each row
    changes,     \* history: changes by students and admins
    faults       \* history: crashes and failures

students == <<approved, flagged, blocking>>
flow     == <<fsm, tap>>
history  == <<composed, copies, handled, steady, interrupted, overlapped, reports,
              changes, faults>>
vars     == <<students, flow, row, run, notice, up, history>>

NoRow  == [status |-> "absent", msg |-> None, cursor |-> 0,
           sent |-> 0, blocked |-> 0, errors |-> 0]
Off    == [pc |-> "off", batch |-> {}, cursor |-> 0,
           sent |-> 0, blocked |-> 0, errors |-> 0, flags |-> {}]
NoTap  == [pc |-> "idle", msg |-> None]
NoFlow == [step |-> "none", msg |-> None]
NoNotice == [pc |-> "off", left |-> {}, refused |-> {}, flags |-> {}]

Recipients == approved \ flagged
Least(S)   == CHOOSE u \in S : \A v \in S : u <= v
Counted(r) == r.sent + r.blocked + r.errors

\* The exclusive lock of users: whoever flags a student keeps it to the commit.
UserFree(u) == u \notin notice.flags /\ \A b \in Broadcast : u \notin run[b].flags

-----------------------------------------------------------------------------
(* The students, and what admins do to them in other handlers. *)

Change == changes < MaxChanges /\ changes' = changes + 1
KeepHistory == UNCHANGED <<composed, copies, handled, interrupted, overlapped, reports,
                           faults>>

\* Those who stop being recipients are no steady recipients of any row.
Unsteady(gone) == [b \in Broadcast |-> steady[b] \ gone]

Approve(u) ==
    /\ up /\ u \notin approved /\ UserFree(u) /\ Change
    /\ approved' = approved \cup {u}
    /\ UNCHANGED <<flagged, blocking, steady>>

Leave(u) ==
    /\ up /\ u \in approved /\ UserFree(u) /\ Change
    /\ approved' = approved \ {u}
    /\ steady' = Unsteady({u})
    /\ UNCHANGED <<flagged, blocking>>

Block(u) ==
    /\ Change /\ u \notin blocking
    /\ blocking' = blocking \cup {u}
    /\ UNCHANGED <<approved, flagged, steady>>

Unblock(u) ==
    /\ u \in blocking
    /\ blocking' = blocking \ {u}
    /\ UNCHANGED <<approved, flagged, steady, changes>>

\* An update of the student reaches the bot: the flag is stale and cleared.
ClearBlocked(u) ==
    /\ up /\ u \in flagged \ blocking /\ UserFree(u)
    /\ flagged' = flagged \ {u}
    /\ UNCHANGED <<approved, blocking, steady, changes>>

Student(u) ==
    /\ Approve(u) \/ Leave(u) \/ Block(u) \/ Unblock(u) \/ ClearBlocked(u)
    /\ KeepHistory
    /\ UNCHANGED <<flow, row, run, notice, up>>

-----------------------------------------------------------------------------
(* The admin composes and confirms. *)

\* /broadcast keeps the data of an older message until a new one is echoed.
Compose ==
    /\ up /\ fsm.step # "compose" /\ composed < MaxMessages
    /\ fsm' = [fsm EXCEPT !.step = "compose"]
    /\ UNCHANGED <<students, tap, row, run, notice, up, history>>

\* The message is echoed as a preview; with no recipients the flow ends.
Announce ==
    /\ up /\ fsm.step = "compose"
    /\ IF Recipients = {}
       THEN fsm' = NoFlow /\ UNCHANGED composed
       ELSE /\ composed' = composed + 1
            /\ fsm' = [step |-> "confirm", msg |-> composed']
    /\ UNCHANGED <<students, tap, row, run, notice, up, copies, handled, steady,
                   interrupted, overlapped, reports, changes, faults>>

CancelFlow ==
    /\ up /\ fsm # NoFlow
    /\ fsm' = NoFlow
    /\ UNCHANGED <<students, tap, row, run, notice, up, history>>

SetTap(k, pc, msg) == tap' = [tap EXCEPT ![k] = [pc |-> pc, msg |-> msg]]

Confirming == fsm.step = "confirm"

\* The state is read; a second tap finds it cleared, or it does not.
TapConfirm(k) ==
    /\ up /\ tap[k].pc = "idle" /\ Confirming
    /\ SetTap(k, "data", None)
    /\ UNCHANGED <<students, fsm, row, run, notice, up, history>>

\* The message of the flow may be another by now, or none.
ReadData(k) ==
    /\ tap[k].pc = "data"
    /\ SetTap(k, "clear", fsm.msg)
    /\ overlapped' = IF \E o \in Tap \ {k} : tap[o] = [pc |-> "clear", msg |-> fsm.msg]
                     THEN overlapped \cup {fsm.msg} ELSE overlapped
    /\ UNCHANGED <<students, fsm, row, run, notice, up, composed, copies, handled,
                   steady, interrupted, reports, changes, faults>>

\* Variant: the flow is not cleared.
ClearNothing(k) ==
    /\ tap[k].pc = "clear"
    /\ SetTap(k, IF tap[k].msg = None THEN "idle" ELSE "create", tap[k].msg)
    /\ UNCHANGED <<students, fsm, row, run, notice, up, history>>

\* The flow is cleared, also by a tap that found no message.
ClearState(k) ==
    /\ tap[k].pc = "clear"
    /\ fsm' = NoFlow
    /\ SetTap(k, IF tap[k].msg = None THEN "idle" ELSE "create", tap[k].msg)
    /\ UNCHANGED <<students, row, run, notice, up, history>>

NextRow(b) == /\ row[b].status = "absent"
              /\ \A c \in 1..(b - 1) : row[c].status # "absent"

\* The row is committed before the runner is spawned.
Create(k) ==
    /\ tap[k].pc = "create"
    /\ \E b \in Broadcast :
         /\ NextRow(b)
         /\ row' = [row EXCEPT ![b] = [NoRow EXCEPT
                        !.status = "in_progress", !.msg = tap[k].msg]]
         /\ steady' = [steady EXCEPT ![b] = Recipients]
         /\ SetTap(k, "spawn", b)
    /\ UNCHANGED <<students, fsm, run, notice, up, composed, copies, handled,
                   interrupted, overlapped, reports, changes, faults>>

Spawn(k) ==
    /\ tap[k].pc = "spawn"
    /\ run' = [run EXCEPT ![tap[k].msg] = [Off EXCEPT !.pc = "ready"]]
    /\ SetTap(k, "idle", None)
    /\ UNCHANGED <<students, fsm, row, notice, up, history>>

HandleTap(k) == ReadData(k) \/ ClearState(k) \/ Create(k) \/ Spawn(k)

-----------------------------------------------------------------------------
(* Delivery. *)

\* Variant: any recipients past the cursor, in the order the table has them.
AnyBatch(b, batch) ==
    LET after == {u \in Recipients : u > row[b].cursor}
    IN  /\ batch \subseteq after
        /\ Cardinality(batch) <= BatchSize
        /\ batch = {} => after = {}

\* The next recipients after the cursor, by id.
NextBatch(b, batch) ==
    LET after == {u \in Recipients : u > row[b].cursor}
    IN  /\ batch \subseteq after
        /\ \A u \in batch, v \in after \ batch : u < v
        /\ IF Cardinality(after) <= BatchSize THEN batch = after
           ELSE Cardinality(batch) = BatchSize

\* A batch starts from the committed row.
StartBatch(b) ==
    /\ run[b].pc = "ready" /\ row[b].status = "in_progress"
    /\ \E batch \in SUBSET User :
         /\ NextBatch(b, batch)
         /\ batch # {}
         /\ run' = [run EXCEPT ![b] =
                [pc |-> "batch", batch |-> batch, cursor |-> row[b].cursor,
                 sent |-> row[b].sent, blocked |-> row[b].blocked,
                 errors |-> row[b].errors, flags |-> {}]]
    /\ UNCHANGED <<students, flow, row, notice, up, history>>

\* Nobody is left: the row is completed, if it is not already.
Complete(b) ==
    /\ run[b].pc = "ready" /\ row[b].status = "in_progress" /\ NextBatch(b, {})
    /\ row' = [row EXCEPT ![b].status = "completed"]
    /\ run' = [run EXCEPT ![b].pc = "report"]
    /\ UNCHANGED <<students, flow, notice, up, history>>

\* The summary goes to the chat of the admin, or is lost.
Report(b) ==
    /\ run[b].pc = "report"
    /\ run' = [run EXCEPT ![b] = Off]
    /\ reports' \in {reports, [reports EXCEPT ![b] = @ + 1]}
    /\ UNCHANGED <<students, flow, row, notice, up, composed, copies, handled, steady,
                   interrupted, overlapped, changes, faults>>

Received(b, u) == copies' = [copies EXCEPT ![b][u] = @ + 1]

Left(b) == {u \in run[b].batch : u > run[b].cursor}

\* copyMessage to the next of the batch.  A student who blocked the bot is
\* flagged in the transaction of the batch.  An error may come after the
\* message went through.
Deliver(b) ==
    LET u == Least(Left(b))
        done(counter) == [run[b] EXCEPT !.cursor = u, ![counter] = @ + 1]
    IN  /\ run[b].pc = "batch" /\ Left(b) # {}
        /\ \/ /\ u \in blocking /\ (UserFree(u) \/ u \in run[b].flags)
              /\ run' = [run EXCEPT ![b] = [done("blocked") EXCEPT !.flags = @ \cup {u}]]
              /\ UNCHANGED copies
           \/ /\ u \notin blocking
              /\ run' = [run EXCEPT ![b] = done("sent")]
              /\ Received(b, u)
           \/ /\ u \notin blocking
              /\ run' = [run EXCEPT ![b] = done("errors")]
              /\ Received(b, u) \/ UNCHANGED copies
        /\ UNCHANGED <<students, flow, row, notice, up, composed, handled, steady,
                       interrupted, overlapped, reports, changes, faults>>

\* Variant: the cursor is not recorded.
RecordCountersOnly(b) ==
    [row[b] EXCEPT !.sent = run[b].sent, !.blocked = run[b].blocked,
                   !.errors = run[b].errors]

\* Absolute counters and the cursor.
RecordProgress(b) ==
    [row[b] EXCEPT !.sent = run[b].sent, !.blocked = run[b].blocked,
                   !.errors = run[b].errors, !.cursor = run[b].cursor]

CommitBatch(b) ==
    /\ run[b].pc = "batch" /\ Left(b) = {}
    /\ row' = [row EXCEPT ![b] = RecordProgress(b)]
    /\ flagged' = flagged \cup run[b].flags
    /\ run' = [run EXCEPT ![b] = [Off EXCEPT !.pc = "ready"]]
    /\ handled' = [handled EXCEPT ![b] = @ \cup run[b].batch]
    /\ steady' = [Unsteady(run[b].flags) EXCEPT ![b] = steady[b]]
    /\ UNCHANGED <<approved, blocking, flow, notice, up, composed, copies,
                   interrupted, overlapped, reports, changes, faults>>

\* An exception ends the run; the row stays in progress until the next start.
RunFails(b) ==
    /\ run[b].pc \in {"ready", "batch"} /\ faults < MaxFaults
    /\ faults' = faults + 1
    /\ interrupted' = [interrupted EXCEPT ![b] = @ + 1]
    /\ run' = [run EXCEPT ![b] = [Off EXCEPT !.pc = "dead"]]
    /\ UNCHANGED <<students, flow, row, notice, up, composed, copies, handled, steady,
                   overlapped, reports, changes>>

Runner(b) == StartBatch(b) \/ Complete(b) \/ Report(b) \/ Deliver(b) \/ CommitBatch(b)

-----------------------------------------------------------------------------
(* The notice of a new test, sent to all at once. *)

StartNotice ==
    /\ up /\ notice.pc = "off"
    /\ notice' = [NoNotice EXCEPT !.pc = "send", !.left = Recipients]
    /\ Change
    /\ UNCHANGED <<students, flow, row, run, up, composed, copies, handled, steady,
                   interrupted, overlapped, reports, faults>>

\* Twenty at a time, in any order; who blocked the bot is only remembered.
SendNotice(u) ==
    /\ notice.pc = "send" /\ u \in notice.left
    /\ notice' = [notice EXCEPT
            !.left = @ \ {u},
            !.refused = IF u \in blocking THEN @ \cup {u} ELSE @]
    /\ UNCHANGED <<students, flow, row, run, up, history>>

\* The flags are written after the last send, by id.
FlagRefused ==
    LET rest == notice.refused \ notice.flags
    IN  /\ notice.pc = "send" /\ notice.left = {} /\ rest # {}
        /\ UserFree(Least(rest))
        /\ notice' = [notice EXCEPT !.flags = @ \cup {Least(rest)}]
        /\ UNCHANGED <<students, flow, row, run, up, history>>

\* The commit of the flags.
EndNotice ==
    /\ notice.pc = "send" /\ notice.left = {} /\ notice.flags = notice.refused
    /\ flagged' = flagged \cup notice.flags
    /\ steady' = Unsteady(notice.flags)
    /\ notice' = NoNotice
    /\ UNCHANGED <<approved, blocking, flow, row, run, up, composed, copies, handled,
                   interrupted, overlapped, reports, changes, faults>>

\* An exception, at the commit at the latest: the flags are rolled back.
NoticeFails ==
    /\ notice.pc = "send" /\ faults < MaxFaults
    /\ faults' = faults + 1
    /\ notice' = NoNotice
    /\ UNCHANGED <<students, flow, row, run, up, composed, copies, handled, steady,
                   interrupted, overlapped, reports, changes>>

Notify ==
    StartNotice \/ (\E u \in User : SendNotice(u)) \/ FlagRefused \/ EndNotice
        \/ NoticeFails

-----------------------------------------------------------------------------
(* The process. *)

\* What is not committed is gone: batches, handlers, the notice.
Crash ==
    /\ up /\ faults < MaxFaults
    /\ up' = FALSE
    /\ faults' = faults + 1
    /\ run' = [b \in Broadcast |-> Off]
    /\ tap' = [k \in Tap |-> NoTap]
    /\ notice' = NoNotice
    /\ interrupted' = [b \in Broadcast |->
            interrupted[b] + IF run[b].pc = "batch" THEN 1 ELSE 0]
    /\ UNCHANGED <<students, fsm, row, composed, copies, handled, steady, overlapped,
                   reports, changes>>

\* Variant: nothing is resumed.
BootOnly ==
    /\ ~up
    /\ up' = TRUE
    /\ UNCHANGED <<students, flow, row, run, notice, history>>

\* resume_unfinished_broadcasts, before updates are accepted.
Boot ==
    /\ ~up
    /\ up' = TRUE
    /\ run' = [b \in Broadcast |->
            IF row[b].status = "in_progress" THEN [Off EXCEPT !.pc = "ready"] ELSE Off]
    /\ UNCHANGED <<students, flow, row, notice, history>>

Completed == [NoRow EXCEPT !.status = "completed"]

\* Some announcements were composed and completed before, some students are
\* approved.
Init ==
    /\ approved \in SUBSET User
    /\ blocking \in SUBSET User
    /\ flagged = {}
    /\ \E old \in 0..MaxBroadcasts :
         row = [b \in Broadcast |-> IF b <= old THEN Completed ELSE NoRow]
    /\ fsm = NoFlow
    /\ tap = [k \in Tap |-> NoTap]
    /\ run = [b \in Broadcast |-> Off]
    /\ notice = NoNotice
    /\ up = TRUE
    /\ composed \in 0..MaxMessages
    /\ copies = [b \in Broadcast |-> [u \in User |-> 0]]
    /\ handled = [b \in Broadcast |-> {}]
    /\ steady = [b \in Broadcast |-> {}]
    /\ interrupted = [b \in Broadcast |-> 0]
    /\ overlapped = {}
    /\ reports = [b \in Broadcast |-> 0]
    /\ changes \in 0..MaxChanges
    /\ faults \in 0..MaxFaults

Next ==
    \/ Compose \/ Announce \/ CancelFlow
    \/ \E k \in Tap : TapConfirm(k) \/ HandleTap(k)
    \/ \E b \in Broadcast : Runner(b) \/ RunFails(b)
    \/ \E u \in User : Student(u)
    \/ Notify \/ Crash \/ Boot

\* The event loop runs what it has started; the supervisor restarts the
\* process; nobody has to compose, confirm, block or crash.
Fairness ==
    /\ \A k \in Tap : WF_vars(HandleTap(k))
    /\ \A b \in Broadcast : WF_vars(Runner(b))
    /\ WF_vars((\E u \in User : SendNotice(u)) \/ FlagRefused \/ EndNotice)
    /\ WF_vars(Boot)

Spec == Init /\ [][Next]_vars /\ Fairness

-----------------------------------------------------------------------------
(* Properties. *)

TypeOK ==
    /\ approved \subseteq User /\ flagged \subseteq User /\ blocking \subseteq User
    /\ fsm \in [step : {"none", "compose", "confirm"}, msg : 0..MaxMessages]
    /\ \A k \in Tap : tap[k].pc \in {"idle", "data", "clear", "create", "spawn"}
    /\ \A b \in Broadcast :
         /\ row[b].status \in {"absent", "in_progress", "completed"}
         /\ row[b].cursor \in 0..MaxUsers /\ run[b].cursor \in 0..MaxUsers
         /\ run[b].pc \in {"off", "ready", "batch", "report", "dead"}
         /\ run[b].batch \subseteq User /\ run[b].flags \subseteq run[b].batch
    /\ notice.pc \in {"off", "send"} /\ notice.flags \subseteq notice.refused
    /\ up \in BOOLEAN

\* The counters of a row add up to the students in its committed batches, all
\* of them up to the cursor, whatever was interrupted and sent again; a batch
\* under way has the counters of the row and what it has sent; the summary is
\* sent once, of a completed row.
ProgressInv ==
    \A b \in Broadcast :
        /\ Counted(row[b]) = Cardinality(handled[b])
        /\ handled[b] \subseteq 1..row[b].cursor
        /\ run[b].pc = "batch" =>
             /\ row[b].status = "in_progress"
             /\ Counted(run[b]) = Counted(row[b])
                                    + Cardinality(run[b].batch \ Left(b))
             /\ \A u \in run[b].batch : u > row[b].cursor
        /\ reports[b] + (IF run[b].pc = "report" THEN 1 ELSE 0)
             <= IF row[b].status = "completed" THEN 1 ELSE 0

BroadcastInv == TypeOK /\ ProgressInv

\* Who is a recipient all the time is reached: no batch boundary, failed
\* commit or restart skips anyone before the row is completed.
CompletedMeansReached ==
    \A b \in Broadcast :
        row[b].status = "completed" => steady[b] \subseteq handled[b]

\* A student gets an announcement more than once only for a batch that was
\* interrupted, and no more than a batch of students for each.
ResendsBounded ==
    \A b \in Broadcast :
        /\ \A u \in User : copies[b][u] <= 1 + interrupted[b]
        /\ Cardinality({u \in User : copies[b][u] > 1}) <= BatchSize * interrupted[b]

\* A message that was confirmed makes one row, unless two taps overlapped:
\* both read it before the first one cleared it.
OneRowPerMessage ==
    \A b, c \in Broadcast :
        row[b].msg = row[c].msg /\ row[b].msg \notin overlapped \cup {None} => b = c

\* An announcement that was started is completed, through crashes, unless its
\* run died in a process that goes on.
Delivered ==
    \A b \in Broadcast :
        row[b].status = "in_progress"
            ~> (row[b].status = "completed" \/ run[b].pc = "dead")
=============================================================================
