-------------------------- MODULE AttemptLifecycle --------------------------
(***************************************************************************)
(* One test attempt, from the moment its row is committed as `in_progress' *)
(* to its final status, with everything that runs against it: the handler  *)
(* activations of the bot (answer, navigation, finish, resume and the      *)
(* admin's /ban), the timer jobs of APScheduler, the once-a-minute sweep,  *)
(* and the reconciliation that runs at boot.                               *)
(*                                                                         *)
(* The bot runs on one event loop but interleaves at every await, and each *)
(* update or job has a database transaction of its own.  MySQL runs them   *)
(* at REPEATABLE READ: plain SELECTs read the snapshot of the first one,   *)
(* while a guarded UPDATE, or INSERT ... SELECT, reads the committed row   *)
(* under a lock it keeps until the end of the transaction.  A handler's    *)
(* transaction is committed by the middleware after the handler returned,  *)
(* hence after its message was sent; a job commits first and sends later.  *)
(*                                                                         *)
(* A transaction here is: a snapshot, at most one or two locking           *)
(* statements, a commit or a rollback.  Plain reads between them all see   *)
(* the snapshot, so they are part of the step that uses what they return.  *)
(***************************************************************************)
EXTENDS Integers, FiniteSets, Sequences

CONSTANTS
    Update,       \* handler activations: one per Telegram update
    Slot,         \* warning slots ("10min", "5min", "1min" in the code)
    N,            \* number of questions, 50 in the code
    SlotAt,       \* when each warning is due
    ExpiresAt,    \* attempts.expires_at
    Grace,        \* misfire_grace_time of the scheduler
    MaxTime,      \* bound: the last instant of the clock
    MaxFaults,    \* bound: failed transactions, failed sends, lost jobs
    MaxCrashes,   \* bound: process crashes
    MaxFlushes    \* bound: flushes of the Redis jobstore

ASSUME PositionsAssumption == N \in Nat \ {0}
ASSUME TimesAssumption ==
    /\ ExpiresAt \in Nat /\ Grace \in Nat /\ MaxTime \in Nat
    /\ SlotAt \in [Slot -> Nat]
ASSUME BoundsAssumption ==
    MaxFaults \in Nat /\ MaxCrashes \in Nat /\ MaxFlushes \in Nat
ASSUME NamesAssumption ==
    /\ Update \cap Slot = {}
    /\ (Update \cup Slot) \cap {"expire", "sweep", "boot"} = {}

Position == 1..N
Expirer  == {"expire", "sweep", "boot"}  \* who runs attempt_expire_job
Proc     == Update \cup Slot \cup Expirer

TimerJob == Slot \cup {"expire"}         \* the jobs of this attempt
Job      == TimerJob \cup {"sweep"}      \* ... and the recurring one
RunAt(j) == IF j = "expire" THEN ExpiresAt ELSE SlotAt[j]

Null   == -1                             \* a NULL score column
Status == {"in_progress", "submitted", "expired"}
Row    == [status : Status, score : Position \cup {0, Null},
           warned : SUBSET Slot, cursor : Position]
OpenRow == [status |-> "in_progress", score |-> Null, warned |-> {},
            cursor |-> 1]
Answers == [Position -> {"none", "right", "wrong"}]
NoAnswers == [q \in Position |-> "none"]
NoSnapshot == [row |-> OpenRow, ans |-> NoAnswers, banned |-> FALSE]
NoResult   == [score |-> 0, owned |-> FALSE]

\* What one callback of the test screen, or one admin command, asks for.
Request ==
    [op : {"answer"}, pos : Position, option : {"right", "wrong"}]
        \cup [op : {"nav"}, pos : Position]
        \cup [op : {"finish", "view", "ban"}]

Message ==
    [kind : {"warning"}, slot : Slot]
        \cup [kind : {"timeup"}]
        \cup [kind : {"result"}, score : Position \cup {0},
              by : Proc, owned : BOOLEAN]

VARIABLES
    row,      \* the committed row of `attempts'
    ans,      \* the committed rows of `answers'
    banned,   \* committed users.status = 'banned'
    jobs,     \* the jobs in the Redis jobstore
    now,      \* the clock
    mode,     \* the process: "down", "starting" or "up"
    pc,       \* where each activation or job is
    request,  \* what each handler activation was asked
    snap,     \* the snapshot each transaction reads from
    lock,     \* its lock on the attempt row: "none", "S" or "X"
    mine,     \* under "X": the row as this transaction left it
    put,      \* its uncommitted answers
    seen,     \* the scores finish() returned to it, and owned_finalization
    sent,     \* every message the student received, in order
    overlap,  \* history: an answer was committed while a finish was running
    spent     \* history: faults, crashes and flushes so far

db   == <<row, ans, banned>>
txn  == <<snap, lock, mine, put>>
env  == <<now, mode, spent>>
vars == <<db, jobs, env, pc, request, txn, seen, sent, overlap>>

Finished(r) == r.status # "in_progress"

\* ScoringService.compute: the answers that match the question's key.
RightCount(a) == Cardinality({q \in Position : a[q] = "right"})

\* section_scores_from_attempt: a NULL column reads as 0.
Stored(r) == IF r.score = Null THEN 0 ELSE r.score

\* _pick_next_position: the next unanswered question after the one just
\* answered, else the first unanswered one before it, else stay.
IsNext(pos, just, answered, cursor) ==
    LET free == Position \ (answered \cup {just})
        later == {q \in free : q > just}
    IN  IF free = {} THEN pos = cursor
        ELSE /\ pos \in (IF later # {} THEN later ELSE free)
             /\ \A q \in (IF later # {} THEN later ELSE free) : pos <= q

-----------------------------------------------------------------------------
(* Transactions. *)

Committed == [row |-> row, ans |-> ans, banned |-> banned]

BeginTxn(p) == snap' = [snap EXCEPT ![p] = Committed]

CanLockS(p) == \A o \in Proc \ {p} : lock[o] # "X"
\* Variant: an upsert that leaves no lock on the attempt row for an UPDATE
\* to wait for.
CanLockXNoShared(p) == \A o \in Proc \ {p} : lock[o] # "X"

CanLockX(p) == \A o \in Proc \ {p} : lock[o] = "none"

\* An UPDATE of the attempt row: it waits for the row lock, and then reads
\* the committed row, not the snapshot.  `to' is the row it leaves.
UpdateRow(p, to) ==
    /\ CanLockX(p)
    /\ lock' = [lock EXCEPT ![p] = "X"]
    /\ mine' = [mine EXCEPT ![p] = to]

\* The end of a transaction: its locks are released, its locals are gone.
Released(p) ==
    /\ lock' = [lock EXCEPT ![p] = "none"]
    /\ put' = [put EXCEPT ![p] = NoAnswers]
    /\ mine' = [mine EXCEPT ![p] = OpenRow]
    /\ snap' = [snap EXCEPT ![p] = NoSnapshot]

Forget(u) == request' = [request EXCEPT ![u] = [op |-> "view"]]
NoMore(p) == seen' = [seen EXCEPT ![p] = NoResult]

Goto(p, label) == pc' = [pc EXCEPT ![p] = label]

\* Where an activation ends: an update is handled once, a job may run again,
\* and the boot sequence goes on to accept updates.
Rest(p) ==
    IF p \in Update THEN "done" ELSE IF p = "boot" THEN "admit" ELSE "idle"

InTxn(p) ==
    \/ pc[p] \in {"write", "move", "commit"}
    \/ p \in Update /\ pc[p] = "show"

\* finish() is running in p: its snapshot is taken and not yet committed.
Finishing(p) ==
    /\ InTxn(p)
    /\ p \in Expirer \/ (p \in Update /\ request[p].op \in {"finish", "ban"})

WritesAnswer(p) == \E q \in Position : put[p][q] # "none"

Commit(p) ==
    /\ pc[p] = "commit"
    /\ row' = IF lock[p] = "X" THEN mine[p] ELSE row
    /\ ans' = [q \in Position |->
                  IF put[p][q] # "none" THEN put[p][q] ELSE ans[q]]
    /\ banned' = (banned \/ (p \in Update /\ request[p].op = "ban"))
    /\ overlap' = (overlap \/ (WritesAnswer(p)
                                 /\ \E o \in Proc \ {p} : Finishing(o)))
    /\ Released(p)
    /\ UNCHANGED <<jobs, env, sent>>

-----------------------------------------------------------------------------
(* AttemptService.finish, up to the caller's commit. *)

\* The snapshot shows a finished row: hand out the stored scores.
AlreadyFinished(p) ==
    /\ Finished(snap[p].row)
    /\ seen' = [seen EXCEPT ![p] = [score |-> Stored(snap[p].row),
                                    owned |-> FALSE]]
    /\ UNCHANGED <<jobs, lock, mine>>

\* Variant: mark_finished without `status = in_progress'.
WinFinalizeUnguarded(p, target) ==
    /\ ~Finished(snap[p].row)
    /\ UpdateRow(p, [row EXCEPT !.status = target,
                                !.score = RightCount(snap[p].ans)])
    /\ seen' = [seen EXCEPT ![p] = [score |-> RightCount(snap[p].ans),
                                    owned |-> TRUE]]
    /\ jobs' = jobs \ TimerJob

\* mark_finished matched the row: score the answers of the snapshot.
WinFinalize(p, target) ==
    /\ ~Finished(snap[p].row) /\ ~Finished(row)
    /\ UpdateRow(p, [row EXCEPT !.status = target,
                                !.score = RightCount(snap[p].ans)])
    /\ seen' = [seen EXCEPT ![p] = [score |-> RightCount(snap[p].ans),
                                    owned |-> TRUE]]
    /\ jobs' = jobs \ TimerJob

\* Variant: the rowcount of mark_finished is not looked at.
LoseFinalizeAsOwner(p) ==
    /\ ~Finished(snap[p].row) /\ Finished(row)
    /\ UpdateRow(p, row)
    /\ seen' = [seen EXCEPT ![p] = [score |-> RightCount(snap[p].ans),
                                    owned |-> TRUE]]
    /\ jobs' = jobs \ TimerJob

\* mark_finished matched nothing: someone else finalized since the snapshot.
\* The "refreshed" row is read from that same snapshot.
LoseFinalize(p) ==
    /\ ~Finished(snap[p].row) /\ Finished(row)
    /\ UpdateRow(p, row)
    /\ seen' = [seen EXCEPT ![p] = [score |-> Stored(snap[p].row),
                                    owned |-> FALSE]]
    /\ jobs' = jobs \ TimerJob

FinishAttempt(p, target) ==
    \/ AlreadyFinished(p)
    \/ WinFinalize(p, target)
    \/ LoseFinalize(p)

-----------------------------------------------------------------------------
(* Handler activations.  UserLoaderMiddleware takes the snapshot and drops *)
(* the updates of a banned user; /ban comes from an admin.                 *)

Begin(u, r) ==
    /\ mode = "up" /\ pc[u] = "idle"
    /\ r.op = "ban" \/ ~banned
    /\ request' = [request EXCEPT ![u] = r]
    /\ BeginTxn(u)
    /\ Goto(u, "write")
    /\ UNCHANGED <<db, jobs, env, lock, mine, put, seen, sent, overlap>>

\* Variant: an upsert without the EXISTS guard.
SubmitAnswerUnguarded(u) ==
    /\ pc[u] = "write" /\ request[u].op = "answer"
    /\ ~Finished(snap[u].row)
    /\ CanLockS(u)
    /\ \A o \in Proc \ {u} : put[o][request[u].pos] = "none"
    /\ lock' = [lock EXCEPT ![u] = "S"]
    /\ put' = [put EXCEPT ![u][request[u].pos] = request[u].option]
    /\ Goto(u, "move")
    /\ UNCHANGED <<db, jobs, env, request, snap, mine, seen, sent, overlap>>

\* on_test_answer: submit_answer with its status-guarded upsert, which
\* writes nothing once the committed row is finished.
SubmitAnswer(u) ==
    /\ pc[u] = "write" /\ request[u].op = "answer"
    /\ ~Finished(snap[u].row)
    /\ CanLockS(u)
    /\ \A o \in Proc \ {u} : put[o][request[u].pos] = "none"
    /\ lock' = [lock EXCEPT ![u] = "S"]
    /\ put' = IF Finished(row) THEN put
              ELSE [put EXCEPT ![u][request[u].pos] = request[u].option]
    /\ Goto(u, "move")
    /\ UNCHANGED <<db, jobs, env, request, snap, mine, seen, sent, overlap>>

\* Where the handler wants the cursor: on_test_answer advances it,
\* on_test_nav jumps.
Target(u, pos) ==
    IF request[u].op = "nav" THEN pos = request[u].pos
    ELSE IsNext(pos, request[u].pos,
                {q \in Position : snap[u].ans[q] # "none"},
                snap[u].row.cursor)

StartNav(u) ==
    /\ pc[u] = "write" /\ request[u].op = "nav"
    /\ ~Finished(snap[u].row)
    /\ Goto(u, "move")
    /\ UNCHANGED <<db, jobs, env, request, txn, seen, sent, overlap>>

\* Variant: set_current_position without its status guard.
SetCurrentPositionUnguarded(u) ==
    /\ pc[u] = "move"
    /\ \E pos \in Position :
          /\ Target(u, pos) /\ pos # snap[u].row.cursor
          /\ UpdateRow(u, [row EXCEPT !.cursor = pos])
    /\ Goto(u, "commit")
    /\ UNCHANGED <<db, jobs, env, request, snap, put, seen, sent, overlap>>

\* set_current_position, guarded by status = 'in_progress'.  It is skipped
\* when the cursor the snapshot shows is already there.
SetCurrentPosition(u) ==
    /\ pc[u] = "move"
    /\ \E pos \in Position :
          /\ Target(u, pos) /\ pos # snap[u].row.cursor
          /\ UpdateRow(u, IF Finished(row) THEN row
                          ELSE [row EXCEPT !.cursor = pos])
    /\ Goto(u, "commit")
    /\ UNCHANGED <<db, jobs, env, request, snap, put, seen, sent, overlap>>

KeepPosition(u) ==
    /\ pc[u] = "move" /\ Target(u, snap[u].row.cursor)
    /\ Goto(u, "commit")
    /\ UNCHANGED <<db, jobs, env, request, txn, seen, sent, overlap>>

\* Two answers holding "S" that both want "X" wait for each other: InnoDB
\* rolls one of them back.
NeedsUpgrade(u) ==
    /\ pc[u] = "move" /\ lock[u] = "S" /\ ~Target(u, snap[u].row.cursor)

DeadlockVictim(u) ==
    /\ NeedsUpgrade(u)
    /\ \E o \in Update \ {u} : NeedsUpgrade(o)
    /\ Released(u)
    /\ Forget(u)
    /\ Goto(u, "done")
    /\ UNCHANGED <<db, jobs, env, seen, sent, overlap>>

\* _show_finished, _resume_or_show_prior, /test: the snapshot is finished,
\* so the handler renders the stored result.
OpenFinished(u) ==
    /\ pc[u] = "write" /\ request[u].op \in {"answer", "nav", "view"}
    /\ AlreadyFinished(u)
    /\ Goto(u, "show")
    /\ UNCHANGED <<db, env, request, snap, put, sent, overlap>>

\* /test or the finish dialog on an attempt the snapshot shows as open.
OpenRunning(u) ==
    /\ pc[u] = "write" /\ request[u].op = "view"
    /\ ~Finished(snap[u].row)
    /\ Goto(u, "commit")
    /\ UNCHANGED <<db, jobs, env, request, txn, seen, sent, overlap>>

\* on_finish_confirmed
FinishTap(u) ==
    /\ pc[u] = "write" /\ request[u].op = "finish"
    /\ FinishAttempt(u, "submitted")
    /\ Goto(u, "show")
    /\ UNCHANGED <<db, env, request, snap, put, sent, overlap>>

\* cmd_ban: the ban and finalize_in_progress_for_user, in one transaction.
BanTap(u) ==
    /\ pc[u] = "write" /\ request[u].op = "ban"
    /\ \A o \in Update \ {u} :
          ~(pc[o] = "commit" /\ request[o].op = "ban")
    /\ FinishAttempt(u, "expired")
    /\ Goto(u, "commit")
    /\ UNCHANGED <<db, env, request, snap, put, sent, overlap>>

\* The result screen goes out before the middleware commits.
ShowResult(u) ==
    /\ u \in Update /\ pc[u] = "show"
    /\ sent' = Append(sent, [kind |-> "result", score |-> seen[u].score,
                             by |-> u, owned |-> seen[u].owned])
    /\ Goto(u, "commit")
    /\ UNCHANGED <<db, jobs, env, request, txn, seen, overlap>>

CommitUpdate(u) ==
    u \in Update /\ Commit(u) /\ Forget(u) /\ NoMore(u) /\ Goto(u, "done")

HandleUpdate(u) ==
    \/ SubmitAnswer(u) \/ StartNav(u) \/ SetCurrentPosition(u)
    \/ KeepPosition(u) \/ DeadlockVictim(u) \/ OpenFinished(u)
    \/ OpenRunning(u) \/ FinishTap(u) \/ BanTap(u) \/ ShowResult(u)
    \/ CommitUpdate(u)

-----------------------------------------------------------------------------
(* Timer jobs.  APScheduler removes a date job from the jobstore when it    *)
(* submits it, and drops one that is due for longer than the grace time.    *)

Fire(j) ==
    /\ mode # "down" /\ pc[j] = "idle"
    /\ j \in jobs /\ RunAt(j) <= now /\ now <= RunAt(j) + Grace
    /\ jobs' = jobs \ {j}
    /\ Goto(j, IF j = "expire" THEN "read" ELSE "write")
    /\ UNCHANGED <<db, env, request, txn, seen, sent, overlap>>

\* Variant: a job too late to run is skipped but not removed.
MisfireKept(j) ==
    /\ mode # "down"
    /\ j \in jobs /\ RunAt(j) + Grace < now
    /\ UNCHANGED vars

Misfire(j) ==
    /\ mode # "down"
    /\ j \in jobs /\ RunAt(j) + Grace < now
    /\ jobs' = jobs \ {j}
    /\ UNCHANGED <<db, env, pc, request, txn, seen, sent, overlap>>

\* Variant: the claim does not require an unstamped slot.
ClaimWarningAgain(s) ==
    /\ pc[s] = "write"
    /\ ~Finished(row)
    /\ UpdateRow(s, [row EXCEPT !.warned = @ \cup {s}])
    /\ BeginTxn(s)
    /\ Goto(s, "commit")
    /\ UNCHANGED <<db, jobs, env, request, put, seen, sent, overlap>>

\* _send_warning: claim_warning_slot stamps the slot iff the committed row
\* is open and unstamped; the user is read under the lock just taken.
ClaimWarning(s) ==
    /\ pc[s] = "write"
    /\ ~Finished(row) /\ s \notin row.warned
    /\ UpdateRow(s, [row EXCEPT !.warned = @ \cup {s}])
    /\ BeginTxn(s)
    /\ Goto(s, "commit")
    /\ UNCHANGED <<db, jobs, env, request, put, seen, sent, overlap>>

SkipWarning(s) ==
    /\ pc[s] = "write"
    /\ CanLockX(s)
    /\ Finished(row) \/ s \in row.warned
    /\ Goto(s, "idle")
    /\ UNCHANGED <<db, jobs, env, request, txn, seen, sent, overlap>>

CommitWarning(s) ==
    /\ Commit(s)
    /\ UNCHANGED <<request, seen>>
    /\ Goto(s, IF snap[s].banned THEN "idle" ELSE "send")

SendWarning(s) ==
    /\ pc[s] = "send"
    /\ sent' = Append(sent, [kind |-> "warning", slot |-> s])
    /\ Goto(s, "idle")
    /\ UNCHANGED <<db, jobs, env, request, txn, seen, overlap>>

Warn(s) ==
    ClaimWarning(s) \/ SkipWarning(s) \/ CommitWarning(s) \/ SendWarning(s)

-----------------------------------------------------------------------------
(* attempt_expire_job, run by its own timer, by the sweep, or at boot. *)

ReadAttempt(p) ==
    /\ pc[p] = "read"
    /\ BeginTxn(p)
    /\ Goto(p, "write")
    /\ UNCHANGED <<db, jobs, env, request, lock, mine, put, seen, sent,
                   overlap>>

ExpireAttempt(p) ==
    /\ pc[p] = "write"
    /\ FinishAttempt(p, "expired")
    /\ Goto(p, "commit")
    /\ UNCHANGED <<db, env, request, snap, put, sent, overlap>>

\* Variant: the DM is not gated by owned_finalization.
CommitExpireUngated(p) ==
    /\ Commit(p)
    /\ IF ~snap[p].banned
       THEN Goto(p, "send") /\ UNCHANGED seen
       ELSE Goto(p, Rest(p)) /\ NoMore(p)
    /\ UNCHANGED request

\* Only the owner of the finalization sends, and not to a banned user.
CommitExpire(p) ==
    /\ Commit(p)
    /\ IF seen[p].owned /\ ~snap[p].banned
       THEN Goto(p, "send") /\ UNCHANGED seen
       ELSE Goto(p, Rest(p)) /\ NoMore(p)
    /\ UNCHANGED request

SendTimeUp(p) ==
    /\ pc[p] = "send"
    /\ sent' = Append(sent, [kind |-> "timeup"])
    /\ Goto(p, "show")
    /\ UNCHANGED <<db, jobs, env, request, txn, seen, overlap>>

SendResult(p) ==
    /\ pc[p] = "show"
    /\ sent' = Append(sent, [kind |-> "result", score |-> seen[p].score,
                             by |-> p, owned |-> seen[p].owned])
    /\ NoMore(p)
    /\ Goto(p, Rest(p))
    /\ UNCHANGED <<db, jobs, env, request, txn, overlap>>

Expire(p) ==
    \/ ReadAttempt(p) \/ ExpireAttempt(p) \/ CommitExpire(p)
    \/ SendTimeUp(p) \/ SendResult(p)

\* Variant: the sweep is a one-off job.
FireSweepOnce ==
    /\ mode # "down" /\ pc["sweep"] = "idle" /\ "sweep" \in jobs
    /\ ~Finished(row) /\ ExpiresAt < now
    /\ jobs' = jobs \ {"sweep"}
    /\ Goto("sweep", "read")
    /\ UNCHANGED <<db, env, request, txn, seen, sent, overlap>>

\* expired_attempt_sweep_job: `expires_at < now', in a session of its own.
FireSweep ==
    /\ mode # "down" /\ pc["sweep"] = "idle" /\ "sweep" \in jobs
    /\ ~Finished(row) /\ ExpiresAt < now
    /\ Goto("sweep", "read")
    /\ UNCHANGED <<db, jobs, env, request, txn, seen, sent, overlap>>

-----------------------------------------------------------------------------
(* Boot: the scheduler starts, reconcile_attempts re-registers the jobs    *)
(* whose time is not past and finalizes an overdue attempt, and only then  *)
(* are the recurring jobs registered and updates accepted.                 *)

Restart ==
    /\ mode = "down"
    /\ mode' = "starting"
    /\ Goto("boot", "list")
    /\ UNCHANGED <<db, jobs, now, spent, request, txn, seen, sent, overlap>>

ListInProgress ==
    /\ pc["boot"] = "list"
    /\ Goto("boot", IF Finished(row) THEN "admit" ELSE "schedule")
    /\ UNCHANGED <<db, jobs, env, request, txn, seen, sent, overlap>>

Reconcile ==
    /\ pc["boot"] = "schedule"
    /\ jobs' = jobs \cup {j \in TimerJob : now < RunAt(j)}
    /\ Goto("boot", IF ExpiresAt <= now THEN "read" ELSE "admit")
    /\ UNCHANGED <<db, env, request, txn, seen, sent, overlap>>

AcceptUpdates ==
    /\ pc["boot"] = "admit"
    /\ mode' = "up"
    /\ jobs' = jobs \cup {"sweep"}
    /\ Goto("boot", "idle")
    /\ UNCHANGED <<db, now, spent, request, txn, seen, sent, overlap>>

Boot == Restart \/ ListInProgress \/ Reconcile \/ AcceptUpdates

-----------------------------------------------------------------------------
(* The environment. *)

Tick ==
    /\ now < MaxTime
    /\ now' = now + 1
    /\ UNCHANGED <<db, jobs, mode, spent, pc, request, txn, seen, sent,
                   overlap>>

Spend(what, max) ==
    /\ spent[what] < max
    /\ spent' = [spent EXCEPT ![what] = @ + 1]

\* A statement, the commit, or a handler's Telegram call fails: rollback.
\* The jobs finish() removed stay removed.
Rollback(p) ==
    /\ InTxn(p) \/ pc[p] = "read"
    /\ Spend("faults", MaxFaults)
    /\ Released(p)
    /\ IF p \in Update THEN Forget(p) ELSE UNCHANGED request
    /\ NoMore(p)
    /\ Goto(p, Rest(p))
    /\ UNCHANGED <<db, jobs, now, mode, sent, overlap>>

\* A job's message is not delivered; the error is swallowed.
LoseMessage(p) ==
    /\ p \notin Update /\ pc[p] \in {"send", "show"}
    /\ Spend("faults", MaxFaults)
    /\ IF pc[p] = "send" /\ p \in Expirer
       THEN Goto(p, "show") /\ UNCHANGED seen
       ELSE Goto(p, Rest(p)) /\ NoMore(p)
    /\ UNCHANGED <<db, jobs, now, mode, request, txn, sent, overlap>>

\* A jobstore write that never landed, or an evicted key.
LoseJob(j) ==
    /\ j \in jobs /\ Spend("faults", MaxFaults)
    /\ jobs' = jobs \ {j}
    /\ UNCHANGED <<db, now, mode, pc, request, txn, seen, sent, overlap>>

\* A removal Redis forgot: its append-only file is synced once a second, so
\* a Redis that dies may come back with a job that already ran.
RestoreJob(j) ==
    /\ j \notin jobs /\ Spend("faults", MaxFaults)
    /\ jobs' = jobs \cup {j}
    /\ UNCHANGED <<db, now, mode, pc, request, txn, seen, sent, overlap>>

\* FLUSHDB, or a Redis that comes back empty.
FlushJobstore ==
    /\ jobs # {} /\ Spend("flushes", MaxFlushes)
    /\ jobs' = {}
    /\ UNCHANGED <<db, now, mode, pc, request, txn, seen, sent, overlap>>

\* The process dies: every open transaction is rolled back, every running
\* handler and job is gone; MySQL and Redis keep what they have.
Crash ==
    /\ mode # "down" /\ Spend("crashes", MaxCrashes)
    /\ mode' = "down"
    /\ pc' = [p \in Proc |-> IF p \in Update /\ pc[p] # "idle" THEN "done"
                             ELSE "idle"]
    /\ lock' = [p \in Proc |-> "none"]
    /\ put' = [p \in Proc |-> NoAnswers]
    /\ mine' = [p \in Proc |-> OpenRow]
    /\ snap' = [p \in Proc |-> NoSnapshot]
    /\ seen' = [p \in Proc |-> NoResult]
    /\ request' = [u \in Update |-> [op |-> "view"]]
    /\ UNCHANGED <<db, jobs, now, sent, overlap>>

Fault ==
    \/ \E p \in Proc : Rollback(p) \/ LoseMessage(p)
    \/ \E j \in TimerJob : LoseJob(j) \/ RestoreJob(j)
    \/ FlushJobstore
    \/ Crash

-----------------------------------------------------------------------------
\* Nothing is left to do: the student is idle and no job will fire.
Quiet ==
    /\ mode = "up" /\ now = MaxTime
    /\ \A p \in Proc : pc[p] \in {"idle", "done"}
    /\ jobs \cap TimerJob = {}
    /\ Finished(row) \/ "sweep" \notin jobs
    /\ UNCHANGED vars

Init ==
    /\ row = OpenRow /\ ans = NoAnswers /\ banned = FALSE
    /\ jobs = Job /\ now = 0 /\ mode = "up"
    /\ pc = [p \in Proc |-> "idle"]
    /\ request = [u \in Update |-> [op |-> "view"]]
    /\ snap = [p \in Proc |-> NoSnapshot]
    /\ lock = [p \in Proc |-> "none"]
    /\ mine = [p \in Proc |-> OpenRow]
    /\ put = [p \in Proc |-> NoAnswers]
    /\ seen = [p \in Proc |-> NoResult]
    /\ sent = <<>>
    /\ overlap = FALSE
    /\ spent = [faults |-> 0, crashes |-> 0, flushes |-> 0]

Next ==
    \/ \E u \in Update : HandleUpdate(u) \/ \E r \in Request : Begin(u, r)
    \/ \E s \in Slot : Warn(s)
    \/ \E p \in Expirer : Expire(p)
    \/ \E j \in TimerJob : Fire(j) \/ Misfire(j)
    \/ FireSweep
    \/ Boot
    \/ Tick
    \/ Fault
    \/ Quiet

Spec == Init /\ [][Next]_vars

\* What the runtime guarantees: time passes, the event loop resumes every
\* handler and job that can go on, the scheduler fires what is due, and a
\* supervisor restarts the process.
Fairness ==
    /\ WF_vars(Tick)
    /\ WF_vars(Boot)
    /\ WF_vars(FireSweep)
    /\ \A u \in Update : WF_vars(HandleUpdate(u))
    /\ \A s \in Slot : WF_vars(Warn(s))
    /\ \A p \in Expirer : WF_vars(Expire(p))
    /\ \A j \in TimerJob : WF_vars(Fire(j) \/ Misfire(j))

FairSpec == Spec /\ Fairness

-----------------------------------------------------------------------------
(* Properties. *)

Label == {"idle", "write", "move", "show", "commit", "done", "read", "send",
          "list", "schedule", "admit"}

\* The types of the variables.
TypeOK ==
    /\ row \in Row /\ ans \in Answers /\ banned \in BOOLEAN
    /\ jobs \subseteq Job
    /\ now \in Nat /\ mode \in {"down", "starting", "up"}
    /\ pc \in [Proc -> Label]
    /\ request \in [Update -> Request]
    /\ snap \in [Proc -> [row : Row, ans : Answers, banned : BOOLEAN]]
    /\ lock \in [Proc -> {"none", "S", "X"}]
    /\ mine \in [Proc -> Row]
    /\ put \in [Proc -> Answers]
    /\ seen \in [Proc -> [score : Position \cup {0}, owned : BOOLEAN]]
    /\ sent \in Seq(Message)
    /\ overlap \in BOOLEAN
    /\ spent \in [{"faults", "crashes", "flushes"} -> Nat]

\* Once a final status is committed, no tap, job, sweep, ban or restart
\* changes the row again: not its status or score (mark_finished), not its
\* cursor (set_current_position, M6), not its warning stamps (C7).
FinishedIsFinal == [][Finished(row) => row' = row]_vars

\* No answer is committed to a finished attempt (H1): the lock of the
\* guarded upsert keeps the finalizing UPDATE out until the answer commits.
AnswersFrozen == [][Finished(row) => ans' = ans]_vars

\* The row and its locks: an exclusive lock excludes every other lock; an
\* uncommitted answer stands under a lock and on an open row; and a row in
\* the making differs from the committed one only while that one is open.
RowDiscipline ==
    /\ \A p \in Proc, o \in Proc :
          p # o /\ lock[p] = "X" => lock[o] = "none"
    /\ \A p \in Proc :
          WritesAnswer(p) => lock[p] # "none" /\ ~Finished(row)
    /\ \A p \in Proc :
          lock[p] = "X" => mine[p] = row \/ ~Finished(row)

\* Both, the inductive invariant of the row.
AttemptInv == TypeOK /\ RowDiscipline

Warned(s) == \E i \in DOMAIN sent : sent[i] = [kind |-> "warning", slot |-> s]

\* The claim protocol: a slot is stamped under the lock, by the one job that
\* will send, and stamps are never taken back, so what was sent, or is about
\* to be, is stamped, and what is about to be was not sent before.
WarningDiscipline ==
    /\ \A p \in Proc : lock[p] = "X" => row.warned \subseteq mine[p].warned
    /\ \A s \in Slot :
          /\ pc[s] = "commit" => /\ lock[s] = "X"
                                 /\ s \in mine[s].warned \ row.warned
          /\ pc[s] = "send" => s \in row.warned /\ ~Warned(s)
          /\ Warned(s) => s \in row.warned

TimeUpSent == \E i \in DOMAIN sent : sent[i].kind = "timeup"

\* The finalization protocol: an expire job that owns the finalization and
\* has not committed holds the lock over an open row; after its commit, and
\* until its message is out, it is the only one about to send, for a row
\* that expired; and what it sends next is the score of the row.
ExpiryDiscipline ==
    /\ TimeUpSent => row.status = "expired"
    /\ \A p \in Expirer :
          /\ pc[p] = "commit" /\ seen[p].owned =>
                /\ lock[p] = "X" /\ ~Finished(row)
                /\ mine[p].status = "expired"
                /\ mine[p].score = seen[p].score
          /\ pc[p] = "send" =>
                /\ row.status = "expired" /\ ~TimeUpSent
                /\ \A o \in Expirer : pc[o] = "send" => o = p
          /\ pc[p] \in {"send", "show"} =>
                Finished(row) /\ seen[p].score = row.score
    /\ \A i \in DOMAIN sent :
          sent[i].kind = "result" /\ sent[i].by \in Expirer => Finished(row)

\* What the jobs owe to what they have sent, over crashes and restored jobs.
DeliveryDiscipline == WarningDiscipline /\ ExpiryDiscipline

\* A student gets each warning at most once, over restarts, re-registered
\* jobs and failed sends.
WarnedOnce ==
    \A i, j \in DOMAIN sent :
        /\ sent[i].kind = "warning" /\ sent[j].kind = "warning"
        /\ sent[i].slot = sent[j].slot
        => i = j

\* "Time is up" is sent at most once, although the timer, the sweep and the
\* boot all run the expire job, and never for an attempt the student
\* submitted (H2).
TimeUpOnce ==
    \A i, j \in DOMAIN sent :
        sent[i].kind = "timeup" /\ sent[j].kind = "timeup"
            => i = j /\ row.status = "expired"

\* The result an expire job sends is the one the row keeps: the job sends
\* after its commit.
ExpiryResultIsStored ==
    \A i \in DOMAIN sent :
        sent[i].kind = "result" /\ sent[i].by \in Expirer
            => sent[i].score = row.score

\* A result screen shows the score the row keeps.  The owner shows it before
\* its commit, so it is true unless the tap is rolled back or cut off; whoever
\* finds the attempt finished shows the stored score, and whoever lost the race
\* to finish it the 0 of its own snapshot, but never a score it computed.
ShownResultIsStored ==
    /\ \A u \in Update :
          pc[u] = "show" /\ ~seen[u].owned =>
              /\ Finished(row)
              /\ seen[u].score = IF Finished(snap[u].row) THEN row.score ELSE 0
    /\ \A i \in DOMAIN sent :
          sent[i].kind = "result" /\ sent[i].by \in Update =>
              IF sent[i].owned
              THEN pc[sent[i].by] = "done" /\ spent.faults = 0 /\ spent.crashes = 0
                      => row.status = "submitted" /\ sent[i].score = row.score
              ELSE Finished(row) /\ sent[i].score \in {0, row.score}

\* If no answer was committed while a finish was running, the stored score
\* is the number of right answers stored, then and ever after.
ScoreIsExact ==
    Finished(row) /\ ~overlap => row.score = RightCount(ans)

\* No attempt stays open for ever: whatever is lost or fails, finitely often,
\* the timer, the sweep or the boot finalizes it (C4).
EventuallyFinished == <>Finished(row)

\* The attempt's timer jobs all leave the jobstore for good.
JobsDrain == <>[](jobs \cap TimerJob = {})

\* The attempt keeps the contract of AttemptContract.
Contract == INSTANCE AttemptContract WITH
    status <- row.status, score <- row.score, answers <- ans,
    warned <- row.warned,
    delivered <- {s \in Slot : \E i \in DOMAIN sent :
                     sent[i] = [kind |-> "warning", slot |-> s]},
    noticed <- (\E i \in DOMAIN sent : sent[i].kind = "timeup")

KeepsContract == Contract!Spec
=============================================================================
