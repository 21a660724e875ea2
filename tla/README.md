# Attestation bot: TLA+ models and proofs

Models of the Telegram bot under `src/app` that prepares teachers for an
attestation test: a student pays, an admin approves the receipt, the student
takes a timed test once, and sees the score. The bot is one asyncio process
(aiogram, async SQLAlchemy on MySQL, Redis for FSM state, caches and the
APScheduler jobstore) with a web panel for the admins in the same process.

## 1. Inventory

| Part | State it keeps | Operations | Interacts with | Hard behaviour | What makes it correct |
|---|---|---|---|---|---|
| Attempt lifecycle (`services/attempt_service.py`, `repositories/attempt_repository.py`, `answer_repository.py`, `handlers/test_taking.py`) | rows of `attempts` and `answers` | start, answer, navigate, finish, resume, force-finish on ban | scheduler (jobs), settings, Telegram | one transaction per update at REPEATABLE READ, interleaving at every `await`; commit after the message is sent | finalized once, final rows and their answers never change, the result shown is the result stored |
| Timers (`jobs/attempt_timer.py`, `jobs/registry.py`, `jobs/startup_reconciliation.py`, `core/scheduler.py`) | jobs in Redis DB 1 | warn, expire, sweep, reconcile at boot | attempt lifecycle, Telegram | misfire, lost or restored jobs, crash between commit and send, three ways to run the same expire job | each message at most once; every attempt ends |
| Test publishing (`services/test_service.py`, `repositories/test_repository.py`, `handlers/admin/tests.py`, `web/handlers/tests.py`) | rows of `tests` and `questions` | upload, save draft, publish, archive, delete, duplicate | attempts (start), broadcasts | bot and panel publish at once; archive and publish are two statements; broadcast spawned before the commit | at most one published test, and never none because of a failed publish |
| Receipt review (`services/receipt_service.py`, `handlers/payment.py`, `handlers/admin/receipts.py`) | rows of `payment_receipts`, Redis submission lock | submit, approve, reject | user funnel, admin group | two admins review at once; lock released before commit; ban in between | a receipt is reviewed once, and the user's status follows the review |
| User funnel (`services/user_service.py`, `repositories/user_repository.py`, `handlers/onboarding.py`, `admin/operations.py`) | `users.status` | onboarding steps, approve, reject, ban, unban | all others | status computed from an old read, written without a guard | no step leaves `banned` but unban; approval only by review |
| Broadcasts (`services/broadcast_service.py`, `jobs/broadcast_runner.py`, `handlers/admin/broadcast.py`) | rows of `broadcasts` (cursor, counters), running tasks | confirm, run a batch, resume, report | users, Telegram | crash in a batch, two tasks on one row, double tap | everyone is reached, nobody twice but for the batch cut by a crash |
| Receipt reminder (`jobs/pending_receipt_reminder.py`) | Redis markers, admin-group message id | hourly sweep | receipts, Telegram | marker and repost are separate | every overdue receipt is re-posted |
| Settings cache (`services/settings_service.py`) | `settings` rows, Redis entries | get, set | all others | invalidation before commit | readers converge to the committed value |
| Rate limits and locks (`middlewares/throttle.py`, `utils/rate_limiter.py`) | Redis counters | throttle, acquire | Telegram | INCR and EXPIRE are two calls | at most n per window, and no user is locked out for ever |
| Web sessions (`web/auth.py`, `web/handlers/login.py`, `admin/weblogin.py`) | Redis login codes and sessions | issue, consume, load, revoke | admins | one-time code consumed twice | one session per code |
| Question validation and import (`services/question_validation.py`, `services/excel_parser.py`) | none | parse, validate | publishing | numeric edges | a publishable draft has 50 well-formed questions in their sections |
| Admins, statistics, views, configuration | `admins` (seeded), none | lookups, formatting | – | – | – |

## 2. Plan

In this order; each with its MC module, runs and mutants.

1. `AttemptLifecycle` and `AttemptContract` — done (section 3).
2. `StudentFunnel` — done (section 7): the user's status machine, his receipts
   and their review in one module, since a submission and a review each write
   both rows in one transaction; `AccessContract` is what it implements.
3. `TestPublishing`, and `AttemptStart` on top of it — done (section 8).
4. `BroadcastRunner` — done (section 9).
5. `PanelAccess` (codes, sessions, both rate limits) and `SettingsCache` — done
   (sections 10 and 11).
6. `QuestionImport` and `Markup` — done (section 12).
7. Left: the nags of the receipt reminder and the token bucket for outgoing
   messages (section 14).

Proved: every safety invariant and action property of every run, for all values
of the constants, with a proof module beside each module of a component (sections 6 to 12),
and that `AttemptLifecycle` implements `AttemptContract`, and `StudentFunnel`
`AccessContract`. TLC only: the liveness
properties, which need fairness, and `MarkupIsFaithful`, which is about recursive
operators. The other modules declare nothing RECURSIVE for that reason.

Composition: `AttemptStart` extends `TestPublishing` and interleaves starts with
publishes over the same rows; its attempts then live in `AttemptLifecycle`, which
begins where a start commits. `BroadcastRunner` takes what `TestPublishing` calls
`announced` as the task `notice`.

## 3. The attempt: `AttemptLifecycle`, `AttemptContract`

`AttemptLifecycle` is one attempt with everything that runs against it.

| Model | Code |
|---|---|
| `row`, `ans`, `banned` | the committed `attempts` row, its `answers`, `users.status` |
| `jobs`, `now`, `mode` | the Redis jobstore, the clock, the process (down, starting, up) |
| `pc[p]`, `request[u]` | where a handler activation or job is; what the update asked |
| `snap[p]`, `lock[p]`, `mine[p]`, `put[p]` | the read view, the row lock, and the uncommitted writes of its transaction |
| `seen[p]` | the `AttemptResult` that `finish()` returned: score, `owned_finalization` |
| `sent` | every message the student received, in order |
| `overlap`, `spent` | history variables: an answer committed during a finish; faults used |

Processes: `Update` are handler activations (one per Telegram update), `Slot`
the warning jobs, and `expire`, `sweep`, `boot` the three callers of
`attempt_expire_job`.

A transaction has a snapshot (`BeginTxn`), locking statements (`SubmitAnswer`
takes a shared lock on the attempt row, `UpdateRow` an exclusive one), and an
end (`Commit`, `Rollback`). Plain SELECTs read the snapshot; a guarded UPDATE or
INSERT ... SELECT reads the committed row, which is MySQL's REPEATABLE READ, the
level `docs/DATABASE_SPEC.md` names. `populate_existing=True` in
`get_by_id` re-reads from the same snapshot, so `LoseFinalize` returns the
snapshot's scores. Steps between two awaits are one action when nothing they read
can change in between, because they read the snapshot.

Handlers send their message before the middleware commits (`ShowResult`, then
`CommitUpdate`); jobs commit first (`CommitExpire`, then `SendTimeUp`,
`SendResult`).

Abstractions: an answer is right or wrong; the three sections are one score; a
warning slot is a model value; texts and keyboards are left out. One student, one
attempt: rows of different attempts share no lock, and jobs carry the attempt id.

`AttemptContract` is what a reader may rely on: open, then finalized once with a
score; answers and claims only while open; a claimed warning delivered at most
once; "time is up" at most once and only for an expired attempt. `KeepsContract`
checks that `AttemptLifecycle` implements it, and `ContractKept` proves it.

## 4. Runs

| Run | Instance | Shows |
|---|---|---|
| `races` | 2 activations, 1 slot, N = 2, no faults, symmetry on activations | types and lock discipline (`AttemptInv`); final rows and answers; everyone is shown the stored score, or the 0 of a lost race; the score is exact when no answer overlaps a finish |
| `crash` | 1 activation, 1 slot, N = 2, one fault, one crash, one flush | at most one warning, at most one "time is up", the result sent is the one stored, the contract, and the inductive invariant of the messages (`DeliveryDiscipline`) |
| `live` | 1 activation, no slot, N = 1, one fault, one crash, fairness | the attempt is finalized and its jobs leave the jobstore |

Bounds. Two activations are two concurrent taps of one student, or a tap and an
admin's ban; more only repeat a role, since every conflict is over one row lock.
Two questions let answers, cursor moves and scores differ. Time runs from 0 to 3
with the warning at 1 and the end at 2: before, at and after each instant, and one
instant past the end, as the sweep's `expires_at < now` wants. Grace 0 makes
misfires possible within that range. `MaxFaults`, `MaxCrashes` and `MaxFlushes`
bound the environment; Telegram's outcomes need no bound.

`Symmetry` is used in `races` only, whose properties are invariants and action
properties.

Deadlock is checked in every run: `Quiet` is the only idle state, and it requires
that nothing is left to do.

## 5. Fairness

`Fairness` asks what the runtime gives: the clock advances; the event loop
resumes every activation and job that can go on (weak fairness per process:
a lock wait ends, because its holder ends); the scheduler fires or drops what is
due, and the sweep; a supervisor restarts the process
(`docker-compose.prod.yml`, `railway.toml`). Nothing is assumed of students,
admins or faults.

## 6. Proofs

How every proof is laid out: the inductive invariant says what is true of each
activation at each place, given the rows that are committed and what the others
have locked; a lemma for each kind of step shows that it moves one activation to
a place where that is true again and disturbs no other; one lemma for each
action appeals to it; a last one collects the disjuncts of `Next`. Each component
has one such module, and the assumptions are the named ASSUMEs of the module it
is about, which TLC evaluates in every run. The bounds of an instance (faults,
crashes, updates) are constants like the others, so no theorem depends on their
values. The inductive invariants are over the variables of the models, with the
histories (`overlap`, `raced`, `crossed`, `steady`) that name the exceptions.

`AttemptLifecycle_proofs` holds for every number of activations, slots and
questions and every budget of faults, from the four named assumptions of the
module.

- `InvariantHolds` is `AttemptInv`, the types (`TypeCorrect`, one lemma per
  component of `Next`) and `RowDiscipline` (`RowsAreGuarded`), which is
  inductive relative to the types. An
  exclusive lock stands alone; uncommitted answers stand under a lock on an open
  row; a pending row differs from the committed one only while that one is open. Each step does one of four things to
  the row and the locks (`RowUntouched`, `RowUpdated`, `RowCommitted`,
  `RowReleased`), so each action is one appeal to one of these lemmas. From it,
  `FinalRow` and `FrozenAnswers`: only a commit writes, and a commit to a
  finished row has nothing to write.
- `DeliveriesAreDisciplined` joins the two invariants of the messages,
  `WarningDiscipline` and `ExpiryDiscipline`. `AtMostOneWarning` rests on `WarningDiscipline`: `WarnedOnce` alone is not
  inductive, since a job about to send must know that nobody sent before. It
  knows because the stamp it holds, or committed, was not there before, and stamps
  are never taken back.
- `AtMostOneTimeUp` and `ExpiryResultCorrect` rest on `ExpiryDiscipline`: the
  owner of the finalization holds the lock over an open row until it commits,
  and is then the only one about to send.

- `ShownResultIsStored` and `ScoreIsExact` rest on `ScoreInv` (`ScoreInvariance`).
  Neither is inductive alone: a message goes out before the commit that makes it
  true, and a score is computed from a snapshot. So `SoundTxn` says of each
  transaction that it holds locks only between its first statement and its end,
  that it writes one answer, or a claim, or a final status and never two of these,
  that a finish has every committed answer in its snapshot as long as no answer
  overlapped, and that who is about to show a result as its owner will store it;
  `ShownTruly` says of each message sent that its commit is still to come, or
  happened, or something failed. For those who did not own the finalization,
  `SightInv` (`SightInvariance`) adds that a row has scores when it is finished and
  only then, that a finished row in a snapshot is the row, and that who is about to
  show a result found it finished: by its snapshot, whose score it shows, or by
  losing the race, when the snapshot has none and it shows 0.
- `ContractKept` is the refinement, step by step. The commit of a sound
  transaction is `StoreAnswer`, `ClaimWarning`, `Finalize` or a stutter
  (`ContractCommit`); a warning or "time is up" is `DeliverWarning` or
  `NoticeTimeUp`, whose guards are what the two disciplines of the messages
  say of a job about to send (`ContractWarning`, `ContractTimeUp`); every other
  step stutters.

Checked by TLC only: liveness (`EventuallyFinished`, `JobsDrain`).

## 7. The student and his receipts: `StudentFunnel`

One student, the admins who review his receipts and ban him, and the hourly
job that posts again the receipts whose card did not arrive.

| Model | Code |
|---|---|
| `user` | the committed row in `users`: `status`, whether `approved_at` is set (`stamped`), `reference_code` |
| `receipts`, `nextId` | the committed rows of `payment_receipts` and their AUTO_INCREMENT |
| `fsm`, `rejecting` | the FSM in Redis: of the student, and of the admins who were asked for a reason |
| `submitLock` | `receipt_submit_lock` in Redis, with its TTL (`LockExpires`) |
| `card` | the card of a receipt in the admin group: not sent, with live buttons, without |
| `verdicts`, `undone` | history: the verdicts the student was sent of each receipt, and those among them whose review was rolled back afterwards (`Undo`) |
| `pc[p]`, `tx[p]` | an activation and its transaction: the update, the snapshot, the lock on the user row, the rows to be committed |
| `repost` | `_repost_unnotified_receipts`: collecting, sending, storing |
| `faults` | history: failed transactions and sends, crashes, stalls |

A transaction begins in `UserLoaderMiddleware` (`Begin`), whose first SELECT
fixes the snapshot: `tx[p].snap` and `tx[p].pending` are all that plain reads
of the handler see, re-reads with `populate_existing` included. UPDATEs read and
lock the committed row (`CanWrite`); the INSERT of a receipt takes a shared lock
on its user through the foreign key (`CanShare`). `Commit` and `Fail` end it.
Redis and Telegram change at once and are not rolled back.

A step goes up to the next effect others can see: `Submit` is the insert of the
receipt and the update of the user; `PostCard` sends the card, answers the
student, clears his FSM and releases the lock; `Announce` takes the buttons off
and sends the verdict. The statements merged wait for all their locks at once,
which leaves out one thing: two submissions that both hold the shared lock and
both want the exclusive one deadlock in InnoDB, one is rolled back, and the
model has that as a `Fail`. Exceptions come between steps, not within.

`Resolve`, `Approve` and `Reject` hold the conditions of the two UPDATEs of a
review (`status = 'pending'`, `status <> 'banned'`). When the user's UPDATE
matches nothing, `approve()` decides from the snapshot whether that is an error
(`fate = "refused"`), and the handler returns, so the middleware commits the
receipt's half.

| Run | Instance | Shows |
|---|---|---|
| `review` | from `pending_payment`, 2 activations, 2 receipts, all updates, no fault | types, transactions and the cap (`FunnelInv`), the contract (`KeepsContract`), `AccessIsPaid`, `BanOutlivesReview` |
| `onboard` | from `new`, 2 activations, 1 receipt, 1 fault, no bans | `ReviewIsPending` and `OneVerdict` for the whole funnel, when a transaction or a send fails, the process dies, or the lock expires under its holder |
| `funnel_live` | 2 activations, 1 receipt, 2 faults, the updates that send, review and stop a receipt, fairness | every pending receipt gets a card or a verdict; the submit lock is released |

Bounds. Two activations are slots that are used again for every update to come,
so a run interleaves any number of updates, two at a time; every race above is
between two. Two receipts let a second one be decided after, or while, the first
is. The cap is 3 in the code and 2 in `review`, so that a submission may find the
student under review already, and 1 in the other runs, where it refuses a second
photo. `CapDiscipline` is reached with equality in `review` (two pending, one photo in
hand); more receipts than the cap would take three, beyond the reach of a run that
has everything else, so that they stay within the bound is what the proof shows. Codes
are numbers, one more than used. `Kinds` leaves /ban and /unban to
`review`, which has nothing of onboarding to interleave with them, and restricts
`funnel_live` to sending and reviewing, where the temporal check is the cost.

Fairness: the event loop resumes an activation that can go on
(`WF` of `Handle(p)`; a lock ends because its holder ends), cron runs the job
every hour, and Redis expires keys. No update, send or admin is assumed.

`StudentFunnel_proofs` holds for any number of activations, any cap and all
bounds. `FunnelInvariant` is `FunnelInv`: `TxDiscipline` is inductive with the
types, since every step either moves one transaction to one that is `Sound`
given what the others hold (`SoundMoves`), or commits one (`CommitSafe`), or
touches no transaction (`OutsideSafe`).

`AccessContract` is the student's status, whether he ever had access, and the
verdicts, with six atomic steps: register, send, approve, reject, ban, unban.
`ContractKept` maps each commit to one of them or to none, and every other step to
none: `Due` says of each transaction what its commit will do to the rows as they are now. It stays true
because who holds "X" alone may change the user (so the status a review was
conditioned on is the one it replaces), and who holds a receipt alone may change its
verdict. Stale snapshots are in the contract, as steps without a condition on the
status; what the UPDATEs of a review are conditioned on is not stale.

`CapDiscipline` is about two counts at once, the pending receipts and the photos in
hand whose snapshot had room, since a commit only moves one from the second to the
first (`CommitCap`), an update that comes sees the first as it is (`BeginCap`), and no
other step adds to either (`SteadyCap`, `SumKept`). It is inductive with `Counts`: only
such a photo inserts a pending receipt. So the cap is exceeded by fewer than the photos
handled at once (`CapOverrunBounded`), and not at all one at a time (`CapHoldsAlone`).
`WorkersAssumption` says that there are finitely many activations, and one at least.
`ReviewsAreFinal` then needs only that the receipt a transaction holds is not
decided yet. `AccessIsAlwaysPaid` is no argument about the funnel: it holds of the
contract, where approved_at is set together with an approval and never cleared
(`ContractPays`), so by `ContractKept` it holds of the funnel.

`ReviewInv` (`ReviewInvariance`) adds what `ReviewIsPending`, `OneVerdict` and
`BanOutlivesReview` need. `Fit` ties the user's row to the receipt's within
a transaction: a review that decides a receipt leaves no user under review, a
verdict that was announced is the one about to be committed, and a row written
over a banned user is banned, or of /unban, or of a student who was not banned
when his handler began. `ToldTruly` is the protocol of the verdicts: each that was
sent is on its row, or about to be committed, or `undone`. `OneVerdict` follows: once
no review of a receipt is under way, what was sent of it and not undone is its row's
verdict. Nothing is excepted when something fails but the verdict of the very review
that was rolled back: the model, like the code, can then tell the student the other
one. The theorems hold for every set `Kinds`, so `ReviewIsPending` and `OneVerdict`
hold with bans too, which the run `onboard` leaves out. The two liveness properties are checked
by TLC only.

## 8. Tests and starts: `TestPublishing`, `AttemptStart`

Drafts come from a sheet sent to the bot, from the editor of the panel, or as
copies; photos come one by one in the bot or through the editor; publishing
archives the active test and activates a draft, from either door.

| Model | Code |
|---|---|
| `status`, `cards` | the committed rows of `tests` and `questions`: a position is empty, text only, waits for its image, or has one of two files |
| `fsm`, `previews` | the upload flow in Redis, and the previews in the chat whose publish buttons stay there |
| `pc[w]`, `tx[w]` | an update or request in its transaction: the snapshot, the rows it has locked and what becomes of them, the questions it writes |
| `announced` | history: how often each test was announced |
| `raced`, `stranded`, `door` | history: edited while being published; a refused publish that committed its archive; where a test was published |

`Snapshot` keeps what plain reads of the handler return. `Publish` is
`TestService.publish` with its four ends: incomplete images, a test that is no
draft any more (`ValueError`, which both doors answer and then commit), the
unique index on the active flag (`PublishConflictError`, rolled back), and
success. `Commit` ends a transaction and, in the panel, announces; in the bot the
announcement is spawned before the commit (`PublishTap`). A handler takes all the
locks of its statements at once, so no deadlock of two publishers appears; InnoDB
resolves one by a rollback, which is `Fail`.

`AttemptStart` adds the student's taps on the start button: the snapshot
(`TapStart`), the insert under the unique key (`Create`), the four timer jobs
(`ScheduleJobs`, one step, with a failure after any of them) and the commit. The
foreign key makes a start share the row of its test with the publisher who wants
to archive it (`SharedBy`, `Exclusive`).

| Run | Instance | Shows |
|---|---|---|
| `publish` | 2 activations, up to 4 updates or requests, 3 tests, 1 position, 1 failed commit, symmetric workers | one active test and no conflicting writes (`PublishInv`); published tests are whole and keep their questions, unless an edit overlapped the publish; students keep having a test, unless a refused publish committed its archive; a test is announced once |
| `start` | 3 taps, 2 activations, copies and publishes of up to 3 tests, 1 failed write or commit | one open attempt, unless a publish was committed during a start; no attempt without timer jobs, and no jobs without an attempt but those of a start that rolled back |

Three tests are the active one, a draft, and a second draft that beats it. Four
updates allow a draft to be made, edited and published while another is. One
position is enough: positions differ only by which one is written, and two edits
of one position are the race. The silent publishes differ from the others only in
the announcement and are left to `start`. Three taps are two that race and one
that comes later.

The histories are the exceptions, and they are real: `raced`, `stranded` and
`crossed` states are reachable, and section 13 says how.

`TestPublishing_proofs` holds for any number of workers, tests and positions and
any questions an editor may send. Its `IInv` (`Invariance`) says of each
transaction how what it read, locked and is about to write fits the committed
rows: rows only go forward (`RowsSound`), what cannot be undone is still as it was
read (`TargetSound`), a publish to be committed archives every active test
(`PublishSound`), and an editor and a publisher of one test have seen each
other's work, or the test is in `raced` (`Overlaps`, `SnapshotSound`). From it
follow `AtMostOneActive` (`PublishInv`), `PublishedTestsAreWhole`,
`ToldAtMostOnce`, `FrozenQuestions` and `TestsGoForward`. `PublishInv` alone
is not inductive: it does not say what the transactions under way will commit.

`AttemptStart_proofs` extends it: every step of a publisher keeps `IInv`, and
every step of a tap leaves it alone, so `StartInv` (`StartInvariance`) adds only
what holds of starts: the row of a start is its own until it ends, a start that
will be committed is at a test that stays published (it shares the row, and a
publisher must wait), and what it has not seen is at the same test unless a
publish crossed it. `OneAttemptEach` and `ClocksMatch` are `OneOpenAttempt` and
`JobsMatchAttempts`, for any number of taps, attempts and publishers.
`PublishingGoesOn` carries the five theorems of publishing over to the composition:
the lemmas they rest on are about steps of publishers, and a tap leaves what they
read and write alone (`TestsStep`).

## 9. Broadcasts: `BroadcastRunner`

| Model | Code |
|---|---|
| `approved`, `flagged`, `blocking` | `users.status`, `users.bot_blocked`, and what Telegram knows of the student |
| `fsm`, `tap` | the compose flow, and the handlers of the confirm button |
| `row`, `run` | the rows of `broadcasts` (cursor and counters), and the task of each: its batch, its own counters, the flags not committed yet |
| `notice` | the task that tells of a new test: to whom still, who refused, whom it flagged |
| `copies`, `handled`, `steady`, `interrupted`, `overlapped`, `reports` | history: messages received, students in committed batches, those who were recipients all the time, batches lost, double taps, summaries |

`StartBatch`, `Deliver` and `CommitBatch` are `_run_one_batch`; the cursor and the
counters are absolute values of the run, written in the transaction of the batch
together with the flags. `RunFails` is the exception that ends a run, `NoticeFails`
the one that ends a notice, `Crash` and `Boot` the restart. A failed `copyMessage` may have reached the student.

The run `broadcast` has three kinds of initial states (`MCBroadcast`): one
announcement to three students in batches of two, one of whom blocked the bot,
with one change of the students and one fault; an admin whose two taps on the
button make up to two announcements of one message; and taps that wait while
another message is composed. A message is in `overlapped` when a second tap
reads it before the first has cleared it (`ReadData`). The run shows that
counters and cursor agree with the students handled
(`BroadcastInv`), nobody who stays a recipient is skipped
(`CompletedMeansReached`), resends are bounded by the interrupted batches
(`ResendsBounded`), one row per message but for overlapping taps
(`OneRowPerMessage`), and a started announcement is completed (`Delivered`).
Three students and batches of two give a full batch, a short one, and a cursor
between; a second row only adds a second task over the same rows of users.
Deadlock is not checked: when everything is sent the system rests.

Fairness: tasks and handlers that were started go on, and the supervisor restarts
the process. A run that died in a process that goes on is resumed only by the
next restart, which nothing forces; `Delivered` excepts it.

`BroadcastRunner_proofs` holds for any number of students, broadcasts, messages
and taps and any batch size. Its `IInv` (`Invariance`) says of each broadcast that
a batch goes up from the cursor and leaves out no steady recipient on its way
(`BatchSound`), that the counters are the number of students handled (`Handled`), and
that who had more copies than one, or will have if the next batch reaches him,
was in a batch that was lost (`Resent`); and of each message that no two taps
overlapped on that it is in one place, the flow, a tap or a row (`OnePlace`). The
last is why `OneRowPerMessage` alone is not inductive: it says nothing of the tap
that has yet to insert. From it follow `CountersAreExact` (`BroadcastInv`),
`NobodyIsSkipped`, `ResendsAreBounded` and `OneRowEach`. `Delivered` stays with TLC.

## 10. The way into the panel: `PanelAccess`

| Model | Code |
|---|---|
| `admins` | the rows of `admins`, which are removed by hand |
| `codes`, `sessions`, `windows` | the keys of Redis: login codes, sessions with or without a TTL, counters of the throttle and of the login form |
| `cookie`, `page`, `tab` | one browser: its cookie, the session whose form token each page carries, and the request of each tab |
| `bot`, `shown` | the /weblogin update of each admin, and the code last shown to him |
| `issued`, `stranded` | history: codes issued; counters whose EXPIRE never ran |

Every call to Redis is a step: INCR and EXPIRE, GETDEL, HSET and EXPIRE, HGETALL
and EXPIRE. `Redeem`, `CreateSession` and `ArmSession` are `login_submit`;
`LoadSession`, `Slide`, `CheckAdmin` are `login_required`, followed by `Serve` or
`Logout`. The throttle lets the update pass when Redis fails, the login form
refuses it. EXPIRE and the answer with the cookie are one step.

The run `panel`: one admin, two tabs, one code number (so that a new code may be
the old number again), two codes issued, two sessions, a limit of one, and one
fault. It starts logged out with a code still to be issued, or logged in with one
outstanding and no fault to come, which splits the space without losing a race of two tabs. A code buys one session (`PanelInv`); requests that are
let in had an admin when they were read, and forms belong to the session they
came from (`RequestsAreOwned`); sessions never come back (`SessionsStayGone`);
lockouts end, unless the EXPIRE was lost (`LockoutEnds`).

Fairness: requests and updates that were begun go on, and Redis expires the
counters that have a TTL. Codes and sessions need not expire.

`PanelAccess_proofs` holds for any admins, tabs, codes and sessions and any limit.
Its `IInv` (`Invariance`) is `IssuesAreSpentOnce`, that an issue of a code is in one
place, the code, the request that redeems it or the session it bought, and
`LateIsFound`, that a request whose admin was removed before it was read is found
out by the check still to come. From it follow `CodesBuyOnce` (`PanelInv`),
`RequestsAreAlwaysOwned` and `GoneForGood` (`SessionsStayGone`). `LockoutEnds` stays with
TLC.

## 11. Settings: `SettingsCache`

| Model | Code |
|---|---|
| `rows`, `cache` | the table `settings`, and the entries of Redis with their TTL |
| `reader` | a handler with its snapshot, and the key it is about to cache |
| `writer` | /set: upsert, deletion of the entry, commit |
| `past`, `crossed` | history: the values each row has had; entries filled by a read that crossed a write |

`Fill` caches the value of the handler's snapshot over whatever is there, so a
read may put a value back that a /set has replaced. The run `settings` (two keys,
two values, two readers, two writers, one fault) shows that such a read is the
only way to a stale entry, that nothing rolled back is ever cached
(`SettingsInv`), and that cache and table agree in the end (`Converges`). Two
keys let a handler read one setting and fill another, as `cmd_preview` does.

Fairness: a handler that missed the cache fills it, and handlers come to an end
(`SF`, since they may read any number of settings on the way); commands go on;
Redis expires entries.

`SettingsCache_proofs` proves `SettingsInv` (`SettingsInvariant`) for any keys,
values, readers and writers. `EditSeenAtOnce` is not inductive: a commit must know
that the entry of its key is gone (`DeletedStaysOut`), and a fill that its
snapshot was committed and is old only where a commit came after it
(`SnapshotsAreOld`). `Converges` stays with TLC.

## 12. What authors write: `QuestionImport`, `Markup`

`QuestionImport` is the parser of the sheet, a row at a time (`ReadRow`,
`Return`), the rules it shares with the form (`FieldErrors`), the completeness
check of the panel and the form itself (`CardErrors`, `FormDrafts`). A row is what
the checks tell apart: cells filled, a position that is a number, its section,
texts in order, the has_image cell, whether it fits a caption. `ImportIsExact`
compares the outcome with a definition of a whole test that knows nothing of
rows, seen positions or counts: taken if and only if whole, every row that cannot
stay is reported and no other, and a test that is taken passes the gate of
publishing and survives an editor that is opened and saved.

`Markup` is `**bold**` and `__italic__` as operators over sequences of four
characters, with the nearest match of the two regular expressions.
`MarkupIsFaithful` states what a text that validates promises, for texts whose
markers stand apart: all markers become tags, the length is the one measured, no
pair is blank, and the tags are well nested exactly if no two pairs cross.

One run, `import`: all sheets of up to four rows drawn from fifteen, for a test of
three questions in two sections (fewer rows, as many, and more than wanted; every
kind of error; every repetition), and all texts of up to eight pieces whose
markers stand apart (`MaxPieces`), where a marker counts as one piece. Two pairs
side by side, with something in and between them, are seven pieces
(`**x** **x**`, the smallest text where the nearest closing marker, the second
substitution and the pairing of first to second and third to fourth matter: the
variant `FirstMatchGreedy` fails there), two nested or crossing pairs five, and
both have room for another character. Texts whose markers run together are outside
the property, and stay so whatever follows, so they are not written (`Apart`).
The run stops when the sheet or the text ends, so deadlock is not checked. Three
questions in two sections have both a boundary within the test and sections of
different size.

`QuestionImport_proofs` proves `ImportIsExact` (`ImportsAreExact`) for any layout of
sections, any number of questions and a sheet of any length. `ImportInv`
(`ImportInvariance`) says that the positions seen, the counts and the errors are
functions of the rows read so far, and that, while all of them are good, so are
the questions. That a sheet without errors is a whole test is then a pigeonhole:
as many distinct positions as there are questions are all the positions, and the
sections have the right counts. `MarkupIsFaithful` stays with TLC: what a recursive
operator returns for every text takes an induction over texts.

## 13. Where the code does other than it says, or than one would expect

Each of these is a behaviour of the models; the properties are stated so that
they hold around it.

Attempts and timers

- The sweep lives in the jobstore it is the backstop for
  (`jobs/attempt_timer.py:212-213`, `jobs/registry.py:128`): a flush removes
  both, and the attempt stays open until the next restart. `live` has no flush.
- "Re-read for the canonical scores" reads the old snapshot
  (`services/attempt_service.py:426-435`): whoever loses the race to finish is
  shown 0/50. `ShownResultIsStored` says that nobody else is.
- The result screen is sent before the commit, which may fail
  (`handlers/test_taking.py:311`).
- The status guard of a warning's claim does not order the message behind it: a
  finish may show the result first (`repositories/attempt_repository.py:158-161`).

Students and receipts

- `mark_pending_approval` checks the snapshot and writes without a condition, so
  a photo under way undoes a ban (`services/user_service.py:176-189`, against
  lines 5-8).
- Rejecting a second receipt of an approved student takes his access away
  (`repositories/user_repository.py:84-97`, against rule 2 of
  `docs/PRODUCT_BLUEPRINT.md`), and so does a photo whose handler saw the older
  status.
- The cap is counted in a snapshot older than the lock that is to protect it
  (`handlers/payment.py:133-140`): photos handled at once may exceed it, each but
  one of them by one (`CapOverrunBounded`).
- The handler swallows the exception that is to roll back the approval
  (`handlers/admin/receipts.py:122-124`, against
  `services/receipt_service.py:219-225`).
- The re-read that is to tell a banned student reads the snapshot, so he may be
  sent the invite link (`services/receipt_service.py:218-227`).
- Two name messages at once attach two codes (`services/user_service.py:160-172`).
- A commit that fails after the buttons were removed leaves a receipt nobody can
  decide from Telegram (`handlers/admin/receipts.py:137`). If the buttons stayed, or
  a second admin had tapped already, the student may be told the other verdict after
  the one that was lost; `OneVerdict` says that he never is otherwise.

Tests and starts

- The bot publishes without the completeness check of the panel
  (`services/test_service.py:303-362`); it relies on the parser, and an editor can
  save fewer questions into a draft whose preview is in the chat.
- A publish button of an old preview, of a test that is no draft any more, archives
  the active test, is refused, and the refusal is committed: no test is active
  (`services/test_service.py:331-345`, `handlers/admin/tests.py:352-418`).
- A save or an image that overlaps the publish changes a published test
  (`web/handlers/tests.py:113-131`, `web/handlers/images.py:103-117`); a save also
  loses an image attached after its snapshot, and two photos of an album both go to
  the first position that misses one (`handlers/admin/tests.py:261-298`).
- The bot tells the students before it commits (`handlers/admin/tests.py:421-433`).
- Two starts with a publish in between give two open attempts
  (`services/attempt_service.py:135-146`).

Broadcasts

- The confirm button carries no message: two taps at once confirm twice, and a
  stale one confirms whatever was composed since (`handlers/admin/broadcast.py:189-205`).
- Students approved during a run are reached only if their id is beyond the cursor
  (`models/broadcast.py:63-65` takes that into account).
- A run that failed waits for the next restart (`jobs/broadcast_runner.py:74-92`).

Panel, settings, texts

- A counter whose EXPIRE was lost never expires and locks its owner out
  (`middlewares/throttle.py:45-49`, `web/auth.py:89-91`).
- A logout clears the cookie even of a newer login
  (`web/handlers/login.py:93-96`).
- A read that crosses a /set caches the old value for up to a minute
  (`services/settings_service.py:43-46`, where line 6 has admins see their edit
  immediately).
- Crossing pairs (`**__x**__`) validate and are sent as tags Telegram refuses;
  markers run together (`****x`, `***`) validate and are shown as they are;
  a lone underscore on each side of a `**` makes the measured length too short
  (`utils/markup.py:40-77`).

## 14. Not modelled

- Wording, keyboards, statistics, leaderboard, history and result screens, and
  logging: they read and format.
- The nags of the receipt reminder: their only state is a marker in Redis, and a
  crash between marker and message costs one reminder
  (`jobs/pending_receipt_reminder.py:96`). The token bucket for outgoing messages
  (`utils/rate_limiter.py`): it delays.
- Image download and perceptual hashes (a similar image is a refusal, the fraud
  warnings change no state), names and phone numbers, the creation of the user row.
- More than one student in `StudentFunnel` and `AttemptLifecycle` (rows of
  different students share no lock), more than one browser in `PanelAccess`
  (sessions of different browsers share nothing but the address they are counted
  by, which the tabs share as well).
- More than one process: the deployment runs one.
