----------------------- MODULE AttemptLifecycle_proofs -----------------------
(***************************************************************************)
(* Theorems about AttemptLifecycle, for any number of handler activations, *)
(* warning slots and questions, and any budget of faults: the attempt row  *)
(* and its locks; what the student receives, of warnings, "time is up" and *)
(* results; the score the row keeps; and that the attempt keeps the        *)
(* contract of AttemptContract.                                            *)
(***************************************************************************)
EXTENDS AttemptLifecycle, FiniteSetTheorems, TLAPS

-----------------------------------------------------------------------------
(* Types. *)

\* RightCount counts some of the questions.
LEMMA RightCountType ==
    ASSUME NEW a
    PROVE  RightCount(a) \in Position \cup {0}
<1> DEFINE R == {q \in Position : a[q] = "right"}
<1>1. IsFiniteSet(1..N) /\ Cardinality(1..N) = N
  BY FS_Interval, PositionsAssumption
<1>2. Cardinality(R) \in Nat /\ Cardinality(R) <= N
  BY <1>1, FS_Subset, FS_CardinalityType DEF Position
<1> QED
  BY <1>2, PositionsAssumption DEF RightCount, Position

\* What section_scores_from_attempt returns is a number, also for NULL.
LEMMA StoredType ==
    ASSUME NEW r \in Row
    PROVE  Stored(r) \in Position \cup {0}
BY DEF Stored, Row, Null

\* Every activation ends at a label.
LEMMA RestType == \A p : Rest(p) \in Label
BY DEF Rest, Label

\* The values a transaction starts with.
LEMMA BlankTypes ==
    /\ OpenRow \in Row
    /\ NoAnswers \in Answers
    /\ NoSnapshot \in [row : Row, ans : Answers, banned : BOOLEAN]
    /\ NoResult \in [score : Position \cup {0}, owned : BOOLEAN]
    /\ [op |-> "view"] \in Request
<1>1. OpenRow \in Row
  BY PositionsAssumption DEF OpenRow, Row, Status, Position, Null
<1>2. NoAnswers \in Answers
  BY DEF NoAnswers, Answers
<1> QED
  BY <1>1, <1>2 DEF NoSnapshot, NoResult, Request

\* The end of a transaction leaves its locals typed.
LEMMA ReleasedType ==
    ASSUME TypeOK, NEW p \in Proc, Released(p)
    PROVE  /\ lock' \in [Proc -> {"none", "S", "X"}]
           /\ put' \in [Proc -> Answers]
           /\ mine' \in [Proc -> Row]
           /\ snap' \in [Proc -> [row : Row, ans : Answers,
                                  banned : BOOLEAN]]
BY BlankTypes DEF TypeOK, Released

\* So does an UPDATE of the attempt row.
LEMMA UpdateRowType ==
    ASSUME TypeOK, NEW p \in Proc, NEW r \in Row, UpdateRow(p, r)
    PROVE  /\ lock' \in [Proc -> {"none", "S", "X"}]
           /\ mine' \in [Proc -> Row]
BY DEF TypeOK, UpdateRow

\* And a new snapshot.
LEMMA SnapshotType ==
    ASSUME TypeOK, NEW p \in Proc, BeginTxn(p)
    PROVE  snap' \in [Proc -> [row : Row, ans : Answers, banned : BOOLEAN]]
BY DEF TypeOK, BeginTxn, Committed

LEMMA FinishType ==
    ASSUME TypeOK, NEW p \in Proc, NEW target \in Status,
           FinishAttempt(p, target)
    PROVE  /\ lock' \in [Proc -> {"none", "S", "X"}]
           /\ mine' \in [Proc -> Row]
           /\ jobs' \subseteq Job
           /\ seen' \in [Proc -> [score : Position \cup {0},
                                  owned : BOOLEAN]]
<1>1. snap[p].row \in Row /\ row \in Row
  BY DEF TypeOK
<1>2. Stored(snap[p].row) \in Position \cup {0}
  BY <1>1, StoredType
<1>3. RightCount(snap[p].ans) \in Position \cup {0}
  BY RightCountType
<1>4. CASE AlreadyFinished(p)
  BY <1>2, <1>4 DEF AlreadyFinished, TypeOK
<1>5. CASE WinFinalize(p, target)
  <2> DEFINE r == [row EXCEPT !.status = target,
                              !.score = RightCount(snap[p].ans)]
  <2>1. r \in Row
    BY <1>1, <1>3 DEF Row
  <2>2. UpdateRow(p, r)
    BY <1>5 DEF WinFinalize
  <2>3. /\ lock' \in [Proc -> {"none", "S", "X"}]
        /\ mine' \in [Proc -> Row]
    BY <2>1, <2>2, UpdateRowType
  <2> QED
    BY <1>3, <1>5, <2>3 DEF WinFinalize, TypeOK
<1>6. CASE LoseFinalize(p)
  <2>1. /\ lock' \in [Proc -> {"none", "S", "X"}]
        /\ mine' \in [Proc -> Row]
    BY <1>1, <1>6, UpdateRowType DEF LoseFinalize
  <2> QED
    BY <1>2, <1>6, <2>1 DEF LoseFinalize, TypeOK
<1> QED
  BY <1>4, <1>5, <1>6 DEF FinishAttempt

LEMMA CommitType ==
    ASSUME TypeOK, NEW p \in Proc, Commit(p),
           seen' \in [Proc -> [score : Position \cup {0}, owned : BOOLEAN]],
           request' \in [Update -> Request], pc' \in [Proc -> Label]
    PROVE  TypeOK'
<1>1. row' \in Row /\ ans' \in Answers
  BY DEF Commit, TypeOK, Answers
<1>2. banned' \in BOOLEAN /\ overlap' \in BOOLEAN
  BY DEF Commit, TypeOK
<1> QED
  BY <1>1, <1>2, ReleasedType DEF Commit, TypeOK, env

\* A log entry of each kind is a message.
LEMMA MessageTypes ==
    /\ \A s \in Slot : [kind |-> "warning", slot |-> s] \in Message
    /\ [kind |-> "timeup"] \in Message
    /\ \A n \in Position \cup {0}, p \in Proc, b \in BOOLEAN :
          [kind |-> "result", score |-> n, by |-> p, owned |-> b] \in Message
BY DEF Message

\* A handler activation, from its snapshot to its commit, keeps the types.
LEMMA BeginType ==
    ASSUME TypeOK, NEW u \in Update, NEW r \in Request, Begin(u, r)
    PROVE  TypeOK'
<1>1. u \in Proc
  BY DEF Proc
<1>2. pc' \in [Proc -> Label]
  BY <1>1 DEF TypeOK, Begin, Goto, Label
<1> QED
  BY <1>1, <1>2, SnapshotType DEF TypeOK, Begin, db, env

LEMMA HandleUpdateType ==
    ASSUME TypeOK, NEW u \in Update, HandleUpdate(u)
    PROVE  TypeOK'
<1> u \in Proc
  BY DEF Proc
<1>1. \A l \in Label : Goto(u, l) => pc' \in [Proc -> Label]
  BY DEF TypeOK, Goto
<1>2. {"move", "commit", "done", "show"} \subseteq Label
  BY DEF Label
<1>3. CASE SubmitAnswer(u)
  <2>1. request[u] \in Request /\ request[u].op = "answer"
    BY <1>3 DEF TypeOK, SubmitAnswer
  <2>2. request[u].pos \in Position /\ request[u].option \in {"right", "wrong"}
    BY <2>1 DEF Request
  <2>3. put' \in [Proc -> Answers]
    BY <1>3, <2>2 DEF TypeOK, SubmitAnswer, Answers
  <2> QED
    BY <1>1, <1>2, <1>3, <2>3 DEF TypeOK, SubmitAnswer, db, env
<1>4. CASE StartNav(u)
  BY <1>1, <1>2, <1>4 DEF TypeOK, StartNav, db, env, txn
<1>5. CASE SetCurrentPosition(u)
  <2>1. PICK pos \in Position :
            UpdateRow(u, IF Finished(row) THEN row
                         ELSE [row EXCEPT !.cursor = pos])
    BY <1>5 DEF SetCurrentPosition
  <2>2. (IF Finished(row) THEN row ELSE [row EXCEPT !.cursor = pos]) \in Row
    BY DEF TypeOK, Row
  <2>3. /\ lock' \in [Proc -> {"none", "S", "X"}]
        /\ mine' \in [Proc -> Row]
    BY <2>1, <2>2, UpdateRowType
  <2> QED
    BY <1>1, <1>2, <1>5, <2>3 DEF TypeOK, SetCurrentPosition, db, env
<1>6. CASE KeepPosition(u)
  BY <1>1, <1>2, <1>6 DEF TypeOK, KeepPosition, db, env, txn
<1>7. CASE DeadlockVictim(u)
  <2>1. request' \in [Update -> Request]
    BY <1>7, BlankTypes DEF TypeOK, DeadlockVictim, Forget
  <2> QED
    BY <1>1, <1>2, <1>7, <2>1, ReleasedType DEF TypeOK, DeadlockVictim, db, env
<1>8. CASE OpenFinished(u)
  <2>1. FinishAttempt(u, "expired") /\ "expired" \in Status
    BY <1>8 DEF OpenFinished, FinishAttempt, Status
  <2> QED
    BY <1>1, <1>2, <1>8, <2>1, FinishType DEF TypeOK, OpenFinished, db, env
<1>9. CASE OpenRunning(u)
  BY <1>1, <1>2, <1>9 DEF TypeOK, OpenRunning, db, env, txn
<1>10. CASE FinishTap(u)
  <2>1. FinishAttempt(u, "submitted") /\ "submitted" \in Status
    BY <1>10 DEF FinishTap, Status
  <2> QED
    BY <1>1, <1>2, <1>10, <2>1, FinishType DEF TypeOK, FinishTap, db, env
<1>11. CASE BanTap(u)
  <2>1. FinishAttempt(u, "expired") /\ "expired" \in Status
    BY <1>11 DEF BanTap, Status
  <2> QED
    BY <1>1, <1>2, <1>11, <2>1, FinishType DEF TypeOK, BanTap, db, env
<1>12. CASE ShowResult(u)
  <2>1. [kind |-> "result", score |-> seen[u].score, by |-> u,
         owned |-> seen[u].owned] \in Message
    BY MessageTypes DEF TypeOK
  <2>2. sent' \in Seq(Message)
    BY <1>12, <2>1 DEF TypeOK, ShowResult
  <2> QED
    BY <1>1, <1>2, <1>12, <2>2 DEF TypeOK, ShowResult, db, env, txn
<1>13. CASE CommitUpdate(u)
  <2>1. request' \in [Update -> Request]
    BY <1>13, BlankTypes DEF TypeOK, CommitUpdate, Forget
  <2>2. seen' \in [Proc -> [score : Position \cup {0}, owned : BOOLEAN]]
    BY <1>13, BlankTypes DEF TypeOK, CommitUpdate, NoMore
  <2> QED
    BY <1>1, <1>2, <1>13, <2>1, <2>2, CommitType DEF CommitUpdate
<1> QED
  BY <1>3, <1>4, <1>5, <1>6, <1>7, <1>8, <1>9, <1>10, <1>11, <1>12, <1>13
     DEF HandleUpdate

\* So does a warning job.
LEMMA WarnType ==
    ASSUME TypeOK, NEW s \in Slot, Warn(s)
    PROVE  TypeOK'
<1> s \in Proc
  BY DEF Proc
<1>1. \A l \in Label : Goto(s, l) => pc' \in [Proc -> Label]
  BY DEF TypeOK, Goto
<1>2. {"idle", "send", "commit"} \subseteq Label
  BY DEF Label
<1>3. CASE ClaimWarning(s)
  <2> DEFINE r == [row EXCEPT !.warned = @ \cup {s}]
  <2>1. r \in Row
    BY DEF TypeOK, Row
  <2>2. UpdateRow(s, r)
    BY <1>3 DEF ClaimWarning
  <2>3. /\ lock' \in [Proc -> {"none", "S", "X"}]
        /\ mine' \in [Proc -> Row]
    BY <2>1, <2>2, UpdateRowType
  <2>4. snap' \in [Proc -> [row : Row, ans : Answers, banned : BOOLEAN]]
    BY <1>3, SnapshotType DEF ClaimWarning
  <2> QED
    BY <1>1, <1>2, <1>3, <2>3, <2>4 DEF TypeOK, ClaimWarning, db, env
<1>4. CASE SkipWarning(s)
  BY <1>1, <1>2, <1>4 DEF TypeOK, SkipWarning, db, env, txn
<1>5. CASE CommitWarning(s)
  BY <1>1, <1>2, <1>5, CommitType DEF CommitWarning, TypeOK
<1>6. CASE SendWarning(s)
  <2>1. sent' \in Seq(Message)
    BY <1>6, MessageTypes DEF TypeOK, SendWarning
  <2> QED
    BY <1>1, <1>2, <1>6, <2>1 DEF TypeOK, SendWarning, db, env, txn
<1> QED
  BY <1>3, <1>4, <1>5, <1>6 DEF Warn

\* And an expire job, whoever runs it.
LEMMA ExpireType ==
    ASSUME TypeOK, NEW p \in Expirer, Expire(p)
    PROVE  TypeOK'
<1> p \in Proc
  BY DEF Proc
<1>1. \A l \in Label : Goto(p, l) => pc' \in [Proc -> Label]
  BY DEF TypeOK, Goto
<1>2. {"write", "commit", "send", "show"} \subseteq Label /\ Rest(p) \in Label
  BY RestType DEF Label
<1>3. CASE ReadAttempt(p)
  BY <1>1, <1>2, <1>3, SnapshotType DEF TypeOK, ReadAttempt, db, env
<1>4. CASE ExpireAttempt(p)
  <2>1. FinishAttempt(p, "expired") /\ "expired" \in Status
    BY <1>4 DEF ExpireAttempt, Status
  <2> QED
    BY <1>1, <1>2, <1>4, <2>1, FinishType DEF TypeOK, ExpireAttempt, db, env
<1>5. CASE CommitExpire(p)
  <2>1. seen' \in [Proc -> [score : Position \cup {0}, owned : BOOLEAN]]
    BY <1>5, BlankTypes DEF TypeOK, CommitExpire, NoMore
  <2>2. pc' \in [Proc -> Label] /\ request' \in [Update -> Request]
    BY <1>1, <1>2, <1>5 DEF CommitExpire, TypeOK
  <2> QED
    BY <1>5, <2>1, <2>2, CommitType DEF CommitExpire
<1>6. CASE SendTimeUp(p)
  <2>1. sent' \in Seq(Message)
    BY <1>6, MessageTypes DEF TypeOK, SendTimeUp
  <2> QED
    BY <1>1, <1>2, <1>6, <2>1 DEF TypeOK, SendTimeUp, db, env, txn
<1>7. CASE SendResult(p)
  <2>1. [kind |-> "result", score |-> seen[p].score, by |-> p,
         owned |-> seen[p].owned] \in Message
    BY MessageTypes DEF TypeOK
  <2>2. sent' \in Seq(Message)
    BY <1>7, <2>1 DEF TypeOK, SendResult
  <2>3. seen' \in [Proc -> [score : Position \cup {0}, owned : BOOLEAN]]
    BY <1>7, BlankTypes DEF TypeOK, SendResult, NoMore
  <2> QED
    BY <1>1, <1>2, <1>7, <2>2, <2>3 DEF TypeOK, SendResult, db, env, txn
<1> QED
  BY <1>3, <1>4, <1>5, <1>6, <1>7 DEF Expire

\* The scheduler, the boot sequence and the environment.
LEMMA FireType ==
    ASSUME TypeOK, NEW j \in TimerJob, Fire(j) \/ Misfire(j)
    PROVE  TypeOK'
<1> j \in Proc
  BY DEF TimerJob, Proc, Expirer
<1>1. jobs' \subseteq Job
  BY DEF TypeOK, Fire, Misfire
<1>2. pc' \in [Proc -> Label]
  BY DEF TypeOK, Fire, Misfire, Goto, Label
<1> QED
  BY <1>1, <1>2 DEF TypeOK, Fire, Misfire, db, env, txn

LEMMA FireSweepType ==
    ASSUME TypeOK, FireSweep
    PROVE  TypeOK'
<1>1. pc' \in [Proc -> Label]
  BY DEF TypeOK, FireSweep, Goto, Label
<1> QED
  BY <1>1 DEF TypeOK, FireSweep, db, env, txn

LEMMA BootType ==
    ASSUME TypeOK, Boot
    PROVE  TypeOK'
<1>1. pc' \in [Proc -> Label]
  BY DEF TypeOK, Boot, Restart, ListInProgress, Reconcile, AcceptUpdates,
         Goto, Label
<1>2. jobs' \subseteq Job
  BY DEF TypeOK, Boot, Restart, ListInProgress, Reconcile, AcceptUpdates, Job
<1>3. mode' \in {"down", "starting", "up"}
  BY DEF TypeOK, Boot, Restart, ListInProgress, Reconcile, AcceptUpdates, env
<1>4. UNCHANGED <<db, now, spent, request, txn, seen, sent, overlap>>
  BY DEF Boot, Restart, ListInProgress, Reconcile, AcceptUpdates, env
<1> QED
  BY <1>1, <1>2, <1>3, <1>4 DEF TypeOK, db, txn

LEMMA TickType ==
    ASSUME TypeOK, Tick
    PROVE  TypeOK'
BY DEF TypeOK, Tick, db, txn

LEMMA FaultType ==
    ASSUME TypeOK, Fault
    PROVE  TypeOK'
<1>1. \A what \in {"faults", "crashes", "flushes"}, max \in Nat :
         Spend(what, max)
            => spent' \in [{"faults", "crashes", "flushes"} -> Nat]
  BY DEF TypeOK, Spend
<1>2. ASSUME NEW p \in Proc, Rollback(p)
      PROVE  TypeOK'
  <2>1. spent' \in [{"faults", "crashes", "flushes"} -> Nat]
    BY <1>1, <1>2, BoundsAssumption DEF Rollback
  <2>2. pc' \in [Proc -> Label]
    BY <1>2, RestType DEF TypeOK, Rollback, Goto
  <2>3. request' \in [Update -> Request]
    BY <1>2, BlankTypes DEF TypeOK, Rollback, Forget
  <2>4. seen' \in [Proc -> [score : Position \cup {0}, owned : BOOLEAN]]
    BY <1>2, BlankTypes DEF TypeOK, Rollback, NoMore
  <2> QED
    BY <1>2, <2>1, <2>2, <2>3, <2>4, ReleasedType DEF TypeOK, Rollback, db
<1>3. ASSUME NEW p \in Proc, LoseMessage(p)
      PROVE  TypeOK'
  <2>1. spent' \in [{"faults", "crashes", "flushes"} -> Nat]
    BY <1>1, <1>3, BoundsAssumption DEF LoseMessage
  <2>2. pc' \in [Proc -> Label]
    <3>1. PICK label \in Label : pc' = [pc EXCEPT ![p] = label]
      <4>1. "show" \in Label
        BY DEF Label
      <4> QED
        BY <1>3, <4>1, RestType DEF LoseMessage, Goto
    <3> QED
      BY <3>1 DEF TypeOK
  <2>3. seen' \in [Proc -> [score : Position \cup {0}, owned : BOOLEAN]]
    BY <1>3, BlankTypes DEF TypeOK, LoseMessage, NoMore
  <2> QED
    BY <1>3, <2>1, <2>2, <2>3 DEF TypeOK, LoseMessage, db, txn
<1>4. ASSUME NEW j \in TimerJob, LoseJob(j) \/ RestoreJob(j)
      PROVE  TypeOK'
  <2>1. spent' \in [{"faults", "crashes", "flushes"} -> Nat]
    BY <1>1, <1>4, BoundsAssumption DEF LoseJob, RestoreJob
  <2> QED
    BY <1>4, <2>1 DEF TypeOK, LoseJob, RestoreJob, Job, db, txn
<1>5. CASE FlushJobstore
  <2>1. spent' \in [{"faults", "crashes", "flushes"} -> Nat]
    BY <1>1, <1>5, BoundsAssumption DEF FlushJobstore
  <2> QED
    BY <1>5, <2>1 DEF TypeOK, FlushJobstore, db, txn
<1>6. CASE Crash
  <2>1. spent' \in [{"faults", "crashes", "flushes"} -> Nat]
    BY <1>1, <1>6, BoundsAssumption DEF Crash
  <2> QED
    BY <1>6, <2>1, BlankTypes DEF TypeOK, Crash, Label, db
<1> QED
  BY <1>2, <1>3, <1>4, <1>5, <1>6 DEF Fault

\* Nothing happens, or nothing that the specification describes.
LEMMA StutterType ==
    ASSUME TypeOK, UNCHANGED vars
    PROVE  TypeOK'
BY DEF TypeOK, vars, db, env, txn

LEMMA InitType == Init => TypeOK
<1> HAVE Init
<1>1. /\ row \in Row /\ ans \in Answers /\ banned \in BOOLEAN
      /\ jobs \subseteq Job /\ now \in Nat
      /\ mode \in {"down", "starting", "up"}
      /\ pc \in [Proc -> Label] /\ overlap \in BOOLEAN
  BY BlankTypes DEF Init, Label
<1>2. /\ request \in [Update -> Request]
      /\ mine \in [Proc -> Row] /\ put \in [Proc -> Answers]
      /\ lock \in [Proc -> {"none", "S", "X"}]
  BY BlankTypes DEF Init
<1>3. /\ snap \in [Proc -> [row : Row, ans : Answers, banned : BOOLEAN]]
      /\ seen \in [Proc -> [score : Position \cup {0}, owned : BOOLEAN]]
  BY BlankTypes DEF Init
<1>4. /\ sent \in Seq(Message)
      /\ spent \in [{"faults", "crashes", "flushes"} -> Nat]
  BY DEF Init
<1> QED
  BY <1>1, <1>2, <1>3, <1>4 DEF TypeOK

\* Every reachable state is typed: no handler, job, restart or fault writes a
\* status, score, position or label outside its range, also where the code
\* reads NULL columns or counts answers.
THEOREM TypeCorrect == Spec => []TypeOK
<1>1. ASSUME TypeOK, [Next]_vars
      PROVE  TypeOK'
  <2>1. CASE UNCHANGED vars
    BY <1>1, <2>1, StutterType
  <2>2. CASE Next
    BY <1>1, <2>2, BeginType, HandleUpdateType, WarnType, ExpireType, FireType,
       FireSweepType, BootType, TickType, FaultType, StutterType
       DEF Next, Quiet
  <2> QED
    BY <1>1, <2>1, <2>2
<1> QED
  BY <1>1, InitType, PTL DEF Spec

-----------------------------------------------------------------------------
(* The row and its locks.  A step does one of four things to them: nothing, *)
(* a new lock with the row it may leave behind, a commit, or a release.     *)

LEMMA RowUntouched ==
    ASSUME RowDiscipline, UNCHANGED <<row, lock, mine, put>>
    PROVE  RowDiscipline'
BY DEF RowDiscipline, WritesAnswer, Finished

LEMMA RowUpdated ==
    ASSUME TypeOK, RowDiscipline, NEW p \in Proc, NEW r, UpdateRow(p, r),
           r = row \/ ~Finished(row), UNCHANGED <<row, put>>
    PROVE  RowDiscipline'
BY DEF TypeOK, RowDiscipline, UpdateRow, CanLockX, WritesAnswer, Finished

LEMMA RowReleased ==
    ASSUME TypeOK, RowDiscipline, NEW p \in Proc, Released(p), UNCHANGED row
    PROVE  RowDiscipline'
BY DEF TypeOK, RowDiscipline, Released, WritesAnswer, Finished, NoAnswers

LEMMA RowCommitted ==
    ASSUME TypeOK, RowDiscipline, NEW p \in Proc, Commit(p)
    PROVE  RowDiscipline'
<1>1. CASE lock[p] = "X"
  <2>1. \A o \in Proc \ {p} : lock[o] = "none" /\ ~WritesAnswer(o)
    BY <1>1 DEF RowDiscipline
  <2>2. \A o \in Proc : lock'[o] = "none" /\ put'[o] = IF o = p THEN NoAnswers ELSE put[o]
    BY <2>1 DEF Commit, Released, TypeOK
  <2>3. \A o \in Proc : ~WritesAnswer(o)'
    BY <2>1, <2>2 DEF WritesAnswer, NoAnswers
  <2> QED
    BY <2>2, <2>3 DEF RowDiscipline
<1>2. CASE lock[p] # "X"
  <2>1. UNCHANGED row /\ Released(p)
    BY <1>2 DEF Commit
  <2> QED
    BY <2>1, RowReleased
<1> QED
  BY <1>1, <1>2

LEMMA RowFinished ==
    ASSUME TypeOK, RowDiscipline, NEW p \in Proc, NEW target,
           FinishAttempt(p, target), UNCHANGED <<row, put>>
    PROVE  RowDiscipline'
<1>1. CASE AlreadyFinished(p)
  BY <1>1, RowUntouched DEF AlreadyFinished
<1>2. CASE WinFinalize(p, target)
  <2> DEFINE r == [row EXCEPT !.status = target,
                              !.score = RightCount(snap[p].ans)]
  <2>1. UpdateRow(p, r) /\ ~Finished(row)
    BY <1>2 DEF WinFinalize
  <2> HIDE DEF r
  <2> QED
    BY <2>1, RowUpdated
<1>3. CASE LoseFinalize(p)
  BY <1>3, RowUpdated DEF LoseFinalize
<1> QED
  BY <1>1, <1>2, <1>3 DEF FinishAttempt

LEMMA RowUpdates ==
    ASSUME TypeOK, RowDiscipline, NEW u \in Update, HandleUpdate(u)
    PROVE  RowDiscipline'
<1> u \in Proc
  BY DEF Proc
<1>1. CASE SubmitAnswer(u)
  <2>1. lock' = [lock EXCEPT ![u] = "S"] /\ UNCHANGED <<row, mine>>
    BY <1>1 DEF SubmitAnswer, db
  <2>2. \A o \in Proc \ {u} : lock[o] # "X" /\ put'[o] = put[o]
    BY <1>1 DEF SubmitAnswer, CanLockS, TypeOK
  <2>3. put' = put \/ ~Finished(row)
    BY <1>1 DEF SubmitAnswer
  <2>4. \A o \in Proc : lock'[o] = IF o = u THEN "S" ELSE lock[o]
    BY <2>1 DEF TypeOK
  <2>5. \A o \in Proc : WritesAnswer(o)' => lock'[o] # "none" /\ ~Finished(row')
    BY <2>1, <2>2, <2>3, <2>4 DEF RowDiscipline, WritesAnswer
  <2>6. \A o \in Proc : lock'[o] = "X" => mine'[o] = row' \/ ~Finished(row')
    BY <2>1, <2>4 DEF RowDiscipline
  <2>7. \A o \in Proc, q \in Proc :
           o # q /\ lock'[o] = "X" => lock'[q] = "none"
    BY <2>2, <2>4 DEF RowDiscipline
  <2> QED
    BY <2>5, <2>6, <2>7 DEF RowDiscipline, Finished
<1>2. CASE SetCurrentPosition(u)
  <2>1. PICK pos \in Position :
            UpdateRow(u, IF Finished(row) THEN row
                         ELSE [row EXCEPT !.cursor = pos])
    BY <1>2 DEF SetCurrentPosition
  <2> QED
    BY <1>2, <2>1, RowUpdated DEF SetCurrentPosition, db
<1>3. CASE StartNav(u) \/ KeepPosition(u) \/ OpenRunning(u) \/ ShowResult(u)
  BY <1>3, RowUntouched
     DEF StartNav, KeepPosition, OpenRunning, ShowResult, db, txn
<1>4. CASE DeadlockVictim(u)
  BY <1>4, RowReleased DEF DeadlockVictim, db
<1>5. CASE OpenFinished(u)
  BY <1>5, RowUntouched DEF OpenFinished, AlreadyFinished, db
<1>6. CASE FinishTap(u)
  BY <1>6, RowFinished DEF FinishTap, db
<1>7. CASE BanTap(u)
  BY <1>7, RowFinished DEF BanTap, db
<1>8. CASE CommitUpdate(u)
  BY <1>8, RowCommitted DEF CommitUpdate
<1> QED
  BY <1>1, <1>2, <1>3, <1>4, <1>5, <1>6, <1>7, <1>8 DEF HandleUpdate

LEMMA RowWarn ==
    ASSUME TypeOK, RowDiscipline, NEW s \in Slot, Warn(s)
    PROVE  RowDiscipline'
<1> s \in Proc
  BY DEF Proc
<1>1. CASE ClaimWarning(s)
  <2> DEFINE r == [row EXCEPT !.warned = @ \cup {s}]
  <2>1. UpdateRow(s, r) /\ ~Finished(row) /\ UNCHANGED <<row, put>>
    BY <1>1 DEF ClaimWarning, db
  <2> HIDE DEF r
  <2> QED
    BY <2>1, RowUpdated
<1>2. CASE SkipWarning(s) \/ SendWarning(s)
  BY <1>2, RowUntouched DEF SkipWarning, SendWarning, db, txn
<1>3. CASE CommitWarning(s)
  BY <1>3, RowCommitted DEF CommitWarning
<1> QED
  BY <1>1, <1>2, <1>3 DEF Warn

LEMMA RowExpire ==
    ASSUME TypeOK, RowDiscipline, NEW p \in Expirer, Expire(p)
    PROVE  RowDiscipline'
<1> p \in Proc
  BY DEF Proc
<1>1. CASE ReadAttempt(p) \/ SendTimeUp(p) \/ SendResult(p)
  BY <1>1, RowUntouched DEF ReadAttempt, SendTimeUp, SendResult, db, txn
<1>2. CASE ExpireAttempt(p)
  BY <1>2, RowFinished DEF ExpireAttempt, db
<1>3. CASE CommitExpire(p)
  BY <1>3, RowCommitted DEF CommitExpire
<1> QED
  BY <1>1, <1>2, <1>3 DEF Expire

LEMMA RowFault ==
    ASSUME TypeOK, RowDiscipline, Fault
    PROVE  RowDiscipline'
<1>1. ASSUME NEW p \in Proc, Rollback(p)
      PROVE  RowDiscipline'
  BY <1>1, RowReleased DEF Rollback, db
<1>2. ASSUME NEW p \in Proc, LoseMessage(p)
      PROVE  RowDiscipline'
  BY <1>2, RowUntouched DEF LoseMessage, db, txn
<1>3. ASSUME NEW j \in TimerJob, LoseJob(j) \/ RestoreJob(j)
      PROVE  RowDiscipline'
  BY <1>3, RowUntouched DEF LoseJob, RestoreJob, db, txn
<1>4. CASE FlushJobstore
  BY <1>4, RowUntouched DEF FlushJobstore, db, txn
<1>5. CASE Crash
  BY <1>5 DEF Crash, RowDiscipline, WritesAnswer, NoAnswers
<1> QED
  BY <1>1, <1>2, <1>3, <1>4, <1>5 DEF Fault

\* The rest of the system does not touch the row or a transaction.
LEMMA RowElsewhere ==
    ASSUME RowDiscipline,
           \/ \E u \in Update, r \in Request : Begin(u, r)
           \/ \E j \in TimerJob : Fire(j) \/ Misfire(j)
           \/ FireSweep \/ Boot \/ Tick \/ UNCHANGED vars
    PROVE  RowDiscipline'
<1>1. UNCHANGED <<row, lock, mine, put>>
  BY DEF Begin, Fire, Misfire, FireSweep, Boot, Restart, ListInProgress,
         Reconcile, AcceptUpdates, Tick, vars, db, txn
<1> QED
  BY <1>1, RowUntouched

LEMMA RowStep ==
    ASSUME TypeOK, RowDiscipline, [Next]_vars
    PROVE  RowDiscipline'
BY RowUpdates, RowWarn, RowExpire, RowFault, RowElsewhere DEF Next, Quiet

\* In every reachable state an exclusive lock stands alone, uncommitted
\* answers stand under a lock on an open row, and no transaction is about to
\* change a finished row: this is what the status-guarded UPDATE and upsert
\* of the repositories buy, under the row locks of MySQL.
THEOREM RowsAreGuarded == Spec => []RowDiscipline
<1>1. Init => RowDiscipline
  BY DEF Init, RowDiscipline, WritesAnswer, NoAnswers
<1> QED
  BY <1>1, TypeCorrect, RowStep, PTL DEF Spec

\* The types and the row discipline together, which is what is checked.
THEOREM InvariantHolds == Spec => []AttemptInv
<1>1. TypeOK /\ RowDiscipline => AttemptInv
  BY DEF AttemptInv
<1> QED
  BY <1>1, TypeCorrect, RowsAreGuarded, PTL

\* Only a commit changes the row or the answers.
LEMMA OnlyCommitWrites ==
    ASSUME [Next]_vars
    PROVE  UNCHANGED <<row, ans>> \/ \E p \in Proc : Commit(p)
<1>1. ASSUME NEW u \in Update, HandleUpdate(u)
      PROVE  UNCHANGED <<row, ans>> \/ \E p \in Proc : Commit(p)
  BY <1>1 DEF HandleUpdate, SubmitAnswer, StartNav, SetCurrentPosition,
     KeepPosition, DeadlockVictim, OpenFinished, OpenRunning, FinishTap,
     BanTap, ShowResult, CommitUpdate, db, Proc
<1>2. ASSUME NEW s \in Slot, Warn(s)
      PROVE  UNCHANGED <<row, ans>> \/ \E p \in Proc : Commit(p)
  BY <1>2 DEF Warn, ClaimWarning, SkipWarning, CommitWarning, SendWarning, db,
     Proc
<1>3. ASSUME NEW p \in Expirer, Expire(p)
      PROVE  UNCHANGED <<row, ans>> \/ \E o \in Proc : Commit(o)
  BY <1>3 DEF Expire, ReadAttempt, ExpireAttempt, CommitExpire, SendTimeUp,
     SendResult, db, Proc
<1>4. Fault => UNCHANGED <<row, ans>>
  BY DEF Fault, Rollback, LoseMessage, LoseJob, RestoreJob, FlushJobstore,
     Crash, db
<1>5. ASSUME \/ \E u \in Update, r \in Request : Begin(u, r)
             \/ \E j \in TimerJob : Fire(j) \/ Misfire(j)
             \/ FireSweep \/ Boot \/ Tick \/ UNCHANGED vars
      PROVE  UNCHANGED <<row, ans>>
  BY <1>5 DEF Begin, Fire, Misfire, FireSweep, Boot, Restart, ListInProgress,
     Reconcile, AcceptUpdates, Tick, vars, db
<1> QED
  BY <1>1, <1>2, <1>3, <1>4, <1>5 DEF Next, Quiet

\* Once a final status is committed, no tap, job, sweep, ban, fault or restart
\* changes the attempt row again.
THEOREM FinalRow == Spec => FinishedIsFinal
<1>1. ASSUME RowDiscipline, [Next]_vars
      PROVE  Finished(row) => row' = row
  BY <1>1, OnlyCommitWrites DEF RowDiscipline, Commit
<1> QED
  BY <1>1, RowsAreGuarded, PTL DEF Spec, FinishedIsFinal

\* No answer reaches a finished attempt, whatever the interleaving of the
\* student's taps with the finish, the timer, the sweep and the ban.
THEOREM FrozenAnswers == Spec => AnswersFrozen
<1>1. ASSUME TypeOK, RowDiscipline, [Next]_vars, Finished(row)
      PROVE  ans' = ans
  <2>1. \A p \in Proc : ~WritesAnswer(p)
    BY <1>1 DEF RowDiscipline
  <2>2. ASSUME NEW p \in Proc, Commit(p)
        PROVE  ans' = ans
    BY <1>1, <2>1, <2>2 DEF Commit, WritesAnswer, TypeOK, Answers
  <2> QED
    BY <1>1, <2>2, OnlyCommitWrites
<1> QED
  BY <1>1, TypeCorrect, RowsAreGuarded, PTL DEF Spec, AnswersFrozen

-----------------------------------------------------------------------------
(* Frames: which part of the control a step moves. *)

Stays(S) == \A p \in S : pc'[p] = pc[p]

LEMMA Names ==
    /\ \A u \in Update : u \notin Slot /\ u \notin Expirer
    /\ \A s \in Slot : s \notin Update /\ s \notin Expirer
    /\ "boot" \in Expirer /\ "boot" \in Proc
    /\ "sweep" \in Expirer /\ "sweep" \in Proc
    /\ "expire" \in Expirer /\ "expire" \in Proc
    /\ Update \subseteq Proc /\ Slot \subseteq Proc /\ Expirer \subseteq Proc
BY NamesAssumption DEF Proc, Expirer

LEMMA GotoStays ==
    ASSUME TypeOK, NEW p \in Proc, NEW label, Goto(p, label)
    PROVE  pc'[p] = label /\ Stays(Proc \ {p})
BY DEF TypeOK, Goto, Stays

\* Every step of a handler activation is a jump of its own control.
LEMMA HandlerStays ==
    ASSUME TypeOK, NEW u \in Update, HandleUpdate(u)
    PROVE  Stays(Slot) /\ Stays(Expirer)
<1>1. \E label : Goto(u, label)
  BY DEF HandleUpdate, SubmitAnswer, StartNav, SetCurrentPosition,
     KeepPosition, DeadlockVictim, OpenFinished, OpenRunning, FinishTap,
     BanTap, ShowResult, CommitUpdate
<1>2. Stays(Proc \ {u})
  BY <1>1, GotoStays, Names
<1> QED
  BY <1>2, Names DEF Stays

\* What a log holds after one more message.
LEMMA Appended ==
    ASSUME TypeOK, NEW m \in Message, sent' = Append(sent, m)
    PROVE  /\ Len(sent) + 1 \in DOMAIN sent' /\ sent'[Len(sent) + 1] = m
           /\ \A i \in DOMAIN sent : i \in DOMAIN sent' /\ sent'[i] = sent[i]
           /\ \A i \in DOMAIN sent' : i \in DOMAIN sent \/ i = Len(sent) + 1
           /\ Len(sent) + 1 \notin DOMAIN sent
BY DEF TypeOK

LEMMA LogTyped ==
    ASSUME TypeOK, NEW i \in DOMAIN sent
    PROVE  sent[i] \in Message
BY DEF TypeOK

-----------------------------------------------------------------------------
(* Warnings. *)

WarningIInv == WarningDiscipline /\ WarnedOnce

LEMMA WarnUntouched ==
    ASSUME WarningIInv, UNCHANGED <<row, lock, mine, sent>>,
           \A s \in Slot : pc'[s] = pc[s] \/ pc'[s] \notin {"commit", "send"}
    PROVE  WarningIInv'
BY DEF WarningIInv, WarningDiscipline, WarnedOnce, Warned

LEMMA WarnUpdated ==
    ASSUME TypeOK, WarningIInv, NEW p \in Proc, NEW r, UpdateRow(p, r),
           row.warned \subseteq r.warned, UNCHANGED <<row, sent>>,
           \A s \in Slot \ {p} : pc'[s] = pc[s],
           p \in Slot => p \in r.warned \ row.warned /\ pc'[p] = "commit"
    PROVE  WarningIInv'
<1>1. \A o \in Proc : lock'[o] = IF o = p THEN "X" ELSE "none"
  BY DEF TypeOK, UpdateRow, CanLockX
<1>2. mine'[p] = r
  BY DEF TypeOK, UpdateRow
<1>3. \A s \in Slot \ {p} : pc[s] # "commit"
  BY Names DEF WarningIInv, WarningDiscipline, UpdateRow, CanLockX
<1> QED
  BY <1>1, <1>2, <1>3
     DEF WarningIInv, WarningDiscipline, WarnedOnce, Warned

LEMMA WarnReleased ==
    ASSUME TypeOK, WarningIInv, NEW p \in Proc, Released(p),
           UNCHANGED <<row, sent>>, \A s \in Slot \ {p} : pc'[s] = pc[s],
           p \in Slot => pc'[p] = "idle"
    PROVE  WarningIInv'
<1>1. \A o \in Proc : /\ lock'[o] = IF o = p THEN "none" ELSE lock[o]
                      /\ o # p => mine'[o] = mine[o]
  BY DEF TypeOK, Released
<1> QED
  BY <1>1, Names DEF WarningIInv, WarningDiscipline, WarnedOnce, Warned

LEMMA WarnCommitted ==
    ASSUME TypeOK, RowDiscipline, WarningIInv, NEW p \in Proc, Commit(p),
           \A s \in Slot \ {p} : pc'[s] = pc[s],
           p \in Slot => pc'[p] \in {"idle", "send"}
    PROVE  WarningIInv'
<1>0. sent' = sent /\ pc[p] = "commit"
  BY DEF Commit
<1>1. CASE lock[p] = "X"
  <2>1. \A o \in Proc : lock'[o] = "none"
    BY <1>1 DEF TypeOK, RowDiscipline, Commit, Released
  <2>2. \A s \in Slot \ {p} : pc[s] # "commit"
    BY <1>1, Names DEF RowDiscipline, WarningIInv, WarningDiscipline
  <2>3. row' = mine[p] /\ row.warned \subseteq row'.warned
    BY <1>1 DEF Commit, WarningIInv, WarningDiscipline
  <2>4. p \in Slot => p \in row'.warned /\ ~Warned(p)
    BY <1>0, <2>3 DEF WarningIInv, WarningDiscipline
  <2> QED
    BY <1>0, <2>1, <2>2, <2>3, <2>4
       DEF WarningIInv, WarningDiscipline, WarnedOnce, Warned
<1>2. CASE lock[p] # "X"
  <2>1. p \notin Slot
    BY <1>0, <1>2 DEF WarningIInv, WarningDiscipline
  <2>2. Released(p) /\ UNCHANGED <<row, sent>>
    BY <1>2 DEF Commit
  <2> QED
    BY <2>1, <2>2, WarnReleased
<1> QED
  BY <1>1, <1>2

\* A message that is no warning changes nothing here.
LEMMA WarnOther ==
    ASSUME TypeOK, WarningIInv, NEW m \in Message, m.kind # "warning",
           sent' = Append(sent, m), UNCHANGED <<row, lock, mine>>, Stays(Slot)
    PROVE  WarningIInv'
<1>1. \A s \in Slot : Warned(s)' <=> Warned(s)
  <2> TAKE s \in Slot
  <2>1. [kind |-> "warning", slot |-> s].kind = "warning"
    OBVIOUS
  <2> QED
    BY <2>1, Appended DEF Warned
<1>2. WarnedOnce'
  BY Appended DEF WarningIInv, WarnedOnce
<1> QED
  BY <1>1, <1>2 DEF WarningIInv, WarningDiscipline, Stays

LEMMA WarnFinish ==
    ASSUME TypeOK, WarningIInv, NEW p \in Proc, p \notin Slot, NEW target,
           FinishAttempt(p, target), UNCHANGED <<row, sent>>, Stays(Slot)
    PROVE  WarningIInv'
<1>1. CASE AlreadyFinished(p)
  BY <1>1, WarnUntouched DEF AlreadyFinished, Stays
<1>2. CASE WinFinalize(p, target)
  <2> DEFINE r == [row EXCEPT !.status = target,
                              !.score = RightCount(snap[p].ans)]
  <2>1. UpdateRow(p, r) /\ row.warned \subseteq r.warned
    BY <1>2 DEF WinFinalize, TypeOK, Row
  <2> HIDE DEF r
  <2> QED
    BY <2>1, WarnUpdated DEF Stays
<1>3. CASE LoseFinalize(p)
  BY <1>3, WarnUpdated DEF LoseFinalize, Stays
<1> QED
  BY <1>1, <1>2, <1>3 DEF FinishAttempt

LEMMA WarnHandlers ==
    ASSUME TypeOK, RowDiscipline, WarningIInv, NEW u \in Update,
           HandleUpdate(u)
    PROVE  WarningIInv'
<1> u \in Proc /\ u \notin Slot
  BY Names
<1>0. Stays(Slot)
  BY HandlerStays
<1>1. CASE SubmitAnswer(u)
  <2>1. /\ lock' = [lock EXCEPT ![u] = "S"]
        /\ UNCHANGED <<row, mine, sent>>
    BY <1>1 DEF SubmitAnswer, db
  <2>2. \A o \in Proc : lock'[o] = IF o = u THEN "S" ELSE lock[o]
    BY <2>1 DEF TypeOK
  <2> QED
    BY <1>0, <2>1, <2>2, Names
       DEF Stays, WarningIInv, WarningDiscipline, WarnedOnce, Warned
<1>2. CASE SetCurrentPosition(u)
  <2>1. PICK pos \in Position :
            UpdateRow(u, IF Finished(row) THEN row
                         ELSE [row EXCEPT !.cursor = pos])
    BY <1>2 DEF SetCurrentPosition
  <2> DEFINE r == IF Finished(row) THEN row ELSE [row EXCEPT !.cursor = pos]
  <2>2. row.warned \subseteq r.warned
    BY DEF TypeOK, Row
  <2>3. UpdateRow(u, r) /\ UNCHANGED <<row, sent>>
    BY <1>2, <2>1 DEF SetCurrentPosition, db
  <2> HIDE DEF r
  <2> QED
    BY <1>0, <2>2, <2>3, WarnUpdated DEF Stays
<1>3. CASE StartNav(u) \/ KeepPosition(u) \/ OpenRunning(u)
  BY <1>0, <1>3, WarnUntouched
     DEF StartNav, KeepPosition, OpenRunning, db, txn, Stays
<1>4. CASE ShowResult(u)
  <2> DEFINE m == [kind |-> "result", score |-> seen[u].score, by |-> u,
                   owned |-> seen[u].owned]
  <2>1. m \in Message /\ m.kind # "warning"
    BY MessageTypes DEF TypeOK
  <2>2. sent' = Append(sent, m) /\ UNCHANGED <<row, lock, mine>>
    BY <1>4 DEF ShowResult, db, txn
  <2> HIDE DEF m
  <2> QED
    BY <1>0, <2>1, <2>2, WarnOther
<1>5. CASE DeadlockVictim(u)
  BY <1>0, <1>5, WarnReleased DEF DeadlockVictim, db, Stays
<1>6. CASE OpenFinished(u)
  BY <1>0, <1>6, WarnUntouched DEF OpenFinished, AlreadyFinished, db, Stays
<1>7. CASE FinishTap(u)
  BY <1>0, <1>7, WarnFinish DEF FinishTap, db
<1>8. CASE BanTap(u)
  BY <1>0, <1>8, WarnFinish DEF BanTap, db
<1>9. CASE CommitUpdate(u)
  BY <1>0, <1>9, WarnCommitted DEF CommitUpdate, Stays
<1> QED
  BY <1>1, <1>2, <1>3, <1>4, <1>5, <1>6, <1>7, <1>8, <1>9 DEF HandleUpdate

\* The job of slot s itself: claim, commit, send.
LEMMA WarnJob ==
    ASSUME TypeOK, RowDiscipline, WarningIInv, NEW s \in Slot, Warn(s)
    PROVE  WarningIInv'
<1> s \in Proc
  BY Names
<1>1. CASE ClaimWarning(s)
  <2> DEFINE r == [row EXCEPT !.warned = @ \cup {s}]
  <2>1. /\ UpdateRow(s, r) /\ s \notin row.warned
        /\ UNCHANGED <<row, sent>> /\ Goto(s, "commit")
    BY <1>1 DEF ClaimWarning, db
  <2>2. row.warned \subseteq r.warned /\ s \in r.warned
    BY DEF TypeOK, Row
  <2>3. pc'[s] = "commit" /\ Stays(Proc \ {s})
    BY <2>1, GotoStays
  <2> HIDE DEF r
  <2> QED
    BY <2>1, <2>2, <2>3, WarnUpdated, Names DEF Stays
<1>2. CASE SkipWarning(s)
  <2>1. pc'[s] = "idle" /\ Stays(Proc \ {s})
    BY <1>2, GotoStays DEF SkipWarning
  <2>2. \A o \in Slot : pc'[o] = pc[o] \/ pc'[o] \notin {"commit", "send"}
    BY <2>1, Names DEF Stays
  <2> QED
    BY <1>2, <2>2, WarnUntouched DEF SkipWarning, db, txn
<1>3. CASE CommitWarning(s)
  <2>1. pc'[s] \in {"idle", "send"} /\ Stays(Proc \ {s})
    BY <1>3, GotoStays DEF CommitWarning
  <2> QED
    BY <1>3, <2>1, WarnCommitted, Names DEF CommitWarning, Stays
<1>4. CASE SendWarning(s)
  <2> DEFINE m == [kind |-> "warning", slot |-> s]
  <2>1. m \in Message /\ m.kind = "warning" /\ m.slot = s
    BY MessageTypes
  <2>2. /\ pc[s] = "send" /\ sent' = Append(sent, m)
        /\ UNCHANGED <<row, lock, mine>> /\ Goto(s, "idle")
    BY <1>4 DEF SendWarning, db, txn
  <2>3. pc'[s] = "idle" /\ Stays(Proc \ {s})
    BY <2>2, GotoStays
  <2>4. s \in row.warned /\ ~Warned(s)
    BY <2>2 DEF WarningIInv, WarningDiscipline
  <2>5. \A o \in Slot \ {s} : Warned(o)' <=> Warned(o)
    <3> TAKE o \in Slot \ {s}
    <3>1. [kind |-> "warning", slot |-> o] # m
      BY <2>1
    <3> HIDE DEF m
    <3> QED
      BY <2>1, <2>2, <3>1, Appended DEF Warned
  <2>6. \A i \in DOMAIN sent : sent[i].kind = "warning" => sent[i].slot # s
    <3> SUFFICES ASSUME NEW i \in DOMAIN sent, sent[i].kind = "warning",
                        sent[i].slot = s
                 PROVE  FALSE
      OBVIOUS
    <3>1. sent[i] \in Message
      BY LogTyped
    <3>2. sent[i] = [kind |-> "warning", slot |-> s]
      BY <3>1 DEF Message
    <3> QED
      BY <2>4, <3>2 DEF Warned
  <2>7. WarnedOnce'
    <3> HIDE DEF m
    <3> QED
      BY <2>1, <2>2, <2>6, Appended DEF WarningIInv, WarnedOnce
  <2>8. WarningDiscipline'
    BY <2>2, <2>3, <2>4, <2>5, Names
       DEF WarningIInv, WarningDiscipline, Stays
  <2> QED
    BY <2>7, <2>8 DEF WarningIInv
<1> QED
  BY <1>1, <1>2, <1>3, <1>4 DEF Warn

LEMMA WarnExpire ==
    ASSUME TypeOK, RowDiscipline, WarningIInv, NEW p \in Expirer, Expire(p)
    PROVE  WarningIInv'
<1> p \in Proc /\ p \notin Slot
  BY Names
<1>0. Stays(Slot)
  <2>1. \E label : Goto(p, label)
    BY DEF Expire, ReadAttempt, ExpireAttempt, CommitExpire, SendTimeUp,
       SendResult
  <2> QED
    BY <2>1, GotoStays, Names DEF Stays
<1>1. CASE ReadAttempt(p)
  BY <1>0, <1>1, WarnUntouched DEF ReadAttempt, db, Stays
<1>2. CASE ExpireAttempt(p)
  BY <1>0, <1>2, WarnFinish DEF ExpireAttempt, db
<1>3. CASE CommitExpire(p)
  BY <1>0, <1>3, WarnCommitted DEF CommitExpire, Stays
<1>4. CASE SendTimeUp(p)
  <2>1. [kind |-> "timeup"] \in Message /\ [kind |-> "timeup"].kind # "warning"
    BY MessageTypes
  <2> QED
    BY <1>0, <1>4, <2>1, WarnOther DEF SendTimeUp, db, txn
<1>5. CASE SendResult(p)
  <2> DEFINE m == [kind |-> "result", score |-> seen[p].score, by |-> p,
                   owned |-> seen[p].owned]
  <2>1. m \in Message /\ m.kind # "warning"
    BY MessageTypes DEF TypeOK
  <2>2. sent' = Append(sent, m) /\ UNCHANGED <<row, lock, mine>>
    BY <1>5 DEF SendResult, db, txn
  <2> HIDE DEF m
  <2> QED
    BY <1>0, <2>1, <2>2, WarnOther
<1> QED
  BY <1>1, <1>2, <1>3, <1>4, <1>5 DEF Expire

LEMMA WarnFault ==
    ASSUME TypeOK, RowDiscipline, WarningIInv, Fault
    PROVE  WarningIInv'
<1>1. ASSUME NEW p \in Proc, Rollback(p)
      PROVE  WarningIInv'
  <2>1. pc'[p] = Rest(p) /\ Stays(Proc \ {p})
    BY <1>1, GotoStays DEF Rollback
  <2>2. p \in Slot => pc'[p] = "idle"
    BY <2>1, Names DEF Rest
  <2> QED
    BY <1>1, <2>1, <2>2, WarnReleased, Names DEF Rollback, db, Stays
<1>2. ASSUME NEW p \in Proc, LoseMessage(p)
      PROVE  WarningIInv'
  <2>1. p \in Slot => Goto(p, Rest(p))
    BY <1>2, Names DEF LoseMessage
  <2>2. p \in Slot => pc'[p] = "idle"
    BY <2>1, GotoStays, Names DEF Rest
  <2>3. Stays(Proc \ {p})
    BY <1>2, GotoStays DEF LoseMessage
  <2>4. \A s \in Slot : pc'[s] = pc[s] \/ pc'[s] \notin {"commit", "send"}
    BY <2>2, <2>3, Names DEF Stays
  <2> QED
    BY <1>2, <2>4, WarnUntouched DEF LoseMessage, db, txn
<1>3. ASSUME NEW j \in TimerJob, LoseJob(j) \/ RestoreJob(j)
      PROVE  WarningIInv'
  BY <1>3, WarnUntouched DEF LoseJob, RestoreJob, db, txn
<1>4. CASE FlushJobstore
  BY <1>4, WarnUntouched DEF FlushJobstore, db, txn
<1>5. CASE Crash
  <2>1. \A s \in Slot : pc'[s] = "idle"
    BY <1>5, Names DEF Crash
  <2>2. \A p \in Proc : lock'[p] = "none"
    BY <1>5 DEF Crash
  <2> QED
    BY <1>5, <2>1, <2>2
       DEF Crash, WarningIInv, WarningDiscipline, WarnedOnce, Warned, db
<1> QED
  BY <1>1, <1>2, <1>3, <1>4, <1>5 DEF Fault

\* The rest of the system starts jobs and moves the clock.
LEMMA WarnElsewhere ==
    ASSUME TypeOK, WarningIInv,
           \/ \E u \in Update, r \in Request : Begin(u, r)
           \/ \E j \in TimerJob : Fire(j) \/ Misfire(j)
           \/ FireSweep \/ Boot \/ Tick \/ UNCHANGED vars
    PROVE  WarningIInv'
<1>1. UNCHANGED <<row, lock, mine, sent>>
  BY DEF Begin, Fire, Misfire, FireSweep, Boot, Restart, ListInProgress,
         Reconcile, AcceptUpdates, Tick, vars, db, txn
<1>2. ASSUME NEW u \in Update, NEW r \in Request, Begin(u, r)
      PROVE  Stays(Slot)
  BY <1>2, GotoStays, Names DEF Begin, Stays
<1>3. ASSUME NEW j \in TimerJob, Fire(j)
      PROVE  \A s \in Slot : pc'[s] = pc[s] \/ pc'[s] \notin {"commit", "send"}
  <2>1. j \in Proc
    BY Names DEF TimerJob
  <2>2. pc'[j] \in {"read", "write"} /\ Stays(Proc \ {j})
    BY <1>3, <2>1, GotoStays DEF Fire
  <2> QED
    BY <2>2, Names DEF Stays
<1>4. FireSweep => Stays(Slot)
  BY GotoStays, Names DEF FireSweep, Stays
<1>5. Boot => Stays(Slot)
  <2>1. Boot => \E label : Goto("boot", label)
    BY DEF Boot, Restart, ListInProgress, Reconcile, AcceptUpdates
  <2> QED
    BY <2>1, GotoStays, Names DEF Stays
<1>6. Tick \/ UNCHANGED vars \/ (\E j \in TimerJob : Misfire(j)) => Stays(Slot)
  BY DEF Tick, Misfire, vars, Stays
<1> QED
  BY <1>1, <1>2, <1>3, <1>4, <1>5, <1>6, WarnUntouched DEF Stays

LEMMA WarnStep ==
    ASSUME TypeOK, RowDiscipline, WarningIInv, [Next]_vars
    PROVE  WarningIInv'
BY WarnHandlers, WarnJob, WarnExpire, WarnFault, WarnElsewhere
   DEF Next, Quiet

LEMMA WarnInit == Init => WarningIInv
<1> HAVE Init
<1>1. DOMAIN sent = {}
  BY DEF Init
<1>2. /\ \A p \in Proc : lock[p] = "none"
      /\ \A s \in Slot : pc[s] = "idle"
  BY Names DEF Init
<1> QED
  BY <1>1, <1>2 DEF WarningIInv, WarningDiscipline, WarnedOnce, Warned

LEMMA WarnInvariant == Spec => []WarningIInv
<1>1. TypeOK /\ RowDiscipline /\ WarningIInv /\ [Next]_vars => WarningIInv'
  BY WarnStep
<1> QED
  BY <1>1, WarnInit, TypeCorrect, RowsAreGuarded, PTL DEF Spec

\* The claim protocol of the warning jobs holds in every reachable state.
THEOREM WarningsAreClaimed == Spec => []WarningDiscipline
<1>1. WarningIInv => WarningDiscipline
  BY DEF WarningIInv
<1> QED
  BY <1>1, WarnInvariant, PTL

\* No student receives the same warning twice, however often the process
\* dies, a job is re-registered, restored or fires again, or a send fails.
THEOREM AtMostOneWarning == Spec => []WarnedOnce
<1>1. WarningIInv => WarnedOnce
  BY DEF WarningIInv
<1> QED
  BY <1>1, WarnInvariant, PTL

-----------------------------------------------------------------------------
(* The expire jobs. *)

ExpiryIInv == ExpiryDiscipline /\ TimeUpOnce /\ ExpiryResultIsStored

\* An expire job that a step leaves where it was, or that has nothing
\* uncommitted and nothing to send after it.
Keeps(p) == pc'[p] = pc[p] /\ seen'[p] = seen[p]
Rests(p) == pc'[p] \notin {"commit", "send", "show"}

LEMMA ExpiryUntouched ==
    ASSUME ExpiryIInv, UNCHANGED <<row, lock, mine, sent>>,
           \A p \in Expirer : Keeps(p) \/ Rests(p)
    PROVE  ExpiryIInv'
BY DEF ExpiryIInv, ExpiryDiscipline, TimeUpOnce, ExpiryResultIsStored,
       TimeUpSent, Keeps, Rests, Finished

LEMMA ExpiryReleased ==
    ASSUME TypeOK, ExpiryIInv, NEW p \in Proc, Released(p),
           UNCHANGED <<row, sent>>, \A o \in Expirer \ {p} : Keeps(o),
           p \in Expirer => Rests(p)
    PROVE  ExpiryIInv'
<1>1. \A o \in Expirer \ {p} : lock'[o] = lock[o] /\ mine'[o] = mine[o]
  BY Names DEF TypeOK, Released
<1> QED
  BY <1>1
     DEF ExpiryIInv, ExpiryDiscipline, TimeUpOnce, ExpiryResultIsStored,
         TimeUpSent, Keeps, Rests, Finished

LEMMA ExpiryUpdated ==
    ASSUME TypeOK, ExpiryIInv, NEW p \in Proc, NEW r, UpdateRow(p, r),
           UNCHANGED <<row, sent>>, \A o \in Expirer \ {p} : Keeps(o),
           p \in Expirer =>
              /\ pc'[p] = "commit"
              /\ seen'[p].owned => /\ ~Finished(row) /\ r.status = "expired"
                                   /\ r.score = seen'[p].score
    PROVE  ExpiryIInv'
<1>1. lock'[p] = "X" /\ mine'[p] = r
  BY DEF TypeOK, UpdateRow
<1>2. \A o \in Expirer \ {p} : ~(pc[o] = "commit" /\ seen[o].owned)
  BY Names DEF ExpiryIInv, ExpiryDiscipline, UpdateRow, CanLockX
<1> QED
  BY <1>1, <1>2
     DEF ExpiryIInv, ExpiryDiscipline, TimeUpOnce, ExpiryResultIsStored,
         TimeUpSent, Keeps, Finished

LEMMA ExpiryCommitted ==
    ASSUME TypeOK, RowDiscipline, ExpiryIInv, NEW p \in Proc, Commit(p),
           \A o \in Expirer \ {p} : Keeps(o),
           p \in Expirer =>
              \/ pc'[p] = "send" /\ seen'[p] = seen[p] /\ seen[p].owned
              \/ Rests(p)
    PROVE  ExpiryIInv'
<1>0. pc[p] = "commit" /\ sent' = sent /\ Released(p)
  BY DEF Commit
<1>1. CASE lock[p] = "X" /\ ~Finished(row)
  <2>1. ~TimeUpSent /\ \A o \in Expirer : pc[o] \notin {"send", "show"}
    BY <1>1 DEF ExpiryIInv, ExpiryDiscipline, Finished
  <2>2. \A i \in DOMAIN sent : ~(sent[i].kind = "result"
                                   /\ sent[i].by \in Expirer)
    BY <1>1 DEF ExpiryIInv, ExpiryDiscipline
  <2>3. \A o \in Expirer \ {p} : ~(pc[o] = "commit" /\ seen[o].owned)
    BY <1>1, Names DEF RowDiscipline, ExpiryIInv, ExpiryDiscipline
  <2>4. p \in Expirer /\ seen[p].owned =>
           row'.status = "expired" /\ row'.score = seen[p].score
    BY <1>0, <1>1 DEF Commit, ExpiryIInv, ExpiryDiscipline
  <2> QED
    BY <1>0, <2>1, <2>2, <2>3, <2>4
       DEF ExpiryIInv, ExpiryDiscipline, TimeUpOnce, ExpiryResultIsStored,
           TimeUpSent, Keeps, Rests, Finished
<1>2. CASE lock[p] # "X" \/ Finished(row)
  <2>1. UNCHANGED row
    BY <1>2 DEF RowDiscipline, Commit
  <2>2. p \in Expirer => Rests(p)
    BY <1>0, <1>2 DEF ExpiryIInv, ExpiryDiscipline
  <2> QED
    BY <1>0, <2>1, <2>2, ExpiryReleased
<1> QED
  BY <1>1, <1>2

\* A message other than "time is up", and the row's own score in a result.
LEMMA ExpiryLogged ==
    ASSUME TypeOK, ExpiryIInv, NEW m \in Message, sent' = Append(sent, m),
           m.kind # "timeup",
           m.kind = "result" /\ m.by \in Expirer
              => Finished(row) /\ m.score = row.score,
           UNCHANGED <<row, lock, mine>>,
           \A p \in Expirer : Keeps(p) \/ Rests(p)
    PROVE  ExpiryIInv'
<1>1. TimeUpSent' <=> TimeUpSent
  BY Appended DEF TimeUpSent
<1>2. TimeUpOnce'
  BY Appended DEF ExpiryIInv, TimeUpOnce
<1>3. ExpiryResultIsStored'
  BY Appended DEF ExpiryIInv, ExpiryResultIsStored
<1>4. ExpiryDiscipline'
  BY <1>1, Appended DEF ExpiryIInv, ExpiryDiscipline, Keeps, Rests, Finished
<1> QED
  BY <1>2, <1>3, <1>4 DEF ExpiryIInv

LEMMA ExpiryFinish ==
    ASSUME TypeOK, ExpiryIInv, NEW p \in Proc, NEW target,
           FinishAttempt(p, target), UNCHANGED <<row, sent>>,
           \A o \in Expirer \ {p} : pc'[o] = pc[o],
           p \in Expirer => pc'[p] = "commit" /\ target = "expired"
    PROVE  ExpiryIInv'
<1>0. \A o \in Expirer \ {p} : Keeps(o)
  BY Names DEF TypeOK, FinishAttempt, AlreadyFinished, WinFinalize,
     LoseFinalize, Keeps
<1>1. CASE AlreadyFinished(p)
  <2>1. ~seen'[p].owned /\ UNCHANGED <<lock, mine>>
    BY <1>1 DEF AlreadyFinished, TypeOK
  <2> QED
    BY <1>0, <2>1
       DEF ExpiryIInv, ExpiryDiscipline, TimeUpOnce, ExpiryResultIsStored,
           TimeUpSent, Keeps, Finished
<1>2. CASE WinFinalize(p, target)
  <2> DEFINE n == RightCount(snap[p].ans)
             r == [row EXCEPT !.status = target, !.score = n]
  <2>1. UpdateRow(p, r) /\ ~Finished(row)
    BY <1>2 DEF WinFinalize
  <2>2. r.status = target /\ r.score = n
    BY DEF TypeOK, Row
  <2>3. seen'[p].score = n
    BY <1>2 DEF WinFinalize, TypeOK
  <2> HIDE DEF r, n
  <2> QED
    BY <1>0, <2>1, <2>2, <2>3, ExpiryUpdated
<1>3. CASE LoseFinalize(p)
  <2>1. UpdateRow(p, row) /\ ~seen'[p].owned
    BY <1>3 DEF LoseFinalize, TypeOK
  <2> QED
    BY <1>0, <2>1, ExpiryUpdated
<1> QED
  BY <1>1, <1>2, <1>3 DEF FinishAttempt

LEMMA ExpiryHandlers ==
    ASSUME TypeOK, RowDiscipline, ExpiryIInv, NEW u \in Update,
           HandleUpdate(u)
    PROVE  ExpiryIInv'
<1> u \in Proc /\ u \notin Expirer
  BY Names
<1>0. Stays(Expirer)
  BY HandlerStays
<1>1. CASE SubmitAnswer(u)
  <2>1. /\ lock' = [lock EXCEPT ![u] = "S"]
        /\ UNCHANGED <<row, mine, sent, seen>>
    BY <1>1 DEF SubmitAnswer, db
  <2>2. \A p \in Expirer : lock'[p] = lock[p]
    BY <2>1, Names DEF TypeOK
  <2> QED
    BY <1>0, <2>1, <2>2
       DEF Stays, ExpiryIInv, ExpiryDiscipline, TimeUpOnce,
           ExpiryResultIsStored, TimeUpSent, Finished
<1>2. CASE SetCurrentPosition(u)
  <2>1. PICK r : UpdateRow(u, r)
    BY <1>2 DEF SetCurrentPosition
  <2> QED
    BY <1>0, <1>2, <2>1, ExpiryUpdated DEF SetCurrentPosition, db, Stays, Keeps
<1>3. CASE StartNav(u) \/ KeepPosition(u) \/ OpenRunning(u)
  BY <1>0, <1>3, ExpiryUntouched
     DEF StartNav, KeepPosition, OpenRunning, db, txn, Stays, Keeps
<1>4. CASE ShowResult(u)
  <2> DEFINE m == [kind |-> "result", score |-> seen[u].score, by |-> u,
                   owned |-> seen[u].owned]
  <2>1. m \in Message /\ m.kind # "timeup" /\ m.by \notin Expirer
    BY MessageTypes DEF TypeOK
  <2>2. sent' = Append(sent, m) /\ UNCHANGED <<row, lock, mine, seen>>
    BY <1>4 DEF ShowResult, db, txn
  <2> HIDE DEF m
  <2> QED
    BY <1>0, <2>1, <2>2, ExpiryLogged DEF Stays, Keeps
<1>5. CASE DeadlockVictim(u)
  BY <1>0, <1>5, ExpiryReleased DEF DeadlockVictim, db, Stays, Keeps
<1>6. CASE OpenFinished(u)
  <2>1. FinishAttempt(u, "expired") /\ UNCHANGED <<row, sent>>
    BY <1>6 DEF OpenFinished, FinishAttempt, db
  <2> QED
    BY <1>0, <2>1, ExpiryFinish DEF Stays
<1>7. CASE FinishTap(u)
  BY <1>0, <1>7, ExpiryFinish DEF FinishTap, db, Stays
<1>8. CASE BanTap(u)
  BY <1>0, <1>8, ExpiryFinish DEF BanTap, db, Stays
<1>9. CASE CommitUpdate(u)
  <2>1. \A p \in Expirer : Keeps(p)
    BY <1>0, <1>9 DEF CommitUpdate, NoMore, TypeOK, Stays, Keeps
  <2> QED
    BY <1>9, <2>1, ExpiryCommitted DEF CommitUpdate
<1> QED
  BY <1>1, <1>2, <1>3, <1>4, <1>5, <1>6, <1>7, <1>8, <1>9 DEF HandleUpdate

LEMMA ExpiryWarn ==
    ASSUME TypeOK, RowDiscipline, ExpiryIInv, NEW s \in Slot, Warn(s)
    PROVE  ExpiryIInv'
<1> s \in Proc /\ s \notin Expirer
  BY Names
<1>0. \A p \in Expirer : Keeps(p)
  <2>1. UNCHANGED seen /\ \E label : Goto(s, label)
    BY DEF Warn, ClaimWarning, SkipWarning, CommitWarning, SendWarning
  <2> QED
    BY <2>1, GotoStays, Names DEF Stays, Keeps
<1>1. CASE ClaimWarning(s)
  <2>1. PICK r : UpdateRow(s, r)
    BY <1>1 DEF ClaimWarning
  <2> QED
    BY <1>0, <1>1, <2>1, ExpiryUpdated DEF ClaimWarning, db
<1>2. CASE SkipWarning(s)
  BY <1>0, <1>2, ExpiryUntouched DEF SkipWarning, db, txn
<1>3. CASE CommitWarning(s)
  BY <1>0, <1>3, ExpiryCommitted DEF CommitWarning
<1>4. CASE SendWarning(s)
  <2> DEFINE m == [kind |-> "warning", slot |-> s]
  <2>1. m \in Message /\ m.kind = "warning"
    BY MessageTypes
  <2>2. sent' = Append(sent, m) /\ UNCHANGED <<row, lock, mine>>
    BY <1>4 DEF SendWarning, db, txn
  <2> HIDE DEF m
  <2> QED
    BY <1>0, <2>1, <2>2, ExpiryLogged
<1> QED
  BY <1>1, <1>2, <1>3, <1>4 DEF Warn

\* The expire job itself: read, finish, commit, two messages.
LEMMA ExpiryJob ==
    ASSUME TypeOK, RowDiscipline, ExpiryIInv, NEW p \in Expirer, Expire(p)
    PROVE  ExpiryIInv'
<1> p \in Proc
  BY Names
<1>0. \A o \in Expirer \ {p} : pc'[o] = pc[o]
  <2>1. \E label : Goto(p, label)
    BY DEF Expire, ReadAttempt, ExpireAttempt, CommitExpire, SendTimeUp,
       SendResult
  <2> QED
    BY <2>1, GotoStays, Names DEF Stays
<1>a. Rest(p) \notin {"commit", "send", "show"}
  BY DEF Rest
<1>1. CASE ReadAttempt(p)
  <2>1. pc'[p] = "write"
    BY <1>1, GotoStays DEF ReadAttempt
  <2> QED
    BY <1>0, <1>1, <2>1, ExpiryUntouched DEF ReadAttempt, db, Keeps, Rests
<1>2. CASE ExpireAttempt(p)
  <2>1. pc'[p] = "commit"
    BY <1>2, GotoStays DEF ExpireAttempt
  <2> QED
    BY <1>0, <1>2, <2>1, ExpiryFinish DEF ExpireAttempt, db
<1>3. CASE CommitExpire(p)
  <2>1. \A o \in Expirer \ {p} : Keeps(o)
    BY <1>0, <1>3, Names DEF CommitExpire, NoMore, TypeOK, Keeps
  <2>2. \/ pc'[p] = "send" /\ seen'[p] = seen[p] /\ seen[p].owned
        \/ Rests(p)
    BY <1>3, <1>a, GotoStays DEF CommitExpire, Rests
  <2> QED
    BY <1>3, <2>1, <2>2, ExpiryCommitted DEF CommitExpire
<1>4. CASE SendTimeUp(p)
  <2> DEFINE m == [kind |-> "timeup"]
  <2>1. m \in Message /\ m.kind = "timeup"
    BY MessageTypes
  <2>2. /\ sent' = Append(sent, m) /\ pc[p] = "send" /\ pc'[p] = "show"
        /\ UNCHANGED <<row, lock, mine, seen>>
    BY <1>4, GotoStays DEF SendTimeUp, db, txn
  <2>3. /\ row.status = "expired" /\ Finished(row) /\ ~TimeUpSent
        /\ \A o \in Expirer \ {p} : pc[o] # "send"
        /\ seen[p].score = row.score
    BY <2>2 DEF ExpiryIInv, ExpiryDiscipline
  <2> HIDE DEF m
  <2>4. TimeUpOnce'
    BY <2>1, <2>2, <2>3, Appended DEF TimeUpOnce, TimeUpSent
  <2>5. ExpiryResultIsStored'
    BY <2>1, <2>2, Appended DEF ExpiryIInv, ExpiryResultIsStored
  <2>6. ExpiryDiscipline'
    BY <1>0, <2>1, <2>2, <2>3, Appended
       DEF ExpiryIInv, ExpiryDiscipline, Finished
  <2> QED
    BY <2>4, <2>5, <2>6 DEF ExpiryIInv
<1>5. CASE SendResult(p)
  <2> DEFINE m == [kind |-> "result", score |-> seen[p].score, by |-> p,
                   owned |-> seen[p].owned]
  <2>1. m \in Message /\ m.kind # "timeup" /\ m.score = seen[p].score
    BY MessageTypes DEF TypeOK
  <2>2. /\ sent' = Append(sent, m) /\ pc[p] = "show" /\ pc'[p] = Rest(p)
        /\ UNCHANGED <<row, lock, mine>>
    BY <1>5, GotoStays DEF SendResult, db, txn
  <2>3. \A o \in Expirer \ {p} : Keeps(o)
    BY <1>0, <1>5, Names DEF SendResult, NoMore, TypeOK, Keeps
  <2>4. Finished(row) /\ seen[p].score = row.score
    BY <2>2 DEF ExpiryIInv, ExpiryDiscipline
  <2>5. \A o \in Expirer : Keeps(o) \/ Rests(o)
    BY <1>a, <2>2, <2>3 DEF Rests
  <2> HIDE DEF m
  <2> QED
    BY <2>1, <2>2, <2>4, <2>5, ExpiryLogged
<1> QED
  BY <1>1, <1>2, <1>3, <1>4, <1>5 DEF Expire

LEMMA ExpiryFault ==
    ASSUME TypeOK, RowDiscipline, ExpiryIInv, Fault
    PROVE  ExpiryIInv'
<1>1. ASSUME NEW p \in Proc, Rollback(p)
      PROVE  ExpiryIInv'
  <2>1. pc'[p] = Rest(p) /\ Stays(Proc \ {p})
    BY <1>1, GotoStays DEF Rollback
  <2>2. Rests(p)
    BY <2>1 DEF Rest, Rests
  <2>3. \A o \in Expirer \ {p} : Keeps(o)
    BY <1>1, <2>1, Names DEF Rollback, NoMore, TypeOK, Stays, Keeps
  <2> QED
    BY <1>1, <2>2, <2>3, ExpiryReleased DEF Rollback, db
<1>2. ASSUME NEW p \in Proc, LoseMessage(p)
      PROVE  ExpiryIInv'
  <2>1. Stays(Proc \ {p})
    BY <1>2, GotoStays DEF LoseMessage
  <2>2. \A o \in Expirer \ {p} : Keeps(o)
    BY <1>2, <2>1, Names DEF LoseMessage, NoMore, TypeOK, Stays, Keeps
  <2>3. UNCHANGED <<row, lock, mine, sent>>
    BY <1>2 DEF LoseMessage, db, txn
  <2>4. CASE p \in Expirer /\ pc[p] = "send"
    <3>1. pc'[p] = "show" /\ UNCHANGED seen
      BY <1>2, <2>4, GotoStays DEF LoseMessage
    <3> QED
      BY <2>2, <2>3, <2>4, <3>1
         DEF ExpiryIInv, ExpiryDiscipline, TimeUpOnce, ExpiryResultIsStored,
             TimeUpSent, Keeps, Finished
  <2>5. CASE ~(p \in Expirer /\ pc[p] = "send")
    <3>1. pc'[p] = Rest(p)
      BY <1>2, <2>5, GotoStays DEF LoseMessage
    <3>2. Rests(p)
      BY <3>1 DEF Rest, Rests
    <3> QED
      BY <2>2, <2>3, <3>2, ExpiryUntouched
  <2> QED
    BY <2>4, <2>5
<1>3. ASSUME NEW j \in TimerJob, LoseJob(j) \/ RestoreJob(j)
      PROVE  ExpiryIInv'
  BY <1>3, ExpiryUntouched DEF LoseJob, RestoreJob, db, txn, Keeps
<1>4. CASE FlushJobstore
  BY <1>4, ExpiryUntouched DEF FlushJobstore, db, txn, Keeps
<1>5. CASE Crash
  <2>1. \A p \in Expirer : pc'[p] = "idle"
    BY <1>5, Names DEF Crash
  <2> QED
    BY <1>5, <2>1
       DEF Crash, ExpiryIInv, ExpiryDiscipline, TimeUpOnce,
           ExpiryResultIsStored, TimeUpSent, Finished, db
<1> QED
  BY <1>1, <1>2, <1>3, <1>4, <1>5 DEF Fault

LEMMA ExpiryElsewhere ==
    ASSUME TypeOK, ExpiryIInv,
           \/ \E u \in Update, r \in Request : Begin(u, r)
           \/ \E j \in TimerJob : Fire(j) \/ Misfire(j)
           \/ FireSweep \/ Boot \/ Tick \/ UNCHANGED vars
    PROVE  ExpiryIInv'
<1>1. UNCHANGED <<row, lock, mine, sent, seen>>
  BY DEF Begin, Fire, Misfire, FireSweep, Boot, Restart, ListInProgress,
         Reconcile, AcceptUpdates, Tick, vars, db, txn
<1>2. ASSUME NEW u \in Update, NEW r \in Request, Begin(u, r)
      PROVE  \A p \in Expirer : pc'[p] = pc[p] \/ Rests(p)
  BY <1>2, GotoStays, Names DEF Begin, Stays
<1>3. ASSUME NEW j \in TimerJob, Fire(j)
      PROVE  \A p \in Expirer : pc'[p] = pc[p] \/ Rests(p)
  <2>1. j \in Proc
    BY Names DEF TimerJob
  <2>2. pc'[j] \in {"read", "write"} /\ Stays(Proc \ {j})
    BY <1>3, <2>1, GotoStays DEF Fire
  <2> QED
    BY <2>2, Names DEF Stays, Rests
<1>4. FireSweep => \A p \in Expirer : pc'[p] = pc[p] \/ Rests(p)
  BY GotoStays, Names DEF FireSweep, Stays, Rests
<1>5. Boot => \A p \in Expirer : pc'[p] = pc[p] \/ Rests(p)
  <2>1. Boot => \E label \in {"list", "admit", "schedule", "read", "idle"} :
                   Goto("boot", label)
    BY DEF Boot, Restart, ListInProgress, Reconcile, AcceptUpdates
  <2> QED
    BY <2>1, GotoStays, Names DEF Stays, Rests
<1>6. Tick \/ UNCHANGED vars \/ (\E j \in TimerJob : Misfire(j))
         => UNCHANGED pc
  BY DEF Tick, Misfire, vars
<1>7. \A p \in Expirer : Keeps(p) \/ Rests(p)
  BY <1>1, <1>2, <1>3, <1>4, <1>5, <1>6 DEF Keeps
<1> QED
  BY <1>1, <1>7, ExpiryUntouched

LEMMA ExpiryStep ==
    ASSUME TypeOK, RowDiscipline, ExpiryIInv, [Next]_vars
    PROVE  ExpiryIInv'
BY ExpiryHandlers, ExpiryWarn, ExpiryJob, ExpiryFault, ExpiryElsewhere
   DEF Next, Quiet

LEMMA ExpiryInit == Init => ExpiryIInv
<1> HAVE Init
<1>1. DOMAIN sent = {}
  BY DEF Init
<1>2. \A p \in Expirer : pc[p] = "idle"
  BY Names DEF Init
<1> QED
  BY <1>1, <1>2 DEF ExpiryIInv, ExpiryDiscipline, TimeUpOnce,
     ExpiryResultIsStored, TimeUpSent

LEMMA ExpiryInvariant == Spec => []ExpiryIInv
<1>1. TypeOK /\ RowDiscipline /\ ExpiryIInv /\ [Next]_vars => ExpiryIInv'
  BY ExpiryStep
<1> QED
  BY <1>1, ExpiryInit, TypeCorrect, RowsAreGuarded, PTL DEF Spec

\* The finalization protocol of the expire jobs holds in every reachable
\* state.
THEOREM ExpiryIsOwned == Spec => []ExpiryDiscipline
<1>1. ExpiryIInv => ExpiryDiscipline
  BY DEF ExpiryIInv
<1> QED
  BY <1>1, ExpiryInvariant, PTL

\* Both protocols of the jobs hold, whatever crashes, is lost or restored.
THEOREM DeliveriesAreDisciplined == Spec => []DeliveryDiscipline
<1>1. WarningDiscipline /\ ExpiryDiscipline => DeliveryDiscipline
  BY DEF DeliveryDiscipline
<1> QED
  BY <1>1, WarningsAreClaimed, ExpiryIsOwned, PTL

\* The student is told that the time is up at most once, and only about an
\* attempt that expired, whichever of the timer, the sweep and the boot
\* sequence finalizes it, and however they overlap.
THEOREM AtMostOneTimeUp == Spec => []TimeUpOnce
<1>1. ExpiryIInv => TimeUpOnce
  BY DEF ExpiryIInv
<1> QED
  BY <1>1, ExpiryInvariant, PTL

\* The score an expire job sends is the score the row holds, now and later.
THEOREM ExpiryResultCorrect == Spec => []ExpiryResultIsStored
<1>1. ExpiryIInv => ExpiryResultIsStored
  BY DEF ExpiryIInv
<1> QED
  BY <1>1, ExpiryInvariant, PTL


-----------------------------------------------------------------------------
(* The score, and the promises of AttemptContract. *)

\* What a transaction with the exclusive lock makes of the facts of the row:
\* nothing, the claim of one warning, or the final status with the score of the
\* answers in its snapshot.
SameFacts(p) ==
    /\ mine[p].status = row.status /\ mine[p].score = row.score
    /\ mine[p].warned = row.warned
Claims(p) ==
    /\ mine[p].status = row.status /\ mine[p].score = row.score
    /\ \E s \in Slot \ row.warned : mine[p].warned = row.warned \cup {s}
Finalizes(p) ==
    /\ Finishing(p)
    /\ mine[p].status \in {"submitted", "expired"} /\ mine[p].warned = row.warned
    /\ mine[p].score = RightCount(snap[p].ans)

\* The finish tap of u holds the lock over an open row and will store score n.
Owns(u, n) ==
    /\ lock[u] = "X" /\ ~Finished(row)
    /\ mine[u].status = "submitted" /\ mine[u].score = n

\* A lock is held only on the way from the first statement to the end; a
\* transaction writes one answer at most, and then decides nothing else; while
\* no answer is committed beside it, a finish has all of them in its snapshot;
\* and an owner that shows its result will store it.
SoundTxn(p) ==
    /\ lock[p] # "none" => pc[p] \in {"move", "commit"} \/ (p \in Update /\ pc[p] = "show")
    /\ WritesAnswer(p) => p \in Update /\ request[p].op = "answer"
    /\ \E q \in Position : \A r \in Position \ {q} : put[p][r] = "none"
    /\ lock[p] = "X" => \/ SameFacts(p)
                        \/ ~Finished(row) /\ ~WritesAnswer(p) /\ (Claims(p) \/ Finalizes(p))
    /\ Finishing(p) /\ ~overlap => snap[p].ans = ans
    /\ p \in Update /\ pc[p] = "show" /\ seen[p].owned => Owns(p, seen[p].score)
    /\ p = "boot" /\ mode = "down" => pc[p] = "idle"

\* What a finish tap showed as the owner is what the row will get or has, unless
\* something failed.
ShownTruly(m) ==
    m.kind = "result" /\ m.by \in Update /\ m.owned =>
        /\ pc[m.by] \in {"commit", "done"}
        /\ pc[m.by] = "commit" => Owns(m.by, m.score)
        /\ pc[m.by] = "done" => \/ spent.faults > 0 \/ spent.crashes > 0
                                \/ row.status = "submitted" /\ row.score = m.score

\* The inductive invariant of the score.
ScoreInv ==
    /\ TypeOK /\ RowDiscipline
    /\ \A p \in Proc : SoundTxn(p)
    /\ \A i \in DOMAIN sent : ShownTruly(sent[i])
    /\ ScoreIsExact

\* Nothing of activation p changes.
Same(p) ==
    /\ pc'[p] = pc[p] /\ seen'[p] = seen[p] /\ snap'[p] = snap[p]
    /\ lock'[p] = lock[p] /\ mine'[p] = mine[p] /\ put'[p] = put[p]
    /\ p \in Update => request'[p] = request[p]

\* The other activations, and what is committed, stay.
Alone(p) ==
    /\ UNCHANGED <<row, ans, overlap>> /\ mode' \in {mode, "starting", "up"}
    /\ \A o \in Proc \ {p} : Same(o)
    /\ spent'.faults >= spent.faults /\ spent'.crashes >= spent.crashes

LEMMA SameSound ==
    ASSUME ScoreInv, NEW p \in Proc, Same(p), UNCHANGED <<row, ans, overlap>>,
           mode' \in {mode, "starting", "up"}
    PROVE  SoundTxn(p)'
<1>1. SoundTxn(p)
  BY DEF ScoreInv
<1>2. (InTxn(p)' <=> InTxn(p)) /\ (Finishing(p)' <=> Finishing(p))
  BY DEF Same, InTxn, Finishing
<1>3. WritesAnswer(p)' <=> WritesAnswer(p)
  BY DEF Same, WritesAnswer
<1> QED
  BY <1>1, <1>2, <1>3
     DEF SoundTxn, Same, SameFacts, Claims, Finalizes, Owns

LEMMA BlankSound ==
    ASSUME NEW p \in Proc, lock'[p] = "none", put'[p] = NoAnswers,
           pc'[p] \notin {"write", "move", "commit"},
           p \in Update => pc'[p] # "show",
           p = "boot" => pc'[p] = "idle" \/ mode' # "down"
    PROVE  SoundTxn(p)'
<1>1. ~WritesAnswer(p)' /\ ~Finishing(p)'
  BY DEF WritesAnswer, Finishing, InTxn, NoAnswers
<1>2. \E q \in Position : \A r \in Position \ {q} : put'[p][r] = "none"
  BY PositionsAssumption DEF NoAnswers, Position
<1> QED
  BY <1>1, <1>2 DEF SoundTxn

LEMMA Unlocked ==
    ASSUME ScoreInv, NEW p \in Proc, pc[p] \notin {"move", "commit"},
           p \in Update => pc[p] # "show"
    PROVE  lock[p] = "none" /\ ~WritesAnswer(p) /\ put[p] = NoAnswers
<1>1. lock[p] = "none" /\ ~WritesAnswer(p)
  BY DEF ScoreInv, SoundTxn, TypeOK, RowDiscipline
<1>2. put[p] \in Answers /\ \A q \in Position : put[p][q] = "none"
  BY <1>1 DEF ScoreInv, TypeOK, WritesAnswer
<1> QED
  BY <1>1, <1>2 DEF Answers, NoAnswers

\* A step of p alone that commits and sends nothing.
LEMMA AloneTruly ==
    ASSUME ScoreInv, TypeOK', NEW p \in Proc, Alone(p),
           p \in Update /\ pc[p] \in {"commit", "done"}
              => pc'[p] = "done" /\ spent'.faults > 0,
           NEW m, ShownTruly(m)
    PROVE  ShownTruly(m)'
<1> SUFFICES ASSUME m.kind = "result", m.by \in Update, m.owned
             PROVE  /\ pc'[m.by] \in {"commit", "done"}
                    /\ pc'[m.by] = "commit" => Owns(m.by, m.score)'
                    /\ pc'[m.by] = "done" =>
                          \/ spent'.faults > 0 \/ spent'.crashes > 0
                          \/ row'.status = "submitted" /\ row'.score = m.score
  BY DEF ShownTruly
<1>1. PICK u \in Update : u = m.by
  OBVIOUS
<1>2. /\ pc[u] \in {"commit", "done"}
      /\ pc[u] = "commit" => Owns(u, m.score)
      /\ pc[u] = "done" => \/ spent.faults > 0 \/ spent.crashes > 0
                           \/ row.status = "submitted" /\ row.score = m.score
  BY <1>1 DEF ShownTruly
<1>3. CASE u = p
  BY <1>1, <1>2, <1>3
<1>4. CASE u # p
  <2>1. Same(u) /\ UNCHANGED row
    BY <1>4, Names DEF Alone
  <2>2. Owns(u, m.score) => Owns(u, m.score)'
    BY <2>1 DEF Owns, Same
  <2>3. spent.faults > 0 \/ spent.crashes > 0 => spent'.faults > 0 \/ spent'.crashes > 0
    BY DEF Alone, ScoreInv, TypeOK
  <2> QED
    BY <1>1, <1>2, <2>1, <2>2, <2>3 DEF Same
<1> QED
  BY <1>3, <1>4

LEMMA AloneKeeps ==
    ASSUME ScoreInv, TypeOK', RowDiscipline', NEW p \in Proc, Alone(p), SoundTxn(p)',
           p \in Update /\ pc[p] \in {"commit", "done"}
              => pc'[p] = "done" /\ spent'.faults > 0,
           \A i \in DOMAIN sent' :
              \/ i \in DOMAIN sent /\ sent'[i] = sent[i]
              \/ ~(sent'[i].kind = "result" /\ sent'[i].by \in Update)
    PROVE  ScoreInv'
<1>1. ASSUME NEW o \in Proc PROVE SoundTxn(o)'
  BY SameSound DEF Alone
<1>2. ASSUME NEW i \in DOMAIN sent' PROVE ShownTruly(sent[i])'
  <2>1. PICK m : m = sent'[i]
    OBVIOUS
  <2>2. CASE i \in DOMAIN sent /\ m = sent[i]
    <3>1. ShownTruly(m)
      BY <2>2 DEF ScoreInv
    <3>2. ShownTruly(m)'
      BY <3>1, AloneTruly
    <3> QED
      BY <2>1, <3>2 DEF ShownTruly, Owns
  <2>3. CASE ~(m.kind = "result" /\ m.by \in Update)
    BY <2>1, <2>3 DEF ShownTruly
  <2> QED
    BY <1>2, <2>1, <2>2, <2>3
<1>3. ScoreIsExact'
  BY DEF ScoreInv, ScoreIsExact, Alone, Finished, RightCount
<1> QED
  BY <1>1, <1>2, <1>3 DEF ScoreInv

\* finish() in p, up to the commit: the owner makes the final row.
LEMMA FinishSound ==
    ASSUME ScoreInv, NEW p \in Proc, NEW target \in {"submitted", "expired"},
           FinishAttempt(p, target), pc[p] = "write",
           p \in Expirer \/ (p \in Update /\ request[p].op \in {"finish", "ban"}),
           UNCHANGED <<row, ans, overlap, request, snap, put, spent, mode>>,
           \/ Goto(p, "commit")
           \/ p \in Update /\ Goto(p, "show") /\ target = "submitted"
    PROVE  Alone(p) /\ SoundTxn(p)'
<1>1. /\ pc'[p] \in {"commit", "show"}
      /\ pc'[p] = "show" => p \in Update /\ target = "submitted"
      /\ Stays(Proc \ {p})
  BY GotoStays DEF ScoreInv
<1>2. lock[p] = "none" /\ ~WritesAnswer(p) /\ put[p] = NoAnswers
  BY Unlocked
<1>3. SoundTxn(p) /\ TypeOK
  BY DEF ScoreInv
<1>4. Finishing(p) /\ Finishing(p)' /\ (~WritesAnswer(p))'
  BY <1>1, <1>2 DEF Finishing, InTxn, WritesAnswer
<1>5. /\ \A o \in Proc \ {p} : seen'[o] = seen[o] /\ lock'[o] = lock[o] /\ mine'[o] = mine[o]
      /\ \/ lock'[p] = "none" /\ ~seen'[p].owned
         \/ lock'[p] = "X" /\ mine'[p] = row /\ ~seen'[p].owned
         \/ /\ lock'[p] = "X" /\ ~Finished(row)
            /\ mine'[p] = [row EXCEPT !.status = target, !.score = RightCount(snap[p].ans)]
            /\ seen'[p].score = RightCount(snap[p].ans)
  <2>1. CASE AlreadyFinished(p)
    BY <1>2, <1>3, <2>1 DEF AlreadyFinished, TypeOK
  <2>2. CASE WinFinalize(p, target)
    BY <1>3, <2>2 DEF WinFinalize, UpdateRow, TypeOK
  <2>3. CASE LoseFinalize(p)
    BY <1>3, <2>3 DEF LoseFinalize, UpdateRow, TypeOK
  <2> QED
    BY <2>1, <2>2, <2>3 DEF FinishAttempt
<1>6. Alone(p)
  BY <1>1, <1>3, <1>5 DEF Alone, Same, Stays, TypeOK
<1>7. /\ Finishing(p)' /\ ~overlap' => snap'[p].ans = ans'
      /\ \E q \in Position : \A r \in Position \ {q} : put'[p][r] = "none"
      /\ p = "boot" => mode' # "down"
  BY <1>3, <1>4 DEF SoundTxn
<1>8. /\ lock'[p] = "X" => \/ SameFacts(p)'
                           \/ ~Finished(row)' /\ Finalizes(p)'
      /\ pc'[p] = "show" /\ seen'[p].owned => Owns(p, seen[p].score)'
  <2>1. CASE /\ lock'[p] = "X" /\ ~Finished(row)
             /\ mine'[p] = [row EXCEPT !.status = target, !.score = RightCount(snap[p].ans)]
             /\ seen'[p].score = RightCount(snap[p].ans)
    <3>1. /\ mine'[p].status = target /\ mine'[p].warned = row.warned
          /\ mine'[p].score = RightCount(snap[p].ans)
      BY <1>3, <2>1 DEF TypeOK, Row
    <3>2. Finalizes(p)'
      BY <1>4, <3>1 DEF Finalizes, RightCount
    <3>3. pc'[p] = "show" => Owns(p, seen[p].score)'
      BY <1>1, <2>1, <3>1 DEF Owns, Finished
    <3> QED
      BY <2>1, <3>2, <3>3 DEF Finished
  <2>2. CASE lock'[p] # "X" /\ ~seen'[p].owned
    BY <2>2
  <2>3. CASE mine'[p] = row /\ ~seen'[p].owned
    BY <2>3 DEF SameFacts
  <2> QED
    BY <1>5, <2>1, <2>2, <2>3
<1>9. SoundTxn(p)'
  BY <1>1, <1>4, <1>7, <1>8 DEF SoundTxn
<1> QED
  BY <1>6, <1>9

\* A step that only moves p on, under no lock.
LEMMA GoSound ==
    ASSUME ScoreInv, NEW p \in Proc, NEW l, Goto(p, l),
           pc[p] \notin {"move", "commit"}, p \in Update => pc[p] # "show",
           UNCHANGED <<row, ans, overlap, request, txn>>,
           \/ l \notin {"write", "move", "commit"}
           \/ p \notin Expirer /\ ~(p \in Update /\ request[p].op \in {"finish", "ban"}),
           l = "show" => p \notin Update,
           p = "boot" /\ l # "idle" => mode' # "down"
    PROVE  SoundTxn(p)'
<1>1. pc'[p] = l
  BY GotoStays DEF ScoreInv
<1>2. lock'[p] = "none" /\ ~WritesAnswer(p)' /\ put'[p] = NoAnswers
  BY Unlocked DEF txn, WritesAnswer
<1>3. ~Finishing(p)'
  BY <1>1 DEF Finishing, InTxn
<1>4. \E q \in Position : \A r \in Position \ {q} : put'[p][r] = "none"
  BY <1>2, PositionsAssumption DEF NoAnswers, Position
<1> QED
  BY <1>1, <1>2, <1>3, <1>4 DEF SoundTxn

\* A step of p alone that neither sends nor fails, before its commit.
LEMMA QuietlyKeeps ==
    ASSUME ScoreInv, TypeOK', RowDiscipline', NEW p \in Proc, Alone(p), SoundTxn(p)',
           sent' = sent, p \in Update => pc[p] \notin {"commit", "done"}
    PROVE  ScoreInv'
BY AloneKeeps

\* What is the same for every step of p that leaves the others' locals alone.
LEMMA AloneSteps ==
    ASSUME TypeOK, NEW p \in Proc, NEW l, Goto(p, l),
           UNCHANGED <<row, ans, overlap, spent>>, mode' \in {mode, "starting", "up"},
           \A o \in Proc \ {p} : /\ seen'[o] = seen[o] /\ snap'[o] = snap[o]
                                 /\ lock'[o] = lock[o] /\ mine'[o] = mine[o]
                                 /\ put'[o] = put[o]
                                 /\ o \in Update => request'[o] = request[o]
    PROVE  Alone(p)
BY GotoStays DEF Alone, Same, Stays, TypeOK

LEMMA BeginKeeps ==
    ASSUME ScoreInv, TypeOK', RowDiscipline', NEW u \in Update, NEW r \in Request, Begin(u, r)
    PROVE  ScoreInv'
<1> u \in Proc
  BY Names
<1>1. /\ pc[u] = "idle" /\ mode = "up" /\ Goto(u, "write") /\ BeginTxn(u)
      /\ request' = [request EXCEPT ![u] = r]
      /\ UNCHANGED <<row, ans, overlap, spent, mode, lock, mine, put, seen, sent>>
  BY DEF Begin, db, env
<1>2. TypeOK /\ pc'[u] = "write" /\ snap'[u] = Committed
  BY <1>1, GotoStays DEF ScoreInv, TypeOK, BeginTxn
<1>3. lock'[u] = "none" /\ ~WritesAnswer(u)' /\ put'[u] = NoAnswers
  BY <1>1, Unlocked DEF WritesAnswer
<1>4. \E q \in Position : \A s \in Position \ {q} : put'[u][s] = "none"
  BY <1>3, PositionsAssumption DEF NoAnswers, Position
<1>5. snap'[u].ans = ans' /\ u # "boot"
  BY <1>1, <1>2, Names DEF Committed
<1>6. SoundTxn(u)'
  BY <1>2, <1>3, <1>4, <1>5 DEF SoundTxn
<1>7. Alone(u)
  BY <1>1, <1>2, AloneSteps DEF BeginTxn, TypeOK
<1> QED
  BY <1>1, <1>6, <1>7, QuietlyKeeps

LEMMA SubmitAnswerKeeps ==
    ASSUME ScoreInv, TypeOK', RowDiscipline', NEW u \in Update, SubmitAnswer(u)
    PROVE  ScoreInv'
<1> u \in Proc
  BY Names
<1>1. /\ pc[u] = "write" /\ request[u].op = "answer" /\ Goto(u, "move")
      /\ lock' = [lock EXCEPT ![u] = "S"]
      /\ \/ put' = put
         \/ put' = [put EXCEPT ![u][request[u].pos] = request[u].option]
      /\ UNCHANGED <<row, ans, overlap, spent, mode, request, snap, mine, seen, sent>>
  BY DEF SubmitAnswer, db, env
<1>2. TypeOK /\ pc'[u] = "move" /\ lock'[u] = "S" /\ u \notin Expirer
  <2>1. TypeOK /\ u \notin Expirer
    BY Names DEF ScoreInv
  <2>2. pc'[u] = "move"
    BY <1>1, <2>1, GotoStays
  <2>3. lock'[u] = "S"
    BY <1>1, <2>1 DEF TypeOK
  <2> QED
    BY <2>1, <2>2, <2>3
<1>3. put[u] = NoAnswers
  BY <1>1, Unlocked
<1>4. \E q \in Position : \A s \in Position \ {q} : put'[u][s] = "none"
  <2>1. CASE put' = put
    BY <1>3, <2>1, PositionsAssumption DEF NoAnswers, Position
  <2>2. CASE put' = [put EXCEPT ![u][request[u].pos] = request[u].option]
    <3>1. \A s \in Position : s # request[u].pos => put'[u][s] = "none"
      BY <1>2, <1>3, <2>2 DEF TypeOK, NoAnswers, Answers
    <3>2. request[u].pos \in Position
      BY <1>1, <1>2 DEF TypeOK, Request
    <3> QED
      BY <3>1, <3>2
  <2> QED
    BY <1>1, <2>1, <2>2
<1>5. ~Finishing(u)'
  BY <1>1, <1>2 DEF Finishing
<1>6. SoundTxn(u)'
  BY <1>1, <1>2, <1>4, <1>5, Names DEF SoundTxn
<1>7. Alone(u)
  <2>1. \A o \in Proc \ {u} : put'[o] = put[o] /\ lock'[o] = lock[o]
    BY <1>1, <1>2 DEF TypeOK
  <2> QED
    BY <1>1, <1>2, <2>1, AloneSteps
<1> QED
  BY <1>1, <1>6, <1>7, QuietlyKeeps

\* From "move" or "show" to "commit", with the same locals but for a cursor.
LEMMA OnToCommit ==
    ASSUME ScoreInv, TypeOK', RowDiscipline', NEW u \in Update,
           pc[u] \in {"move", "show"}, Goto(u, "commit"),
           UNCHANGED <<row, ans, overlap, spent, mode, request, snap, put, seen>>,
           \/ UNCHANGED <<lock, mine>>
           \/ /\ \A o \in Proc \ {u} : lock'[o] = lock[o] /\ mine'[o] = mine[o]
              /\ SameFacts(u)'
    PROVE  Alone(u) /\ SoundTxn(u)'
<1> u \in Proc
  BY Names
<1>1. TypeOK /\ pc'[u] = "commit" /\ SoundTxn(u) /\ u # "boot"
  BY GotoStays, Names DEF ScoreInv
<1>2. Alone(u)
  BY <1>1, AloneSteps
<1>3. (WritesAnswer(u)' <=> WritesAnswer(u)) /\ (Finishing(u)' <=> Finishing(u))
  BY <1>1 DEF WritesAnswer, Finishing, InTxn
<1>4. lock'[u] = "X" => \/ SameFacts(u)'
                        \/ (~Finished(row) /\ ~WritesAnswer(u) /\ (Claims(u) \/ Finalizes(u)))'
  <2>1. CASE SameFacts(u)'
    BY <2>1
  <2>2. CASE UNCHANGED <<lock, mine>>
    BY <1>1, <1>3, <2>2 DEF SoundTxn, SameFacts, Claims, Finalizes, Finished, RightCount
  <2> QED
    BY <2>1, <2>2
<1>5. /\ Finishing(u)' /\ ~overlap' => snap'[u].ans = ans'
      /\ WritesAnswer(u)' => request'[u].op = "answer"
      /\ \E q \in Position : \A r \in Position \ {q} : put'[u][r] = "none"
  BY <1>1, <1>3 DEF SoundTxn
<1>6. SoundTxn(u)'
  BY <1>1, <1>4, <1>5 DEF SoundTxn
<1> QED
  BY <1>2, <1>6

LEMMA MoveKeeps ==
    ASSUME ScoreInv, TypeOK', RowDiscipline', NEW u \in Update,
           SetCurrentPosition(u) \/ KeepPosition(u)
    PROVE  ScoreInv'
<1> u \in Proc
  BY Names
<1>1. /\ pc[u] = "move" /\ Goto(u, "commit")
      /\ UNCHANGED <<row, ans, overlap, spent, mode, request, snap, put, seen, sent>>
  BY DEF SetCurrentPosition, KeepPosition, db, env, txn
<1>2. CASE KeepPosition(u)
  <2>1. UNCHANGED <<lock, mine>>
    BY <1>2 DEF KeepPosition, txn
  <2> QED
    BY <1>1, <2>1, OnToCommit, QuietlyKeeps
<1>3. CASE SetCurrentPosition(u)
  <2>1. PICK pos \in Position :
            UpdateRow(u, IF Finished(row) THEN row ELSE [row EXCEPT !.cursor = pos])
    BY <1>3 DEF SetCurrentPosition
  <2>2. /\ \A o \in Proc \ {u} : lock'[o] = lock[o] /\ mine'[o] = mine[o]
        /\ mine'[u] = row \/ mine'[u] = [row EXCEPT !.cursor = pos]
    BY <2>1 DEF UpdateRow, ScoreInv, TypeOK
  <2>3. row \in Row
    BY DEF ScoreInv, TypeOK
  <2>4. SameFacts(u)'
    BY <1>1, <2>2, <2>3 DEF SameFacts, Row
  <2> QED
    BY <1>1, <2>2, <2>4, OnToCommit, QuietlyKeeps
<1> QED
  BY <1>2, <1>3

\* A handler that only reads moves on under no lock.
LEMMA ReadsKeep ==
    ASSUME ScoreInv, TypeOK', RowDiscipline', NEW u \in Update,
           StartNav(u) \/ OpenRunning(u)
    PROVE  ScoreInv'
<1> u \in Proc /\ u \notin Expirer /\ u # "boot"
  BY Names
<1>1. /\ pc[u] = "write" /\ request[u].op \in {"nav", "view"}
      /\ Goto(u, "move") \/ Goto(u, "commit")
      /\ UNCHANGED <<row, ans, overlap, spent, mode, request, txn, seen, sent>>
  BY DEF StartNav, OpenRunning, db, env
<1>2. SoundTxn(u)'
  BY <1>1, GoSound
<1>3. Alone(u)
  BY <1>1, AloneSteps DEF txn, ScoreInv
<1> QED
  BY <1>1, <1>2, <1>3, QuietlyKeeps

LEMMA OpenFinishedKeeps ==
    ASSUME ScoreInv, TypeOK', RowDiscipline', NEW u \in Update, OpenFinished(u)
    PROVE  ScoreInv'
<1> u \in Proc /\ u \notin Expirer /\ u # "boot"
  BY Names
<1>1. /\ pc[u] = "write" /\ request[u].op \in {"answer", "nav", "view"}
      /\ Goto(u, "show") /\ AlreadyFinished(u)
      /\ UNCHANGED <<row, ans, overlap, spent, mode, request, snap, put, lock, mine, sent>>
  BY DEF OpenFinished, AlreadyFinished, db, env
<1>2. /\ ~seen'[u].owned /\ \A o \in Proc \ {u} : seen'[o] = seen[o]
      /\ pc'[u] = "show" /\ TypeOK
  <2>1. TypeOK
    BY DEF ScoreInv
  <2>2. /\ DOMAIN seen = Proc
        /\ seen' = [seen EXCEPT ![u] = [score |-> Stored(snap[u].row), owned |-> FALSE]]
    BY <1>1, <2>1 DEF AlreadyFinished, TypeOK
  <2>3. ~seen'[u].owned /\ \A o \in Proc \ {u} : seen'[o] = seen[o]
    BY <2>2
  <2>4. pc'[u] = "show"
    BY <1>1, <2>1, GotoStays
  <2> QED
    BY <2>1, <2>3, <2>4
<1>3. lock[u] = "none" /\ ~WritesAnswer(u)' /\ put[u] = NoAnswers
  BY <1>1, Unlocked DEF WritesAnswer
<1>4. \E q \in Position : \A s \in Position \ {q} : put'[u][s] = "none"
  BY <1>1, <1>3, PositionsAssumption DEF NoAnswers, Position
<1>5. ~Finishing(u)'
  BY <1>1 DEF Finishing
<1>6. SoundTxn(u)'
  BY <1>1, <1>2, <1>3, <1>4, <1>5 DEF SoundTxn
<1>7. Alone(u)
  BY <1>1, <1>2, AloneSteps
<1> QED
  BY <1>1, <1>6, <1>7, QuietlyKeeps

LEMMA FinishTapKeeps ==
    ASSUME ScoreInv, TypeOK', RowDiscipline', NEW u \in Update, FinishTap(u) \/ BanTap(u)
    PROVE  ScoreInv'
<1> u \in Proc
  BY Names
<1>1. /\ pc[u] = "write" /\ request[u].op \in {"finish", "ban"}
      /\ UNCHANGED <<row, ans, overlap, request, snap, put, spent, mode, sent>>
      /\ \/ FinishAttempt(u, "submitted") /\ Goto(u, "show")
         \/ FinishAttempt(u, "expired") /\ Goto(u, "commit")
  BY DEF FinishTap, BanTap, db, env
<1>2. Alone(u) /\ SoundTxn(u)'
  BY <1>1, FinishSound
<1> QED
  BY <1>1, <1>2, QuietlyKeeps

\* A transaction rolled back without a fault, by InnoDB.
LEMMA VictimKeeps ==
    ASSUME ScoreInv, TypeOK', RowDiscipline', NEW u \in Update, DeadlockVictim(u)
    PROVE  ScoreInv'
<1> u \in Proc /\ u # "boot"
  BY Names
<1>1. /\ pc[u] = "move" /\ Goto(u, "done") /\ Released(u) /\ Forget(u)
      /\ UNCHANGED <<row, ans, overlap, spent, mode, seen, sent>>
  BY DEF DeadlockVictim, NeedsUpgrade, db, env
<1>2. pc'[u] = "done" /\ lock'[u] = "none" /\ put'[u] = NoAnswers /\ TypeOK
  BY <1>1, GotoStays DEF Released, ScoreInv, TypeOK
<1>3. SoundTxn(u)'
  BY <1>2, BlankSound
<1>4. Alone(u)
  BY <1>1, <1>2, AloneSteps DEF Released, Forget, TypeOK
<1> QED
  BY <1>1, <1>3, <1>4, QuietlyKeeps

\* The result goes out while the lock is held: what it says will be stored.
LEMMA ShowResultKeeps ==
    ASSUME ScoreInv, TypeOK', RowDiscipline', NEW u \in Update, ShowResult(u)
    PROVE  ScoreInv'
<1> u \in Proc
  BY Names
<1> DEFINE n == [kind |-> "result", score |-> seen[u].score, by |-> u,
                 owned |-> seen[u].owned]
<1>1. /\ pc[u] = "show" /\ Goto(u, "commit") /\ sent' = Append(sent, n)
      /\ UNCHANGED <<row, ans, overlap, spent, mode, request, snap, put, seen, lock, mine>>
  BY DEF ShowResult, db, env, txn
<1>2. Alone(u) /\ SoundTxn(u)'
  BY <1>1, OnToCommit
<1>3. TypeOK /\ n \in Message /\ pc'[u] = "commit"
  BY <1>1, GotoStays, MessageTypes DEF ScoreInv, TypeOK
<1>4. n.by = u /\ n.owned = seen[u].owned /\ n.score = seen[u].score
  OBVIOUS
<1>5. PICK m \in Message : m = n
  BY <1>3
<1>6. ShownTruly(m)'
  <2>1. seen[u].owned => Owns(u, seen[u].score)
    BY <1>1 DEF ScoreInv, SoundTxn
  <2>2. m.owned => Owns(u, m.score)'
    BY <1>1, <1>4, <1>5, <2>1 DEF Owns
  <2>3. pc'[m.by] = "commit" /\ m.by = u
    BY <1>3, <1>4, <1>5
  <2> QED
    BY <2>2, <2>3 DEF ShownTruly
<1>7. ASSUME NEW o \in Proc PROVE SoundTxn(o)'
  BY <1>2, SameSound DEF Alone
<1>8. ASSUME NEW i \in DOMAIN sent' PROVE ShownTruly(sent[i])'
  <2>1. PICK k : k = sent'[i]
    OBVIOUS
  <2>2. CASE i = Len(sent) + 1
    <3>1. k = m
      BY <1>1, <1>3, <1>5, <2>1, <2>2, Appended
    <3> QED
      BY <1>6, <2>1, <3>1 DEF ShownTruly, Owns
  <2>3. CASE i \in DOMAIN sent
    <3>1. ShownTruly(k)
      BY <1>1, <1>3, <2>1, <2>3, Appended DEF ScoreInv
    <3>2. ShownTruly(k)'
      BY <1>1, <1>2, <3>1, AloneTruly
    <3> QED
      BY <2>1, <3>2 DEF ShownTruly, Owns
  <2> HIDE DEF n
  <2> QED
    BY <1>1, <1>3, <2>2, <2>3, Appended
<1>9. ScoreIsExact'
  BY <1>1 DEF ScoreInv, ScoreIsExact, Finished, RightCount
<1> QED
  BY <1>7, <1>8, <1>9 DEF ScoreInv

\* A commit: the score of the owner is that of the answers, unless one landed
\* beside it; and what the student was shown is now stored.
LEMMA CommitScore ==
    ASSUME ScoreInv, TypeOK', RowDiscipline', NEW p \in Proc, Commit(p), sent' = sent,
           \A o \in Proc \ {p} : /\ pc'[o] = pc[o] /\ seen'[o] = seen[o]
                                 /\ o \in Update => request'[o] = request[o],
           pc'[p] \notin {"write", "move", "commit"},
           p \in Update => pc'[p] = "done"
    PROVE  ScoreInv'
<1>1. /\ pc[p] = "commit" /\ Released(p) /\ UNCHANGED <<mode, spent>>
      /\ row' = IF lock[p] = "X" THEN mine[p] ELSE row
      /\ ans' = [q \in Position |-> IF put[p][q] # "none" THEN put[p][q] ELSE ans[q]]
      /\ overlap' = (overlap \/ (WritesAnswer(p) /\ \E o \in Proc \ {p} : Finishing(o)))
  BY DEF Commit, env
<1>2. TypeOK /\ SoundTxn(p) /\ RowDiscipline
  BY DEF ScoreInv
<1>3. /\ lock'[p] = "none" /\ put'[p] = NoAnswers
      /\ \A o \in Proc \ {p} : /\ lock'[o] = lock[o] /\ put'[o] = put[o]
                               /\ mine'[o] = mine[o] /\ snap'[o] = snap[o]
  BY <1>1, <1>2 DEF Released, TypeOK
<1>4. ~WritesAnswer(p) => ans' = ans
  BY <1>1, <1>2 DEF WritesAnswer, TypeOK, Answers
<1>5. ASSUME NEW o \in Proc \ {p}, lock[o] = "X" PROVE row' = row
  BY <1>1, <1>2, <1>5 DEF RowDiscipline
<1>6. ASSUME Finished(row) PROVE row' = row /\ ans' = ans
  BY <1>1, <1>2, <1>4, <1>6 DEF RowDiscipline
<1>7. ASSUME NEW o \in Proc PROVE SoundTxn(o)'
  <2>1. CASE o = p
    <3>1. p = "boot" => mode' # "down"
      BY <1>1, <1>2 DEF SoundTxn
    <3> QED
      BY <1>3, <2>1, <3>1, BlankSound
  <2>2. CASE o # p
    <3>1. /\ (WritesAnswer(o)' <=> WritesAnswer(o)) /\ (Finishing(o)' <=> Finishing(o))
          /\ SoundTxn(o)
      BY <1>3, <2>2 DEF WritesAnswer, Finishing, InTxn, ScoreInv
    <3>2. Finishing(o)' /\ ~overlap' => snap'[o].ans = ans'
      BY <1>1, <1>3, <1>4, <2>2, <3>1 DEF SoundTxn
    <3>3. lock'[o] = "X" =>
             \/ SameFacts(o)'
             \/ (~Finished(row) /\ ~WritesAnswer(o) /\ (Claims(o) \/ Finalizes(o)))'
      BY <1>3, <1>5, <2>2, <3>1
         DEF SoundTxn, SameFacts, Claims, Finalizes, Finished, RightCount
    <3>4. o \in Update /\ pc'[o] = "show" /\ seen'[o].owned => Owns(o, seen[o].score)'
      BY <1>3, <1>5, <2>2, <3>1 DEF SoundTxn, Owns, Finished
    <3> QED
      BY <1>1, <1>3, <2>2, <3>1, <3>2, <3>3, <3>4 DEF SoundTxn
  <2> QED
    BY <2>1, <2>2
<1>8. ASSUME NEW m, ShownTruly(m), m.kind = "result", m.by \in Update, m.owned
      PROVE  ShownTruly(m)'
  <2>1. PICK u \in Update : u = m.by
    BY <1>8
  <2>2. /\ pc[u] \in {"commit", "done"}
        /\ pc[u] = "commit" => Owns(u, m.score)
        /\ pc[u] = "done" => \/ spent.faults > 0 \/ spent.crashes > 0
                             \/ row.status = "submitted" /\ row.score = m.score
    BY <1>8, <2>1 DEF ShownTruly
  <2>3. CASE u = p
    <3>1. row' = mine[p] /\ row'.status = "submitted" /\ row'.score = m.score
      BY <1>1, <2>2, <2>3 DEF Owns
    <3> QED
      BY <2>1, <2>3, <3>1 DEF ShownTruly
  <2>4. CASE u # p
    <3>1. pc'[u] = pc[u] /\ u \in Proc \ {p}
      BY <2>4, Names
    <3>2. CASE pc[u] = "commit"
      <4>1. Owns(u, m.score)'
        BY <1>3, <1>5, <2>2, <3>1, <3>2 DEF Owns, Finished
      <4> QED
        BY <2>1, <3>1, <3>2, <4>1 DEF ShownTruly
    <3>3. CASE pc[u] = "done"
      <4>1. row.status = "submitted" => row' = row
        BY <1>6 DEF Finished
      <4> QED
        BY <1>1, <2>1, <2>2, <3>1, <3>3, <4>1 DEF ShownTruly
    <3> QED
      BY <2>2, <3>2, <3>3
  <2> QED
    BY <2>3, <2>4
<1>9. ASSUME NEW i \in DOMAIN sent' PROVE ShownTruly(sent[i])'
  <2>1. PICK m : m = sent[i]
    OBVIOUS
  <2>2. ShownTruly(m)
    BY <2>1, <1>9 DEF ScoreInv
  <2>3. ShownTruly(m)'
    BY <1>8, <2>2 DEF ShownTruly
  <2> QED
    BY <2>1, <2>3 DEF ShownTruly, Owns
<1>10. ScoreIsExact'
  <2> SUFFICES ASSUME Finished(row)', ~overlap'
               PROVE  row'.score = RightCount(ans')
    BY DEF ScoreIsExact, RightCount
  <2>1. ~overlap
    BY <1>1
  <2>2. CASE Finished(row)
    BY <1>6, <2>1, <2>2 DEF ScoreInv, ScoreIsExact
  <2>3. CASE ~Finished(row)
    <3>1. lock[p] = "X" /\ row' = mine[p]
      BY <1>1, <2>3 DEF Finished
    <3>2. ~WritesAnswer(p) /\ Finalizes(p)
      BY <1>2, <2>3, <3>1 DEF SoundTxn, SameFacts, Claims, Finished
    <3>3. snap[p].ans = ans /\ ans' = ans
      BY <1>2, <1>4, <2>1, <3>2 DEF SoundTxn, Finalizes
    <3> QED
      BY <3>1, <3>2, <3>3 DEF Finalizes
  <2> QED
    BY <2>2, <2>3
<1> QED
  BY <1>7, <1>9, <1>10 DEF ScoreInv

LEMMA CommitsKeep ==
    ASSUME ScoreInv, TypeOK', RowDiscipline', NEW p \in Proc,
           \/ p \in Update /\ CommitUpdate(p)
           \/ p \in Slot /\ CommitWarning(p)
           \/ p \in Expirer /\ CommitExpire(p)
    PROVE  ScoreInv'
<1>1. TypeOK /\ Commit(p)
  BY DEF ScoreInv, CommitUpdate, CommitWarning, CommitExpire
<1>2. CASE p \in Update /\ CommitUpdate(p)
  <2>1. pc'[p] = "done" /\ Stays(Proc \ {p})
    BY <1>1, <1>2, GotoStays DEF CommitUpdate
  <2>2. \A o \in Proc \ {p} : /\ pc'[o] = pc[o] /\ seen'[o] = seen[o]
                              /\ o \in Update => request'[o] = request[o]
    BY <1>1, <1>2, <2>1 DEF CommitUpdate, Forget, NoMore, TypeOK, Stays
  <2> QED
    BY <1>1, <2>1, <2>2, CommitScore DEF Commit
<1>3. CASE p \in Slot /\ CommitWarning(p)
  <2>1. pc'[p] \in {"idle", "send"} /\ Stays(Proc \ {p}) /\ UNCHANGED <<request, seen>>
    BY <1>1, <1>3, GotoStays DEF CommitWarning
  <2> QED
    BY <1>1, <1>3, <2>1, Names, CommitScore DEF Commit, Stays
<1>4. CASE p \in Expirer /\ CommitExpire(p)
  <2>1. pc'[p] \in {"send", Rest(p)} /\ Stays(Proc \ {p}) /\ UNCHANGED request
    BY <1>1, <1>4, GotoStays DEF CommitExpire
  <2>2. pc'[p] \notin {"write", "move", "commit"} /\ p \notin Update
    BY <1>4, <2>1, Names DEF Rest
  <2>3. \A o \in Proc \ {p} : seen'[o] = seen[o]
    BY <1>1, <1>4 DEF CommitExpire, NoMore, TypeOK
  <2> QED
    BY <1>1, <2>1, <2>2, <2>3, CommitScore DEF Commit, Stays
<1> QED
  BY <1>2, <1>3, <1>4

LEMMA HandlersScore ==
    ASSUME ScoreInv, TypeOK', RowDiscipline', NEW u \in Update, HandleUpdate(u)
    PROVE  ScoreInv'
BY SubmitAnswerKeeps, MoveKeeps, ReadsKeep, OpenFinishedKeeps, FinishTapKeeps,
   VictimKeeps, ShowResultKeeps, CommitsKeep, Names DEF HandleUpdate

LEMMA WarnScore ==
    ASSUME ScoreInv, TypeOK', RowDiscipline', NEW s \in Slot, Warn(s)
    PROVE  ScoreInv'
<1> s \in Proc /\ s \notin Update /\ s \notin Expirer /\ s # "boot"
  BY Names
<1>0. TypeOK
  BY DEF ScoreInv
<1>1. CASE ClaimWarning(s)
  <2> DEFINE r == [row EXCEPT !.warned = @ \cup {s}]
  <2>1. /\ pc[s] = "write" /\ ~Finished(row) /\ s \notin row.warned
        /\ UpdateRow(s, r) /\ BeginTxn(s) /\ Goto(s, "commit")
        /\ UNCHANGED <<row, ans, overlap, spent, mode, request, put, seen, sent>>
    BY <1>1 DEF ClaimWarning, db, env
  <2>2. r.status = row.status /\ r.score = row.score /\ r.warned = row.warned \cup {s}
    BY <1>0 DEF TypeOK, Row
  <2>3. /\ pc'[s] = "commit" /\ mine'[s] = r
        /\ \A o \in Proc \ {s} : /\ lock'[o] = lock[o] /\ mine'[o] = mine[o]
                                 /\ snap'[o] = snap[o]
    BY <1>0, <2>1, GotoStays DEF UpdateRow, BeginTxn, TypeOK
  <2>4. ~WritesAnswer(s)' /\ ~Finishing(s)' /\ put'[s] = NoAnswers
    BY <2>1, Unlocked DEF WritesAnswer, Finishing
  <2>5. \E q \in Position : \A t \in Position \ {q} : put'[s][t] = "none"
    BY <2>4, PositionsAssumption DEF NoAnswers, Position
  <2>6. Claims(s)' /\ ~Finished(row)'
    <3> HIDE DEF r
    <3> QED
      BY <2>1, <2>2, <2>3 DEF Claims, Finished
  <2>7. SoundTxn(s)'
    BY <2>3, <2>4, <2>5, <2>6 DEF SoundTxn
  <2>8. Alone(s)
    BY <1>0, <2>1, <2>3, AloneSteps
  <2> QED
    BY <2>1, <2>7, <2>8, QuietlyKeeps
<1>2. CASE SkipWarning(s)
  <2>1. /\ pc[s] = "write" /\ Goto(s, "idle")
        /\ UNCHANGED <<row, ans, overlap, spent, mode, request, txn, seen, sent>>
    BY <1>2 DEF SkipWarning, db, env
  <2>2. SoundTxn(s)' /\ Alone(s)
    BY <1>0, <2>1, GoSound, AloneSteps DEF txn
  <2> QED
    BY <2>1, <2>2, QuietlyKeeps
<1>3. CASE CommitWarning(s)
  BY <1>3, CommitsKeep
<1>4. CASE SendWarning(s)
  <2>1. /\ pc[s] = "send" /\ Goto(s, "idle")
        /\ sent' = Append(sent, [kind |-> "warning", slot |-> s])
        /\ UNCHANGED <<row, ans, overlap, spent, mode, request, txn, seen>>
    BY <1>4 DEF SendWarning, db, env
  <2>2. SoundTxn(s)' /\ Alone(s)
    BY <1>0, <2>1, GoSound, AloneSteps DEF txn
  <2>3. PICK m \in Message : m = [kind |-> "warning", slot |-> s] /\ m.kind = "warning"
    BY MessageTypes
  <2>4. \A i \in DOMAIN sent' : \/ i \in DOMAIN sent /\ sent'[i] = sent[i]
                                \/ sent'[i].kind = "warning"
    BY <1>0, <2>1, <2>3, Appended
  <2> QED
    BY <2>2, <2>4, AloneKeeps
<1> QED
  BY <1>1, <1>2, <1>3, <1>4 DEF Warn

LEMMA ExpireScore ==
    ASSUME ScoreInv, TypeOK', RowDiscipline', NEW p \in Expirer, Expire(p)
    PROVE  ScoreInv'
<1> p \in Proc /\ p \notin Update
  BY Names
<1>0. TypeOK /\ (pc[p] # "idle" /\ p = "boot" => mode # "down")
  BY DEF ScoreInv, SoundTxn
<1>1. CASE ReadAttempt(p)
  <2>1. /\ pc[p] = "read" /\ BeginTxn(p) /\ Goto(p, "write")
        /\ UNCHANGED <<row, ans, overlap, spent, mode, request, lock, mine, put, seen, sent>>
    BY <1>1 DEF ReadAttempt, db, env
  <2>2. /\ pc'[p] = "write" /\ snap'[p] = Committed
        /\ \A o \in Proc \ {p} : snap'[o] = snap[o]
    BY <1>0, <2>1, GotoStays DEF BeginTxn, TypeOK
  <2>3. lock'[p] = "none" /\ ~WritesAnswer(p)' /\ put'[p] = NoAnswers
    BY <2>1, Unlocked DEF WritesAnswer
  <2>4. \E q \in Position : \A r \in Position \ {q} : put'[p][r] = "none"
    BY <2>3, PositionsAssumption DEF NoAnswers, Position
  <2>5. snap'[p].ans = ans'
    BY <2>1, <2>2 DEF Committed
  <2>6. SoundTxn(p)'
    BY <1>0, <2>1, <2>2, <2>3, <2>4, <2>5 DEF SoundTxn
  <2>7. Alone(p)
    BY <1>0, <2>1, <2>2, AloneSteps
  <2> QED
    BY <2>1, <2>6, <2>7, QuietlyKeeps
<1>2. CASE ExpireAttempt(p)
  <2>1. /\ pc[p] = "write" /\ FinishAttempt(p, "expired") /\ Goto(p, "commit")
        /\ UNCHANGED <<row, ans, overlap, request, snap, put, spent, mode, sent>>
    BY <1>2 DEF ExpireAttempt, db, env
  <2> QED
    BY <2>1, FinishSound, QuietlyKeeps
<1>3. CASE CommitExpire(p)
  BY <1>3, CommitsKeep
<1>4. CASE SendTimeUp(p)
  <2>1. /\ pc[p] = "send" /\ Goto(p, "show") /\ sent' = Append(sent, [kind |-> "timeup"])
        /\ UNCHANGED <<row, ans, overlap, spent, mode, request, txn, seen>>
    BY <1>4 DEF SendTimeUp, db, env
  <2>2. SoundTxn(p)' /\ Alone(p)
    BY <1>0, <2>1, GoSound, AloneSteps DEF txn
  <2>3. PICK m \in Message : m = [kind |-> "timeup"] /\ m.kind = "timeup"
    BY MessageTypes
  <2>4. \A i \in DOMAIN sent' : \/ i \in DOMAIN sent /\ sent'[i] = sent[i]
                                \/ sent'[i].kind = "timeup"
    BY <1>0, <2>1, <2>3, Appended
  <2> QED
    BY <2>2, <2>4, AloneKeeps
<1>5. CASE SendResult(p)
  <2> DEFINE n == [kind |-> "result", score |-> seen[p].score, by |-> p,
                   owned |-> seen[p].owned]
  <2>1. /\ pc[p] = "show" /\ Goto(p, Rest(p)) /\ NoMore(p) /\ sent' = Append(sent, n)
        /\ UNCHANGED <<row, ans, overlap, spent, mode, request, txn>>
    BY <1>5 DEF SendResult, db, env
  <2>2. Rest(p) \in {"idle", "admit"}
    BY DEF Rest
  <2>3. \A o \in Proc \ {p} : seen'[o] = seen[o]
    BY <1>0, <2>1 DEF NoMore, TypeOK
  <2>4. SoundTxn(p)'
    BY <1>0, <2>1, <2>2, GoSound
  <2>5. Alone(p)
    BY <1>0, <2>1, <2>3, AloneSteps DEF txn
  <2>6. n \in Message /\ n.by = p
    BY <1>0, MessageTypes DEF TypeOK
  <2>7. PICK m \in Message : m = n /\ m.by = p
    BY <2>6
  <2>8. \A i \in DOMAIN sent' : \/ i \in DOMAIN sent /\ sent'[i] = sent[i]
                                \/ sent'[i].by = p
    <3> HIDE DEF n
    <3> QED
      BY <1>0, <2>1, <2>7, Appended
  <2> QED
    BY <2>4, <2>5, <2>8, AloneKeeps
<1> QED
  BY <1>1, <1>2, <1>3, <1>4, <1>5 DEF Expire

\* A step of the environment that leaves every activation alone.
LEMMA StillScore ==
    ASSUME ScoreInv, TypeOK', RowDiscipline',
           UNCHANGED <<row, ans, overlap, mode, pc, request, txn, seen, sent>>,
           spent'.faults >= spent.faults, spent'.crashes >= spent.crashes
    PROVE  ScoreInv'
<1>1. "boot" \in Proc /\ "boot" \notin Update
  BY Names
<1>2. \A p \in Proc : Same(p)
  BY DEF Same, txn
<1>3. Alone("boot")
  BY <1>2 DEF Alone
<1>4. SoundTxn("boot")'
  BY <1>1, <1>2, SameSound
<1> QED
  BY <1>1, <1>3, <1>4, AloneKeeps

\* A job is fired, or the boot sequence goes on.
LEMMA JobsScore ==
    ASSUME ScoreInv, TypeOK', RowDiscipline', NEW p \in Proc, p \notin Update, NEW l,
           Goto(p, l), pc[p] \in {"idle", "list", "schedule", "admit"},
           l \in {"idle", "read", "list", "schedule", "admit"} \/ (p \in Slot /\ l = "write"),
           p = "boot" /\ l # "idle" => mode' # "down",
           mode' \in {mode, "starting", "up"},
           UNCHANGED <<row, ans, overlap, spent, request, txn, seen, sent>>
    PROVE  ScoreInv'
<1>1. p \in Slot => p \notin Expirer
  BY Names
<1>2. SoundTxn(p)'
  BY <1>1, GoSound
<1>3. Alone(p)
  BY AloneSteps DEF txn, ScoreInv
<1> QED
  BY <1>2, <1>3, QuietlyKeeps

LEMMA BootScore ==
    ASSUME ScoreInv, TypeOK', RowDiscipline', Boot
    PROVE  ScoreInv'
<1>1. "boot" \in Proc /\ "boot" \notin Update
  BY Names
<1>2. mode = "down" => pc["boot"] = "idle"
  BY <1>1 DEF ScoreInv, SoundTxn
<1>3. TypeOK
  BY DEF ScoreInv
<1>4. CASE Restart
  <2>1. /\ Goto("boot", "list") /\ mode' = "starting" /\ mode = "down"
        /\ UNCHANGED <<row, ans, overlap, spent, request, txn, seen, sent>>
    BY <1>4 DEF Restart, db
  <2> QED
    BY <1>1, <1>2, <2>1, JobsScore
<1>5. CASE ListInProgress
  <2>1. /\ pc["boot"] = "list" /\ mode' = mode /\ mode # "down"
        /\ Goto("boot", "admit") \/ Goto("boot", "schedule")
        /\ UNCHANGED <<row, ans, overlap, spent, request, txn, seen, sent>>
    BY <1>2, <1>5 DEF ListInProgress, db, env
  <2> QED
    BY <1>1, <2>1, JobsScore
<1>6. CASE Reconcile
  <2>1. /\ pc["boot"] = "schedule" /\ mode' = mode /\ mode # "down"
        /\ Goto("boot", "read") \/ Goto("boot", "admit")
        /\ UNCHANGED <<row, ans, overlap, spent, request, txn, seen, sent>>
    BY <1>2, <1>6 DEF Reconcile, db, env
  <2> QED
    BY <1>1, <2>1, JobsScore
<1>7. CASE AcceptUpdates
  <2>1. /\ pc["boot"] = "admit" /\ mode' = "up" /\ Goto("boot", "idle")
        /\ UNCHANGED <<row, ans, overlap, spent, request, txn, seen, sent>>
    BY <1>7 DEF AcceptUpdates, db
  <2> QED
    BY <1>1, <2>1, JobsScore
<1> QED
  BY <1>4, <1>5, <1>6, <1>7 DEF Boot

LEMMA FiresScore ==
    ASSUME ScoreInv, TypeOK', RowDiscipline',
           FireSweep \/ \E j \in TimerJob : Fire(j) \/ Misfire(j)
    PROVE  ScoreInv'
<1>1. /\ "sweep" \in Proc /\ "sweep" \notin Update /\ "sweep" # "boot"
      /\ "expire" \in Proc /\ "expire" \notin Update /\ "expire" # "boot"
      /\ \A s \in Slot : s \in Proc /\ s \notin Update /\ s # "boot" /\ s # "expire"
  BY Names DEF Expirer
<1>2. TypeOK
  BY DEF ScoreInv
<1>3. CASE FireSweep
  <2>1. /\ Goto("sweep", "read") /\ pc["sweep"] = "idle" /\ mode' = mode
        /\ UNCHANGED <<row, ans, overlap, spent, request, txn, seen, sent>>
    BY <1>3 DEF FireSweep, db, env
  <2> QED
    BY <1>1, <2>1, JobsScore
<1>4. ASSUME NEW j \in TimerJob, Fire(j)
      PROVE  ScoreInv'
  <2>1. /\ pc[j] = "idle" /\ mode' = mode
        /\ Goto(j, IF j = "expire" THEN "read" ELSE "write")
        /\ UNCHANGED <<row, ans, overlap, spent, request, txn, seen, sent>>
    BY <1>4 DEF Fire, db, env
  <2>2. CASE j = "expire"
    BY <1>1, <2>1, <2>2, JobsScore
  <2>3. CASE j \in Slot
    BY <1>1, <2>1, <2>3, JobsScore
  <2> QED
    BY <2>2, <2>3 DEF TimerJob
<1>5. ASSUME NEW j \in TimerJob, Misfire(j)
      PROVE  ScoreInv'
  <2>1. UNCHANGED <<row, ans, overlap, mode, spent, pc, request, txn, seen, sent>>
    BY <1>5 DEF Misfire, db, env
  <2>2. spent'.faults >= spent.faults /\ spent'.crashes >= spent.crashes
    BY <1>2, <2>1 DEF TypeOK
  <2> QED
    BY <2>1, <2>2, StillScore
<1> QED
  BY <1>3, <1>4, <1>5

LEMMA SpendGrows ==
    ASSUME TypeOK, NEW what \in {"faults", "crashes", "flushes"}, NEW max, Spend(what, max)
    PROVE  /\ spent'.faults >= spent.faults /\ spent'.crashes >= spent.crashes
           /\ what = "faults" => spent'.faults > 0
           /\ what = "crashes" => spent'.crashes > 0
<1>1. /\ spent \in [{"faults", "crashes", "flushes"} -> Nat]
      /\ spent' = [spent EXCEPT ![what] = spent[what] + 1]
  BY DEF TypeOK, Spend
<1>2. /\ spent["faults"] \in Nat /\ spent["crashes"] \in Nat /\ spent["flushes"] \in Nat
      /\ spent'["faults"] = IF what = "faults" THEN spent["faults"] + 1 ELSE spent["faults"]
      /\ spent'["crashes"] = IF what = "crashes" THEN spent["crashes"] + 1 ELSE spent["crashes"]
  BY <1>1
<1> QED
  BY <1>2

LEMMA StoreScore ==
    ASSUME ScoreInv, TypeOK', RowDiscipline',
           FlushJobstore \/ \E j \in TimerJob : LoseJob(j) \/ RestoreJob(j)
    PROVE  ScoreInv'
<1>1. /\ UNCHANGED <<row, ans, overlap, mode, pc, request, txn, seen, sent>>
      /\ \E what \in {"faults", "flushes"}, max \in {MaxFaults, MaxFlushes} : Spend(what, max)
  BY DEF FlushJobstore, LoseJob, RestoreJob, db
<1>2. spent'.faults >= spent.faults /\ spent'.crashes >= spent.crashes
  BY <1>1, SpendGrows DEF ScoreInv
<1> QED
  BY <1>1, <1>2, StillScore

\* A transaction that fails is forgotten; a finish tap whose message is out is
\* then excused by the fault.
LEMMA RollbackScore ==
    ASSUME ScoreInv, TypeOK', RowDiscipline', NEW p \in Proc, Rollback(p)
    PROVE  ScoreInv'
<1>1. /\ Released(p) /\ Goto(p, Rest(p)) /\ NoMore(p) /\ Spend("faults", MaxFaults)
      /\ InTxn(p) \/ pc[p] = "read"
      /\ UNCHANGED <<row, ans, overlap, mode, sent>>
      /\ IF p \in Update THEN Forget(p) ELSE UNCHANGED request
  BY DEF Rollback, db
<1>2. TypeOK /\ SoundTxn(p)
  BY DEF ScoreInv
<1>3. /\ pc'[p] = Rest(p) /\ Stays(Proc \ {p})
      /\ lock'[p] = "none" /\ put'[p] = NoAnswers
      /\ \A o \in Proc \ {p} : /\ lock'[o] = lock[o] /\ put'[o] = put[o]
                               /\ mine'[o] = mine[o] /\ snap'[o] = snap[o]
                               /\ seen'[o] = seen[o]
                               /\ o \in Update => request'[o] = request[o]
  <2>1. pc'[p] = Rest(p) /\ Stays(Proc \ {p})
    BY <1>1, <1>2, GotoStays
  <2>2. /\ lock'[p] = "none" /\ put'[p] = NoAnswers
        /\ \A o \in Proc \ {p} : /\ lock'[o] = lock[o] /\ put'[o] = put[o]
                                 /\ mine'[o] = mine[o] /\ snap'[o] = snap[o]
    BY <1>1, <1>2 DEF Released, TypeOK
  <2>3. \A o \in Proc \ {p} : seen'[o] = seen[o]
    BY <1>1, <1>2 DEF NoMore, TypeOK
  <2>4. \A o \in Update \ {p} : request'[o] = request[o]
    BY <1>1, <1>2 DEF Forget, TypeOK
  <2> QED
    BY <2>1, <2>2, <2>3, <2>4
<1>4. spent'.faults >= spent.faults /\ spent'.crashes >= spent.crashes /\ spent'.faults > 0
  BY <1>1, <1>2, SpendGrows
<1>5. Alone(p)
  BY <1>1, <1>3, <1>4 DEF Alone, Same, Stays
<1>6. p = "boot" => mode' # "down"
  BY <1>1, <1>2 DEF SoundTxn, InTxn
<1>7. SoundTxn(p)'
  BY <1>3, <1>6, BlankSound DEF Rest
<1> QED
  BY <1>1, <1>3, <1>4, <1>5, <1>7, AloneKeeps DEF Rest

LEMMA LoseScore ==
    ASSUME ScoreInv, TypeOK', RowDiscipline', NEW p \in Proc, LoseMessage(p)
    PROVE  ScoreInv'
<1>1. /\ p \notin Update /\ pc[p] \in {"send", "show"} /\ Spend("faults", MaxFaults)
      /\ UNCHANGED <<row, ans, overlap, mode, request, txn, sent>>
      /\ \/ Goto(p, "show") /\ UNCHANGED seen
         \/ Goto(p, Rest(p)) /\ NoMore(p)
  BY DEF LoseMessage, db
<1>2. TypeOK /\ SoundTxn(p)
  BY DEF ScoreInv
<1>3. PICK l \in {"show", "admit", "idle"} : Goto(p, l)
  BY <1>1 DEF Rest
<1>4. \A o \in Proc \ {p} : seen'[o] = seen[o]
  BY <1>1, <1>2 DEF NoMore, TypeOK
<1>5. SoundTxn(p)'
  BY <1>1, <1>2, <1>3, GoSound DEF SoundTxn
<1>6. spent'.faults >= spent.faults /\ spent'.crashes >= spent.crashes
  BY <1>1, <1>2, SpendGrows
<1>7. Alone(p)
  BY <1>1, <1>2, <1>3, <1>4, <1>6, GotoStays DEF Alone, Same, Stays, txn
<1> QED
  BY <1>1, <1>5, <1>7, AloneKeeps

\* A crash forgets every transaction at once.
LEMMA CrashScore ==
    ASSUME ScoreInv, TypeOK', RowDiscipline', Crash
    PROVE  ScoreInv'
<1>1. TypeOK /\ spent'.crashes > 0
  BY SpendGrows DEF ScoreInv, Crash
<1>2. ASSUME NEW p \in Proc PROVE SoundTxn(p)'
  <2>1. /\ lock'[p] = "none" /\ put'[p] = NoAnswers /\ pc'[p] \in {"idle", "done"}
        /\ p \notin Update => pc'[p] = "idle"
    BY DEF Crash
  <2> QED
    BY <2>1, BlankSound, Names
<1>3. ASSUME NEW i \in DOMAIN sent' PROVE ShownTruly(sent[i])'
  <2>1. PICK m : m = sent[i] /\ m = sent'[i] /\ ShownTruly(m)
    BY DEF Crash, ScoreInv
  <2>2. ShownTruly(m)'
    <3> SUFFICES ASSUME m.kind = "result", m.by \in Update, m.owned
                 PROVE  pc'[m.by] = "done"
      BY <1>1 DEF ShownTruly
    <3>1. PICK u \in Update : u = m.by
      OBVIOUS
    <3>2. pc[u] # "idle"
      BY <2>1, <3>1 DEF ShownTruly
    <3> QED
      BY <3>1, <3>2, Names DEF Crash
  <2> QED
    BY <2>1, <2>2 DEF ShownTruly, Owns
<1>4. ScoreIsExact'
  BY DEF Crash, db, ScoreInv, ScoreIsExact, Finished, RightCount
<1> QED
  BY <1>2, <1>3, <1>4 DEF ScoreInv

LEMMA ScoreStep ==
    ASSUME ScoreInv, TypeOK', RowDiscipline', [Next]_vars
    PROVE  ScoreInv'
<1>1. ASSUME NEW u \in Update, HandleUpdate(u) PROVE ScoreInv'
  BY <1>1, HandlersScore
<1>2. ASSUME NEW u \in Update, NEW r \in Request, Begin(u, r) PROVE ScoreInv'
  BY <1>2, BeginKeeps
<1>3. ASSUME NEW s \in Slot, Warn(s) PROVE ScoreInv'
  BY <1>3, WarnScore
<1>4. ASSUME NEW p \in Expirer, Expire(p) PROVE ScoreInv'
  BY <1>4, ExpireScore
<1>5. CASE FireSweep \/ \E j \in TimerJob : Fire(j) \/ Misfire(j)
  BY <1>5, FiresScore
<1>6. CASE Boot
  BY <1>6, BootScore
<1>7. CASE Tick \/ Quiet \/ UNCHANGED vars
  <2>1. UNCHANGED <<row, ans, overlap, mode, spent, pc, request, txn, seen, sent>>
    BY <1>7 DEF Tick, Quiet, vars, db, env
  <2>2. spent'.faults >= spent.faults /\ spent'.crashes >= spent.crashes
    BY <2>1 DEF ScoreInv, TypeOK
  <2> QED
    BY <2>1, <2>2, StillScore
<1>8. CASE Fault
  BY <1>8, RollbackScore, LoseScore, StoreScore, CrashScore DEF Fault
<1> QED
  BY <1>1, <1>2, <1>3, <1>4, <1>5, <1>6, <1>7, <1>8 DEF Next

LEMMA ScoreInit == Init => ScoreInv
<1> HAVE Init
<1>1. TypeOK
  BY InitType
<1>2. RowDiscipline
  BY BlankTypes DEF Init, RowDiscipline, WritesAnswer, NoAnswers
<1>3. ASSUME NEW p \in Proc PROVE SoundTxn(p)
  <2>1. lock[p] = "none" /\ put[p] = NoAnswers /\ pc[p] = "idle"
    BY DEF Init
  <2>2. ~WritesAnswer(p) /\ ~Finishing(p)
    BY <2>1 DEF WritesAnswer, Finishing, InTxn, NoAnswers
  <2>3. \E q \in Position : \A r \in Position \ {q} : put[p][r] = "none"
    BY <2>1, PositionsAssumption DEF NoAnswers, Position
  <2> QED
    BY <2>1, <2>2, <2>3 DEF SoundTxn
<1>4. DOMAIN sent = {} /\ ScoreIsExact
  BY DEF Init, ScoreIsExact, Finished, OpenRow
<1> QED
  BY <1>1, <1>2, <1>3, <1>4 DEF ScoreInv

\* Every transaction of every reachable state is sound: what it holds, wrote,
\* read and showed agrees with the committed row and answers.
THEOREM ScoreInvariance == Spec => []ScoreInv
<1>1. ScoreInv /\ TypeOK' /\ RowDiscipline' /\ [Next]_vars => ScoreInv'
  BY ScoreStep
<1> QED
  BY <1>1, ScoreInit, TypeCorrect, RowsAreGuarded, PTL DEF Spec

\* The stored score is the number of right answers stored, for every student
\* none of whose answers was committed while a finish was running.
THEOREM ScoresAreExact == Spec => []ScoreIsExact
<1>1. ScoreInv => ScoreIsExact
  BY DEF ScoreInv
<1> QED
  BY <1>1, ScoreInvariance, PTL

-----------------------------------------------------------------------------
(* What is shown to those who did not own the finalization. *)

\* mark_finished sets the status and the scores together.
Scored(r) == Finished(r) <=> r.score # Null

\* u is about to show what it found: the stored score of the finished row its
\* snapshot shows, or the 0 of an open snapshot.
Sees(u) ==
    /\ Finished(row)
    /\ seen[u].score = IF Finished(snap[u].row) THEN row.score ELSE 0

Found(m) ==
    m.kind = "result" /\ m.by \in Update /\ ~m.owned
        => Finished(row) /\ m.score \in {0, row.score}

\* A finished row in a snapshot is the row, as finished rows do not change.
SightInv ==
    /\ Scored(row)
    /\ \A p \in Proc : /\ Scored(snap[p].row)
                       /\ Finished(snap[p].row) => snap[p].row = row
    /\ \A u \in Update : pc[u] = "show" /\ ~seen[u].owned => Sees(u)
    /\ \A i \in DOMAIN sent : Found(sent[i])

LEMMA ScoredRow ==
    ASSUME ScoreInv, Scored(row), [Next]_vars
    PROVE  Scored(row)' /\ (Finished(row) => row' = row)
<1>1. CASE UNCHANGED <<row, ans>>
  BY <1>1 DEF Scored, Finished
<1>2. ASSUME NEW p \in Proc, Commit(p)
      PROVE  Scored(row)' /\ (Finished(row) => row' = row)
  <2>1. CASE lock[p] # "X"
    BY <1>2, <2>1 DEF Commit, Scored, Finished
  <2>2. CASE lock[p] = "X"
    <3>1. row' = mine[p] /\ (Finished(row) => mine[p] = row)
      BY <1>2, <2>2 DEF Commit, ScoreInv, RowDiscipline
    <3>2. SameFacts(p) \/ Claims(p) \/ Finalizes(p)
      BY <2>2 DEF ScoreInv, SoundTxn
    <3>3. Finalizes(p) => Finished(row') /\ row'.score # Null
      BY <3>1, RightCountType, PositionsAssumption DEF Finalizes, Finished, Null, Position
    <3>4. SameFacts(p) \/ Claims(p) => row'.status = row.status /\ row'.score = row.score
      BY <3>1 DEF SameFacts, Claims
    <3> QED
      BY <3>1, <3>2, <3>3, <3>4 DEF Scored, Finished
  <2> QED
    BY <2>1, <2>2
<1> QED
  BY <1>1, <1>2, OnlyCommitWrites

\* A step that changes nothing of the other activations.
Local(p) ==
    \A o \in Proc \ {p} : /\ pc'[o] = pc[o] /\ seen'[o] = seen[o]
                         /\ snap'[o] = snap[o]

\* What a step may do to a snapshot and to what is about to be shown.
SnapMoves(p) == \/ snap'[p] = snap[p]
                \/ snap'[p] = NoSnapshot
                \/ snap'[p] = Committed /\ row' = row

ShowMoves(u) ==
    pc'[u] = "show" =>
        /\ snap'[u] = snap[u]
        /\ \/ pc[u] = "show" /\ seen'[u] = seen[u]
           \/ UNCHANGED row /\ \E target : FinishAttempt(u, target)

LEMMA LocalMoves ==
    ASSUME NEW p \in Proc, Local(p), SnapMoves(p), p \in Update => ShowMoves(p)
    PROVE  /\ \A o \in Proc : SnapMoves(o)
           /\ \A u \in Update : ShowMoves(u)
BY Names DEF Local, SnapMoves, ShowMoves

LEMMA HandlerMoves ==
    ASSUME TypeOK, NEW u \in Update, HandleUpdate(u)
    PROVE  Local(u) /\ SnapMoves(u) /\ ShowMoves(u)
<1> u \in Proc
  BY Names
<1>1. ASSUME NEW l \in {"move", "commit", "done", "show"}, Goto(u, l),
             UNCHANGED <<snap, seen>>,
             l # "show"
      PROVE  Local(u) /\ SnapMoves(u) /\ ShowMoves(u)
  BY <1>1, GotoStays DEF Local, SnapMoves, ShowMoves, Stays
<1>2. ASSUME Goto(u, "done"), Released(u), NoMore(u) \/ UNCHANGED seen
      PROVE  Local(u) /\ SnapMoves(u) /\ ShowMoves(u)
  <2>1. snap'[u] = NoSnapshot /\ \A o \in Proc \ {u} : snap'[o] = snap[o]
    BY <1>2 DEF Released, TypeOK
  <2>2. \A o \in Proc \ {u} : seen'[o] = seen[o]
    BY <1>2 DEF NoMore, TypeOK
  <2> QED
    BY <1>2, <2>1, <2>2, GotoStays DEF Local, SnapMoves, ShowMoves, Stays
<1>3. ASSUME NEW l \in {"show", "commit"}, Goto(u, l), NEW target,
             FinishAttempt(u, target), UNCHANGED <<row, snap>>
      PROVE  Local(u) /\ SnapMoves(u) /\ ShowMoves(u)
  <2>1. \A o \in Proc \ {u} : seen'[o] = seen[o]
    BY <1>3 DEF FinishAttempt, AlreadyFinished, WinFinalize, LoseFinalize, TypeOK
  <2> QED
    BY <1>3, <2>1, GotoStays DEF Local, SnapMoves, ShowMoves, Stays
<1>4. CASE SubmitAnswer(u) \/ StartNav(u)
  BY <1>1, <1>4 DEF SubmitAnswer, StartNav, txn
<1>5. CASE SetCurrentPosition(u) \/ KeepPosition(u) \/ OpenRunning(u) \/ ShowResult(u)
  BY <1>1, <1>5 DEF SetCurrentPosition, KeepPosition, OpenRunning, ShowResult, txn
<1>6. CASE DeadlockVictim(u) \/ CommitUpdate(u)
  BY <1>2, <1>6 DEF DeadlockVictim, CommitUpdate, Commit
<1>7. CASE OpenFinished(u)
  BY <1>3, <1>7 DEF OpenFinished, FinishAttempt, db
<1>8. CASE FinishTap(u) \/ BanTap(u)
  BY <1>3, <1>8 DEF FinishTap, BanTap, db
<1> QED
  BY <1>4, <1>5, <1>6, <1>7, <1>8 DEF HandleUpdate

\* The jobs, the boot sequence and a failed transaction.
LEMMA JobMoves ==
    ASSUME TypeOK, NEW p \in Proc,
           Goto(p, Rest(p)) \/ (p \notin Update /\ \E l : Goto(p, l)),
           UNCHANGED seen \/ NoMore(p) \/ \E target : FinishAttempt(p, target),
           UNCHANGED snap \/ Released(p) \/ (BeginTxn(p) /\ row' = row)
    PROVE  Local(p) /\ SnapMoves(p) /\ (p \in Update => ShowMoves(p))
<1>1. \A o \in Proc \ {p} : pc'[o] = pc[o]
  <2>1. PICK l : Goto(p, l)
    OBVIOUS
  <2> QED
    BY <2>1, GotoStays DEF Stays
<1>2. \A o \in Proc \ {p} : seen'[o] = seen[o]
  BY DEF FinishAttempt, AlreadyFinished, WinFinalize, LoseFinalize, NoMore, TypeOK
<1>3. SnapMoves(p) /\ \A o \in Proc \ {p} : snap'[o] = snap[o]
  BY DEF Released, BeginTxn, SnapMoves, TypeOK
<1>4. p \in Update => pc'[p] = "done"
  BY GotoStays DEF Rest
<1> QED
  BY <1>1, <1>2, <1>3, <1>4 DEF Local, ShowMoves

LEMMA SightMoves ==
    ASSUME TypeOK, [Next]_vars
    PROVE  /\ \A p \in Proc : SnapMoves(p)
           /\ \A u \in Update : ShowMoves(u)
<1> DEFINE Goal == /\ \A p \in Proc : SnapMoves(p)
                   /\ \A u \in Update : ShowMoves(u)
<1>1. ASSUME NEW u \in Update, HandleUpdate(u) PROVE Goal
  BY <1>1, HandlerMoves, LocalMoves, Names
<1>2. ASSUME NEW u \in Update, NEW r \in Request, Begin(u, r) PROVE Goal
  <2>1. u \in Proc /\ Goto(u, "write") /\ BeginTxn(u) /\ UNCHANGED <<row, seen>>
    BY <1>2, Names DEF Begin, db
  <2>2. pc'[u] = "write" /\ Stays(Proc \ {u})
    BY <2>1, GotoStays
  <2>3. snap'[u] = Committed /\ \A o \in Proc \ {u} : snap'[o] = snap[o]
    BY <2>1 DEF BeginTxn, TypeOK
  <2> QED
    BY <2>1, <2>2, <2>3, LocalMoves DEF Local, SnapMoves, ShowMoves, Stays
<1>3. ASSUME NEW s \in Slot, Warn(s) PROVE Goal
  <2>1. \E l : Goto(s, l)
    BY <1>3 DEF Warn, ClaimWarning, SkipWarning, CommitWarning, SendWarning
  <2>2. UNCHANGED seen
    BY <1>3 DEF Warn, ClaimWarning, SkipWarning, CommitWarning, SendWarning
  <2>3. UNCHANGED snap \/ Released(s) \/ (BeginTxn(s) /\ row' = row)
    BY <1>3 DEF Warn, ClaimWarning, SkipWarning, CommitWarning, SendWarning, Commit, db, txn
  <2> QED
    BY <2>1, <2>2, <2>3, JobMoves, LocalMoves, Names
<1>4. ASSUME NEW p \in Expirer, Expire(p) PROVE Goal
  <2>1. \E l : Goto(p, l)
    BY <1>4 DEF Expire, ReadAttempt, ExpireAttempt, CommitExpire, SendTimeUp, SendResult
  <2>2. UNCHANGED seen \/ NoMore(p) \/ \E target : FinishAttempt(p, target)
    BY <1>4 DEF Expire, ReadAttempt, ExpireAttempt, CommitExpire, SendTimeUp, SendResult
  <2>3. UNCHANGED snap \/ Released(p) \/ (BeginTxn(p) /\ row' = row)
    BY <1>4 DEF Expire, ReadAttempt, ExpireAttempt, CommitExpire, SendTimeUp, SendResult,
       Commit, db, txn
  <2> QED
    BY <2>1, <2>2, <2>3, JobMoves, LocalMoves, Names
<1>5. ASSUME NEW p \in Proc, Rollback(p) PROVE Goal
  BY <1>5, JobMoves, LocalMoves DEF Rollback
<1>6. ASSUME NEW p \in Proc, LoseMessage(p) PROVE Goal
  <2>1. /\ p \notin Update /\ UNCHANGED snap /\ (\E l : Goto(p, l))
        /\ UNCHANGED seen \/ NoMore(p)
    BY <1>6 DEF LoseMessage, txn
  <2> QED
    BY <2>1, JobMoves, LocalMoves
<1>7. CASE Crash
  BY <1>7, Names DEF Crash, SnapMoves, ShowMoves
<1>8. ASSUME NEW j \in TimerJob, Fire(j) PROVE Goal
  <2>1. j \in Proc /\ j \notin Update
    BY Names DEF TimerJob
  <2>2. UNCHANGED <<seen, snap>> /\ \E l : Goto(j, l)
    BY <1>8 DEF Fire, txn
  <2> QED
    BY <2>1, <2>2, JobMoves, LocalMoves
<1>9. CASE FireSweep
  BY <1>9, JobMoves, LocalMoves, Names DEF FireSweep, txn
<1>10. CASE Boot
  <2>1. UNCHANGED <<seen, snap>> /\ \E l : Goto("boot", l)
    BY <1>10 DEF Boot, Restart, ListInProgress, Reconcile, AcceptUpdates, txn
  <2> QED
    BY <2>1, JobMoves, LocalMoves, Names
<1>11. CASE UNCHANGED <<pc, seen, snap>>
  BY <1>11 DEF SnapMoves, ShowMoves
<1>12. ASSUME \/ \E j \in TimerJob : Misfire(j) \/ LoseJob(j) \/ RestoreJob(j)
              \/ FlushJobstore \/ Tick \/ Quiet \/ UNCHANGED vars
       PROVE  UNCHANGED <<pc, seen, snap>>
  BY <1>12 DEF Misfire, LoseJob, RestoreJob, FlushJobstore, Tick, Quiet, vars, txn
<1> QED
  BY <1>1, <1>2, <1>3, <1>4, <1>5, <1>6, <1>7, <1>8, <1>9, <1>10, <1>11, <1>12
     DEF Next, Fault

\* A message is a result that its sender was about to show, or not a result of
\* an update.
LEMMA ResultSent ==
    ASSUME TypeOK, [Next]_vars
    PROVE  \/ sent' = sent
           \/ \E m \in Message :
                 /\ sent' = Append(sent, m) /\ row' = row
                 /\ m.kind = "result" /\ m.by \in Update =>
                       /\ pc[m.by] = "show"
                       /\ m.score = seen[m.by].score /\ m.owned = seen[m.by].owned
<1>1. ASSUME NEW p \in Proc, ShowResult(p) \/ (p \in Expirer /\ SendResult(p))
      PROVE  \E m \in Message :
                 /\ sent' = Append(sent, m) /\ row' = row
                 /\ m.kind = "result" /\ m.by \in Update =>
                       /\ pc[m.by] = "show"
                       /\ m.score = seen[m.by].score /\ m.owned = seen[m.by].owned
  <2> DEFINE m == [kind |-> "result", score |-> seen[p].score, by |-> p,
                   owned |-> seen[p].owned]
  <2>1. m \in Message
    BY MessageTypes DEF TypeOK
  <2>2. sent' = Append(sent, m) /\ row' = row /\ pc[p] = "show"
    BY <1>1 DEF ShowResult, SendResult, db
  <2> QED
    BY <2>1, <2>2
<1>2. ASSUME NEW m \in {[kind |-> "timeup"]} \cup {[kind |-> "warning", slot |-> s] : s \in Slot}
      PROVE  m \in Message /\ m.kind # "result"
  BY MessageTypes
<1>3. ASSUME NEW p \in Expirer, Expire(p)
      PROVE  sent' = sent \/ SendTimeUp(p) \/ SendResult(p)
  BY <1>3 DEF Expire, ReadAttempt, ExpireAttempt, CommitExpire, Commit
<1>4. ASSUME NEW u \in Update, HandleUpdate(u)
      PROVE  sent' = sent \/ ShowResult(u)
  BY <1>4 DEF HandleUpdate, SubmitAnswer, StartNav, SetCurrentPosition,
     KeepPosition, DeadlockVictim, OpenFinished, OpenRunning, FinishTap,
     BanTap, CommitUpdate, Commit
<1>5. \/ sent' = sent
      \/ \E s \in Slot : SendWarning(s)
      \/ \E p \in Expirer : SendTimeUp(p) \/ SendResult(p)
      \/ \E u \in Update : ShowResult(u)
  <2>1. ASSUME NEW s \in Slot, Warn(s)
        PROVE  sent' = sent \/ SendWarning(s)
    BY <2>1 DEF Warn, ClaimWarning, SkipWarning, CommitWarning, Commit
  <2>2. Fault => sent' = sent
    BY DEF Fault, Rollback, LoseMessage, LoseJob, RestoreJob, FlushJobstore, Crash
  <2>3. ASSUME \/ \E u \in Update, r \in Request : Begin(u, r)
               \/ \E j \in TimerJob : Fire(j) \/ Misfire(j)
               \/ FireSweep \/ Boot \/ Tick \/ UNCHANGED vars
        PROVE  sent' = sent
    BY <2>3 DEF Begin, Fire, Misfire, FireSweep, Boot, Restart, ListInProgress,
       Reconcile, AcceptUpdates, Tick, vars
  <2> QED
    BY <1>3, <1>4, <2>1, <2>2, <2>3 DEF Next, Quiet
<1>6. ASSUME NEW s \in Slot, SendWarning(s)
      PROVE  row' = row /\ sent' = Append(sent, [kind |-> "warning", slot |-> s])
  BY <1>6 DEF SendWarning, db
<1>7. ASSUME NEW p \in Expirer, SendTimeUp(p)
      PROVE  row' = row /\ sent' = Append(sent, [kind |-> "timeup"])
  BY <1>7 DEF SendTimeUp, db
<1> QED
  BY <1>1, <1>2, <1>5, <1>6, <1>7, Names

LEMMA SightStep ==
    ASSUME ScoreInv, SightInv, [Next]_vars
    PROVE  SightInv'
<1>1. TypeOK /\ Scored(row)' /\ (Finished(row) => row' = row)
  BY ScoredRow DEF ScoreInv, SightInv
<1>2. ASSUME NEW p \in Proc
      PROVE  Scored(snap[p].row)' /\ (Finished(snap'[p].row) => snap'[p].row = row')
  <2>1. Scored(snap[p].row) /\ (Finished(snap[p].row) => snap[p].row = row /\ Finished(row))
    BY DEF SightInv
  <2>2. CASE snap'[p] = snap[p]
    BY <1>1, <2>1, <2>2 DEF Scored, Finished
  <2>3. CASE snap'[p] = NoSnapshot
    BY <2>3 DEF NoSnapshot, OpenRow, Scored, Finished
  <2>4. CASE snap'[p] = Committed /\ row' = row
    BY <1>1, <2>4 DEF Committed, Scored, Finished
  <2> QED
    BY <1>1, <2>2, <2>3, <2>4, SightMoves DEF SnapMoves
<1>3. ASSUME NEW u \in Update, pc'[u] = "show", ~seen'[u].owned
      PROVE  Sees(u)'
  <2>1. u \in Proc /\ snap'[u] = snap[u]
    BY <1>1, <1>3, SightMoves, Names DEF ShowMoves
  <2>2. CASE pc[u] = "show" /\ seen'[u] = seen[u]
    <3>1. Sees(u)
      BY <1>3, <2>2 DEF SightInv
    <3> QED
      BY <1>1, <2>1, <2>2, <3>1 DEF Sees, Finished
  <2>3. ASSUME NEW target, FinishAttempt(u, target), UNCHANGED row
        PROVE  Sees(u)'
    <3>1. /\ seen'[u].score = Stored(snap[u].row)
          /\ Finished(snap[u].row) \/ Finished(row)
      BY <1>1, <1>3, <2>1, <2>3
         DEF FinishAttempt, AlreadyFinished, WinFinalize, LoseFinalize, TypeOK
    <3>2. Scored(snap[u].row) /\ (Finished(snap[u].row) => snap[u].row = row)
      BY <2>1 DEF SightInv
    <3>3. Stored(snap[u].row) = IF Finished(snap[u].row) THEN row.score ELSE 0
      BY <3>2 DEF Stored, Scored
    <3> QED
      BY <2>1, <2>3, <3>1, <3>2, <3>3 DEF Sees, Finished
  <2> QED
    BY <1>1, <1>3, <2>2, <2>3, SightMoves DEF ShowMoves
<1>4. \A m : Found(m) => Found(m)'
  BY <1>1 DEF Found, Finished
<1>5. \A i \in DOMAIN sent' : Found(sent[i])'
  <2>1. CASE sent' = sent
    BY <1>4, <2>1 DEF SightInv, Found
  <2>2. ASSUME NEW m \in Message, sent' = Append(sent, m), row' = row,
               m.kind = "result" /\ m.by \in Update =>
                   /\ pc[m.by] = "show"
                   /\ m.score = seen[m.by].score /\ m.owned = seen[m.by].owned
        PROVE  \A i \in DOMAIN sent' : Found(sent[i])'
    <3>1. Found(m)
      BY <2>2 DEF Found, SightInv, Sees
    <3>2. Found(m)'
      BY <1>4, <3>1
    <3> QED
      BY <1>1, <1>4, <2>2, <3>2, Appended DEF SightInv, Found
  <2> QED
    BY <1>1, <2>1, <2>2, ResultSent
<1> QED
  BY <1>1, <1>2, <1>3, <1>5 DEF SightInv

\* In every reachable state a snapshot that shows the attempt finished shows the
\* row as it is, and who did not own the finalization shows that score, or 0.
THEOREM SightInvariance == Spec => []SightInv
<1>1. Init => SightInv
  BY Names DEF Init, SightInv, NoSnapshot, OpenRow, Scored, Finished, Null
<1> QED
  BY <1>1, SightStep, ScoreInvariance, PTL DEF Spec

\* Whoever shows a result shows the score the row keeps, computed by the owner
\* before its commit (on_finish_confirmed) or read from a finished row, unless
\* something failed or the tap lost the race: then it shows 0.
THEOREM ShownResultCorrect == Spec => []ShownResultIsStored
<1>1. ASSUME ScoreInv, SightInv PROVE ShownResultIsStored
  <2>1. ASSUME NEW i \in DOMAIN sent, sent[i].kind = "result", sent[i].by \in Update
        PROVE  IF sent[i].owned
               THEN pc[sent[i].by] = "done" /\ spent.faults = 0 /\ spent.crashes = 0
                       => row.status = "submitted" /\ sent[i].score = row.score
               ELSE Finished(row) /\ sent[i].score \in {0, row.score}
    <3>1. ShownTruly(sent[i]) /\ Found(sent[i])
      BY <1>1 DEF ScoreInv, SightInv
    <3> QED
      BY <1>1, <2>1, <3>1 DEF ShownTruly, Found, ScoreInv, TypeOK
  <2> QED
    BY <1>1, <2>1 DEF ShownResultIsStored, SightInv, Sees
<1> QED
  BY <1>1, ScoreInvariance, SightInvariance, PTL

-----------------------------------------------------------------------------
(* The contract: every step of the system is one of its steps, or none. *)

TellsNothing == UNCHANGED <<{s \in Slot : Warned(s)}, TimeUpSent>>

LEMMA ContractStill ==
    ASSUME UNCHANGED <<row, ans>>, TellsNothing
    PROVE  UNCHANGED Contract!vars
BY DEF TellsNothing, Contract!vars, Warned, TimeUpSent

LEMMA ContractCommit ==
    ASSUME ScoreInv, TypeOK', NEW p \in Proc, Commit(p)
    PROVE  [Contract!Next]_(Contract!vars)
<1>1. /\ row' = IF lock[p] = "X" THEN mine[p] ELSE row
      /\ ans' = [q \in Position |-> IF put[p][q] # "none" THEN put[p][q] ELSE ans[q]]
      /\ sent' = sent
  BY DEF Commit
<1>2. TypeOK /\ RowDiscipline /\ SoundTxn(p)
  BY DEF ScoreInv
<1>3. TellsNothing
  BY <1>1 DEF TellsNothing, Warned, TimeUpSent
<1>4. \/ row'.status = row.status /\ row'.score = row.score /\ row'.warned = row.warned
      \/ ~WritesAnswer(p) /\ ~Finished(row) /\ row' = mine[p] /\ (Claims(p) \/ Finalizes(p))
  BY <1>1, <1>2 DEF SoundTxn, SameFacts
<1>5. ~WritesAnswer(p) => ans' = ans
  BY <1>1, <1>2 DEF WritesAnswer, TypeOK, Answers
<1>6. CASE row'.status = row.status /\ row'.score = row.score /\ row'.warned = row.warned
  <2>1. CASE WritesAnswer(p)
    <3>1. PICK q \in Position : \A r \in Position \ {q} : put[p][r] = "none"
      BY <1>2 DEF SoundTxn
    <3>2. put[p][q] # "none" /\ row.status = "in_progress"
      BY <1>2, <2>1, <3>1 DEF WritesAnswer, RowDiscipline, Finished
    <3>3. put[p][q] \in {"right", "wrong"}
      BY <1>2, <3>2 DEF TypeOK, Answers
    <3>4. ans' = [ans EXCEPT ![q] = put[p][q]]
      BY <1>1, <1>2, <3>1, <3>2 DEF TypeOK, Answers
    <3>5. Contract!StoreAnswer
      BY <1>3, <1>6, <3>2, <3>3, <3>4
         DEF Contract!StoreAnswer, Contract!Open, Contract!Position, Position,
             TellsNothing, Warned, TimeUpSent
    <3> QED
      BY <3>5 DEF Contract!Next
  <2>2. CASE ~WritesAnswer(p)
    BY <1>3, <1>5, <1>6, <2>2 DEF Contract!vars, TellsNothing, Warned, TimeUpSent
  <2> QED
    BY <2>1, <2>2
<1>7. CASE /\ ~WritesAnswer(p) /\ ~Finished(row) /\ row' = mine[p]
           /\ Claims(p) \/ Finalizes(p)
  <2>1. ans' = ans /\ row.status = "in_progress"
    BY <1>5, <1>7 DEF Finished
  <2>2. CASE Claims(p)
    <3>1. Contract!ClaimWarning
      BY <1>3, <1>7, <2>1, <2>2
         DEF Claims, Contract!ClaimWarning, Contract!Open, TellsNothing, Warned, TimeUpSent
    <3> QED
      BY <3>1 DEF Contract!Next
  <2>3. CASE Finalizes(p)
    <3>1. row'.score \in 0..N
      BY <1>7, <2>3, RightCountType, PositionsAssumption DEF Finalizes, Position
    <3>2. Contract!Finalize
      BY <1>3, <1>7, <2>1, <2>3, <3>1
         DEF Finalizes, Contract!Finalize, Contract!Open, TellsNothing, Warned, TimeUpSent
    <3> QED
      BY <3>2 DEF Contract!Next
  <2> QED
    BY <1>7, <2>2, <2>3
<1> QED
  BY <1>4, <1>6, <1>7

\* A message that goes out: of which kind, and by which step.
LEMMA ContractLogs ==
    ASSUME TypeOK, [Next]_vars
    PROVE  \/ sent' = sent
           \/ \E s \in Slot : SendWarning(s)
           \/ \E p \in Expirer : SendTimeUp(p)
           \/ /\ UNCHANGED <<row, ans>>
              /\ \E m \in Message : m.kind = "result" /\ sent' = Append(sent, m)
<1>1. ASSUME NEW u \in Update, HandleUpdate(u)
      PROVE  \/ sent' = sent
             \/ ShowResult(u)
  BY <1>1 DEF HandleUpdate, SubmitAnswer, StartNav, SetCurrentPosition,
     KeepPosition, DeadlockVictim, OpenFinished, OpenRunning, FinishTap,
     BanTap, CommitUpdate, Commit
<1>2. ASSUME NEW p \in Proc, ShowResult(p) \/ SendResult(p)
      PROVE  /\ UNCHANGED <<row, ans>>
             /\ \E m \in Message : m.kind = "result" /\ sent' = Append(sent, m)
  <2> DEFINE n == [kind |-> "result", score |-> seen[p].score, by |-> p,
                   owned |-> seen[p].owned]
  <2>1. sent' = Append(sent, n) /\ UNCHANGED <<row, ans>>
    BY <1>2 DEF ShowResult, SendResult, db
  <2>2. n \in Message /\ n.kind = "result"
    BY MessageTypes DEF TypeOK
  <2> QED
    BY <2>1, <2>2
<1>3. ASSUME NEW s \in Slot, Warn(s)
      PROVE  sent' = sent \/ SendWarning(s)
  BY <1>3 DEF Warn, ClaimWarning, SkipWarning, CommitWarning, Commit
<1>4. ASSUME NEW p \in Expirer, Expire(p)
      PROVE  sent' = sent \/ SendTimeUp(p) \/ SendResult(p)
  BY <1>4 DEF Expire, ReadAttempt, ExpireAttempt, CommitExpire, Commit
<1>5. Fault => sent' = sent
  BY DEF Fault, Rollback, LoseMessage, LoseJob, RestoreJob, FlushJobstore, Crash
<1>6. ASSUME \/ \E u \in Update, r \in Request : Begin(u, r)
             \/ \E j \in TimerJob : Fire(j) \/ Misfire(j)
             \/ FireSweep \/ Boot \/ Tick \/ UNCHANGED vars
      PROVE  sent' = sent
  BY <1>6 DEF Begin, Fire, Misfire, FireSweep, Boot, Restart, ListInProgress,
     Reconcile, AcceptUpdates, Tick, vars
<1> QED
  BY <1>1, <1>2, <1>3, <1>4, <1>5, <1>6, Names DEF Next, Quiet

LEMMA ContractWarning ==
    ASSUME TypeOK, WarningDiscipline, NEW s \in Slot, SendWarning(s)
    PROVE  Contract!DeliverWarning
<1>1. PICK m \in Message : m = [kind |-> "warning", slot |-> s]
  BY MessageTypes
<1>2. UNCHANGED <<row, ans>> /\ sent' = Append(sent, m) /\ pc[s] = "send"
  BY <1>1 DEF SendWarning, db
<1>3. s \in row.warned /\ ~Warned(s)
  BY <1>2 DEF WarningDiscipline
<1>4. m.kind = "warning" /\ m.slot = s
  BY <1>1
<1>5. \A t \in Slot : Warned(t)' <=> Warned(t) \/ t = s
  <2> TAKE t \in Slot
  <2>1. [kind |-> "warning", slot |-> t] = m <=> t = s
    BY <1>1
  <2> QED
    BY <1>2, <2>1, Appended DEF Warned
<1>6. TimeUpSent' <=> TimeUpSent
  BY <1>2, <1>4, Appended DEF TimeUpSent
<1>7. {t \in Slot : Warned(t)}' = {t \in Slot : Warned(t)} \cup {s}
  BY <1>5
<1> QED
  BY <1>2, <1>3, <1>6, <1>7 DEF Contract!DeliverWarning, Warned, TimeUpSent

LEMMA ContractTimeUp ==
    ASSUME TypeOK, ExpiryDiscipline, NEW p \in Expirer, SendTimeUp(p)
    PROVE  Contract!NoticeTimeUp
<1>1. PICK m \in Message : m = [kind |-> "timeup"]
  BY MessageTypes
<1>2. UNCHANGED <<row, ans>> /\ sent' = Append(sent, m) /\ pc[p] = "send" /\ m.kind = "timeup"
  BY <1>1 DEF SendTimeUp, db
<1>3. row.status = "expired" /\ ~TimeUpSent
  BY <1>2 DEF ExpiryDiscipline
<1>4. TimeUpSent'
  BY <1>2, Appended DEF TimeUpSent
<1>5. \A t \in Slot : Warned(t)' <=> Warned(t)
  <2> TAKE t \in Slot
  <2>1. [kind |-> "warning", slot |-> t].kind = "warning"
    OBVIOUS
  <2> QED
    BY <1>2, <2>1, Appended DEF Warned
<1>6. {t \in Slot : Warned(t)}' = {t \in Slot : Warned(t)}
  BY <1>5
<1> QED
  BY <1>2, <1>3, <1>4, <1>6 DEF Contract!NoticeTimeUp, Warned, TimeUpSent

LEMMA ContractStep ==
    ASSUME ScoreInv, TypeOK', WarningDiscipline, ExpiryDiscipline, [Next]_vars
    PROVE  [Contract!Next]_(Contract!vars)
<1>0. TypeOK
  BY DEF ScoreInv
<1>1. CASE \E p \in Proc : Commit(p)
  BY <1>1, ContractCommit
<1>2. CASE UNCHANGED <<row, ans>> /\ sent' = sent
  BY <1>2, ContractStill DEF TellsNothing, Warned, TimeUpSent
<1>3. CASE \E s \in Slot : SendWarning(s)
  BY <1>0, <1>3, ContractWarning DEF Contract!Next
<1>4. CASE \E p \in Expirer : SendTimeUp(p)
  BY <1>0, <1>4, ContractTimeUp DEF Contract!Next
<1>5. ASSUME NEW m \in Message, m.kind = "result", sent' = Append(sent, m),
             UNCHANGED <<row, ans>>
      PROVE  UNCHANGED Contract!vars
  <2>1. \A t \in Slot : Warned(t)' <=> Warned(t)
    <3> TAKE t \in Slot
    <3>1. [kind |-> "warning", slot |-> t].kind = "warning"
      OBVIOUS
    <3> QED
      BY <1>0, <1>5, <3>1, Appended DEF Warned
  <2>2. TimeUpSent' <=> TimeUpSent
    BY <1>0, <1>5, Appended DEF TimeUpSent
  <2>3. TellsNothing
    BY <2>1, <2>2 DEF TellsNothing, TimeUpSent
  <2> QED
    BY <1>5, <2>3, ContractStill
<1> QED
  BY <1>0, <1>1, <1>2, <1>3, <1>4, <1>5, ContractLogs, OnlyCommitWrites

\* The attempt keeps the contract of AttemptContract: whatever interleaves,
\* fails or restarts, what the database shows and the student is told changes
\* only by the steps that contract allows.
THEOREM ContractKept == Spec => KeepsContract
<1>1. Init => Contract!Init
  BY DEF Init, Contract!Init, OpenRow, NoAnswers, Contract!Position, Position
<1>2. ScoreInv /\ TypeOK' /\ WarningDiscipline /\ ExpiryDiscipline /\ [Next]_vars
        => [Contract!Next]_(Contract!vars)
  BY ContractStep
<1> QED
  BY <1>1, <1>2, ScoreInvariance, TypeCorrect, WarningsAreClaimed, ExpiryIsOwned, PTL
     DEF Spec, KeepsContract, Contract!Spec
=============================================================================
