------------------------ MODULE BroadcastRunner_proofs ------------------------
(***************************************************************************)
(* Theorems about BroadcastRunner, for any number of students, batch size, *)
(* broadcasts, messages, taps, and bounds.                                 *)
(***************************************************************************)
EXTENDS BroadcastRunner, FiniteSetTheorems, WellFoundedInduction, TLAPS

RowRec == [status : {"absent", "in_progress", "completed"}, msg : Nat,
           cursor : 0..MaxUsers, sent : Nat, blocked : Nat, errors : Nat]
RunRec == [pc : {"off", "ready", "batch", "report", "dead"}, batch : SUBSET User,
           cursor : 0..MaxUsers, sent : Nat, blocked : Nat, errors : Nat,
           flags : SUBSET User]
TapRec == [pc : {"idle", "data", "clear", "create", "spawn"}, msg : Nat]
NoticeRec == [pc : {"off", "send"}, left : SUBSET User, refused : SUBSET User,
              flags : SUBSET User]

Typed ==
    /\ approved \subseteq User /\ flagged \subseteq User /\ blocking \subseteq User
    /\ fsm \in [step : {"none", "compose", "confirm"}, msg : Nat]
    /\ tap \in [Tap -> TapRec]
    /\ row \in [Broadcast -> RowRec] /\ run \in [Broadcast -> RunRec]
    /\ notice \in NoticeRec /\ notice.flags \subseteq notice.refused
    /\ up \in BOOLEAN
    /\ composed \in 0..MaxMessages
    /\ copies \in [Broadcast -> [User -> Nat]]
    /\ handled \in [Broadcast -> SUBSET User] /\ steady \in [Broadcast -> SUBSET User]
    /\ interrupted \in [Broadcast -> Nat] /\ reports \in [Broadcast -> Nat]

-----------------------------------------------------------------------------
(* What holds of one broadcast b. *)

\* The students of the batch under way that had their message.
Given(b) == IF run[b].pc = "batch" THEN {u \in run[b].batch : u <= run[b].cursor} ELSE {}

\* A runner is there for a row in progress, and reports a completed one.
Placed(b) ==
    /\ row[b].status = "absent" =>
          /\ row[b] = NoRow /\ run[b].pc = "off" /\ handled[b] = {}
          /\ \A u \in User : copies[b][u] = 0
    /\ run[b].pc \in {"ready", "batch", "dead"} => row[b].status = "in_progress"
    /\ run[b].pc = "report" => row[b].status = "completed"
    /\ run[b].flags \subseteq run[b].batch
    /\ reports[b] + (IF run[b].pc = "report" THEN 1 ELSE 0)
         <= IF row[b].status = "completed" THEN 1 ELSE 0

\* A batch goes up from the cursor and leaves out no steady recipient on its way.
BatchSound(b) ==
    run[b].pc = "batch" =>
        /\ Cardinality(run[b].batch) <= BatchSize
        /\ \A u \in run[b].batch : u > row[b].cursor
        /\ run[b].cursor \in {row[b].cursor} \cup run[b].batch
        /\ Counted(run[b]) = Counted(row[b]) + Cardinality(Given(b))
        /\ \A u \in steady[b] \ run[b].batch, v \in run[b].batch :
              u > row[b].cursor => v < u

\* The committed batches, and who was to be in them.
Handled(b) ==
    /\ Counted(row[b]) = Cardinality(handled[b])
    /\ \A u \in handled[b] : u <= row[b].cursor
    /\ steady[b] \subseteq approved
    /\ \A u \in steady[b] :
          u \in flagged \/ u <= row[b].cursor \/ row[b].status = "completed"
              => u \in handled[b]

\* The students who got more copies than one, or will if the next batch reaches
\* them: their copy was sent in a batch that was lost.
Extra(b) == {u \in User :
    \/ copies[b][u] > 1
    \/ copies[b][u] = 1 /\ u > row[b].cursor /\ u \notin Given(b)}

Resent(b) ==
    /\ \A u \in User :
          copies[b][u] <= interrupted[b] +
              (IF u <= row[b].cursor \/ u \in Given(b) THEN 1 ELSE 0)
    /\ Cardinality(Extra(b)) <= BatchSize * interrupted[b]

Sound(b) == Placed(b) /\ BatchSound(b) /\ Handled(b) /\ Resent(b)

-----------------------------------------------------------------------------
(* What holds of the flow and of the taps. *)

\* Nothing runs in a process that is down.
Down == ~up => /\ \A b \in Broadcast : run[b].pc = "off"
               /\ \A k \in Tap : tap[k].pc = "idle"

\* A tap that spawns the runner of a row is the only one, and there is no other
\* runner; messages are numbered as they are composed.
Taps ==
    /\ fsm.msg <= composed /\ (fsm.step = "compose" => composed < MaxMessages)
    /\ \A b \in Broadcast : row[b].msg <= composed
    /\ \A k \in Tap :
          /\ tap[k].pc \in {"clear", "create"} => tap[k].msg <= composed
          /\ tap[k].pc = "create" => tap[k].msg # None
          /\ tap[k].pc = "spawn" =>
                /\ tap[k].msg \in Broadcast
                /\ row[tap[k].msg].status = "in_progress" /\ run[tap[k].msg].pc = "off"
    /\ \A k, o \in Tap :
          tap[k].pc = "spawn" /\ tap[o].pc = "spawn" /\ tap[k].msg = tap[o].msg => k = o

Pending(k, m) == tap[k].pc \in {"clear", "create"} /\ tap[k].msg = m

\* A message that no two taps have read before one cleared it is in one place:
\* the flow, where one tap may have read it; a tap; or a row.
OnePlace(m) ==
    /\ \A k, o \in Tap : Pending(k, m) /\ Pending(o, m) => k = o
    /\ \A k \in Tap : tap[k].pc = "create" /\ tap[k].msg = m => fsm.msg # m
    /\ \A b, c \in Broadcast : row[b].msg = m /\ row[c].msg = m => b = c
    /\ \A b \in Broadcast : row[b].msg = m =>
          fsm.msg # m /\ \A k \in Tap : ~Pending(k, m)

\* The inductive invariant.
IInv ==
    /\ Typed
    /\ \A b \in Broadcast : Sound(b)
    /\ Down /\ Taps
    /\ \A m \in 1..MaxMessages : m \notin overlapped => OnePlace(m)

-----------------------------------------------------------------------------
(* Lemmas about sets of students. *)

LEMMA LeastIsLeast ==
    ASSUME NEW T \in SUBSET Nat, T # {}
    PROVE  Least(T) \in T /\ \A v \in T : Least(T) <= v
<1> DEFINE R == OpToRel(<, Nat)
<1>1. IsWellFoundedOn(R, Nat)
  BY NatLessThanWellFounded
<1>2. \A x, y \in Nat : x < y => <<x, y>> \in R
  BY DEF OpToRel
<1> HIDE DEF R
<1>3. PICK x \in T : \A y \in T : ~(<<y, x>> \in R)
  BY <1>1, WFMin
<1>4. \A y \in T : x \in Nat /\ y \in Nat /\ ~(y < x)
  BY <1>2, <1>3
<1>5. \A y \in T : x <= y
  BY <1>4
<1> QED
  BY <1>5 DEF Least

LEMMA Students ==
    ASSUME NEW S \in SUBSET User
    PROVE  /\ IsFiniteSet(S) /\ Cardinality(S) \in Nat
           /\ \A T \in SUBSET S : Cardinality(T) <= Cardinality(S)
           /\ S \subseteq Nat
<1>1. IsFiniteSet(User)
  BY SizesAssumption, FS_Interval DEF User
<1>2. IsFiniteSet(S)
  BY <1>1, FS_Subset
<1>3. Cardinality(S) \in Nat
  BY <1>2, FS_CardinalityType
<1>4. \A T \in SUBSET S : Cardinality(T) <= Cardinality(S)
  BY <1>2, FS_Subset
<1> QED
  BY <1>2, <1>3, <1>4, SizesAssumption DEF User

\* Two sets of students with nobody in common.
LEMMA Together ==
    ASSUME NEW S \in SUBSET User, NEW T \in SUBSET User, S \cap T = {}
    PROVE  Cardinality(S \cup T) = Cardinality(S) + Cardinality(T)
<1>1. /\ IsFiniteSet(S) /\ IsFiniteSet(T)
      /\ Cardinality(S) \in Nat /\ Cardinality(T) \in Nat
  BY Students
<1>2. Cardinality({}) = 0
  BY FS_EmptySet
<1>3. Cardinality(S \cup T) = Cardinality(S) + Cardinality(T) - Cardinality(S \cap T)
  BY <1>1, FS_Union
<1>4. S \cap T = {}
  OBVIOUS
<1>5. Cardinality(S \cap T) = 0
  BY <1>2, <1>4
<1> QED
  BY <1>1, <1>3, <1>5

-----------------------------------------------------------------------------

LEMMA InitIInv == ASSUME Init PROVE IInv
<1> USE SizesAssumption
<1>1. PICK old \in 0..MaxBroadcasts :
         row = [b \in Broadcast |-> IF b <= old THEN Completed ELSE NoRow]
  BY DEF Init
<1>2. /\ Completed \in RowRec /\ NoRow \in RowRec /\ Off \in RunRec
      /\ NoTap \in TapRec /\ NoNotice \in NoticeRec
  BY DEF Completed, NoRow, Off, NoTap, NoNotice, RowRec, RunRec, TapRec, NoticeRec, None
<1>3. Typed
  <2>1. row \in [Broadcast -> RowRec]
    BY <1>1, <1>2
  <2>2. fsm \in [step : {"none", "compose", "confirm"}, msg : Nat]
    BY DEF Init, NoFlow, None
  <2>3. notice.flags \subseteq notice.refused
    BY DEF Init, NoNotice
  <2>4. copies \in [Broadcast -> [User -> Nat]]
    BY DEF Init
  <2> QED
    BY <1>2, <2>1, <2>2, <2>3, <2>4 DEF Init, Typed
<1>4. ASSUME NEW b \in Broadcast PROVE Sound(b)
  <2>1. /\ row[b] \in {NoRow, Completed} /\ run[b] = Off /\ handled[b] = {}
        /\ steady[b] = {} /\ interrupted[b] = 0 /\ reports[b] = 0
        /\ \A u \in User : copies[b][u] = 0
    BY <1>1 DEF Init
  <2>2. row[b].cursor = 0 /\ Counted(row[b]) = 0
    BY <2>1 DEF NoRow, Completed, Counted
  <2>3. Cardinality({}) = 0
    BY FS_EmptySet
  <2>4. Extra(b) = {}
    BY <2>1 DEF Extra
  <2>5. Placed(b) /\ BatchSound(b)
    BY <2>1 DEF Placed, BatchSound, Off, NoRow, Completed
  <2>6. Handled(b)
    BY <2>1, <2>2, <2>3 DEF Handled
  <2>7. Resent(b)
    BY <2>1, <2>3, <2>4 DEF Resent
  <2> QED
    BY <2>5, <2>6, <2>7 DEF Sound
<1>5. Down
  BY DEF Init, Down
<1>6. /\ \A b \in Broadcast : row[b].msg = None
      /\ \A k \in Tap : tap[k].pc = "idle"
      /\ fsm = NoFlow
  BY <1>1 DEF Init, NoRow, Completed, NoTap
<1>7. Taps
  BY <1>3, <1>6 DEF Taps, NoFlow, None, Typed
<1>8. \A m \in 1..MaxMessages : OnePlace(m)
  BY <1>6 DEF OnePlace, Pending, None
<1> QED
  BY <1>3, <1>4, <1>5, <1>7, <1>8 DEF IInv

-----------------------------------------------------------------------------
(* Steps that leave a broadcast alone. *)

\* Who is a steady recipient may become fewer.
Thins(b) ==
    /\ steady'[b] \subseteq steady[b] /\ steady'[b] \subseteq approved'
    /\ \A u \in steady'[b] : u \in flagged' => u \in handled[b]

LEMMA SoundKept ==
    ASSUME NEW b \in Broadcast, Sound(b), Thins(b),
           row'[b] = row[b], run'[b] = run[b], copies'[b] = copies[b],
           handled'[b] = handled[b], interrupted'[b] = interrupted[b],
           reports'[b] = reports[b]
    PROVE  Sound(b)'
<1>1. Given(b)' = Given(b) /\ Counted(run[b])' = Counted(run[b])
      /\ Counted(row[b])' = Counted(row[b])
  BY DEF Given, Counted
<1>2. Extra(b)' = Extra(b)
  BY <1>1 DEF Extra
<1>3. Placed(b)'
  BY DEF Sound, Placed
<1>4. BatchSound(b)'
  BY <1>1 DEF Sound, BatchSound, Thins
<1>5. Handled(b)'
  BY <1>1 DEF Sound, Handled, Thins
<1>6. Resent(b)'
  BY <1>1, <1>2 DEF Sound, Resent
<1> QED
  BY <1>3, <1>4, <1>5, <1>6 DEF Sound

LEMMA ThinsStill ==
    ASSUME IInv, UNCHANGED <<approved, flagged, steady>>
    PROVE  \A b \in Broadcast : Thins(b)
BY DEF IInv, Sound, Handled, Thins

\* Nobody but students, the notice and histories change.
LEMMA StudentsKeep ==
    ASSUME IInv, Typed', \A b \in Broadcast : Thins(b),
           UNCHANGED <<flow, row, run, up, composed, overlapped, copies, handled,
                       interrupted, reports>>
    PROVE  IInv'
<1>1. \A b \in Broadcast : Sound(b)'
  BY SoundKept DEF IInv
<1>2. Down' /\ Taps'
  BY DEF IInv, Down, Taps, flow
<1>3. \A m \in 1..MaxMessages : (m \notin overlapped)' => OnePlace(m)'
  BY DEF IInv, OnePlace, Pending, flow
<1> QED
  BY <1>1, <1>2, <1>3 DEF IInv

LEMMA StudentKeeps == ASSUME IInv, NEW u \in User, Student(u) PROVE IInv'
<1> USE DEF KeepHistory
<1>1. UNCHANGED <<flow, row, run, notice, up, composed, overlapped, copies, handled,
                  interrupted, reports>>
  BY DEF Student
<1>2. \A b \in Broadcast : Thins(b)
  <2>1. CASE Approve(u) \/ Block(u) \/ Unblock(u)
    BY <2>1 DEF Approve, Block, Unblock, Thins, IInv, Sound, Handled
  <2>2. CASE Leave(u)
    BY <2>2 DEF Leave, Unsteady, Thins, IInv, Sound, Handled
  <2>3. CASE ClearBlocked(u)
    BY <2>3 DEF ClearBlocked, Thins, IInv, Sound, Handled
  <2> QED
    BY <2>1, <2>2, <2>3 DEF Student
<1>3. steady' \in [Broadcast -> SUBSET User]
  BY DEF Student, Approve, Leave, Block, Unblock, ClearBlocked, Unsteady, IInv, Typed
<1>4. approved' \subseteq User /\ flagged' \subseteq User /\ blocking' \subseteq User
  BY DEF Student, Approve, Leave, Block, Unblock, ClearBlocked, IInv, Typed
<1>5. Typed'
  BY <1>1, <1>3, <1>4 DEF IInv, Typed, flow
<1> QED
  BY <1>1, <1>2, <1>5, StudentsKeep

LEMMA NoticeKeeps == ASSUME IInv, Notify PROVE IInv'
<1> USE SizesAssumption
<1>1. UNCHANGED <<approved, blocking, flow, row, run, up, composed, copies, handled,
                  interrupted, overlapped, reports>>
  BY DEF Notify, StartNotice, SendNotice, FlagRefused, EndNotice, NoticeFails,
         students, history
<1>2. /\ notice \in NoticeRec /\ notice.flags \subseteq notice.refused
      /\ Recipients \subseteq User
  BY DEF IInv, Typed, Recipients
<1>3. /\ \A b \in Broadcast : Thins(b)
      /\ flagged' \subseteq User /\ steady' \in [Broadcast -> SUBSET User]
      /\ notice' \in NoticeRec /\ notice'.flags \subseteq notice'.refused
  <2>1. CASE StartNotice
    <3>1. notice' \in NoticeRec /\ notice'.flags \subseteq notice'.refused
      BY <1>2, <2>1 DEF StartNotice, NoNotice, NoticeRec
    <3>2. UNCHANGED <<approved, flagged, steady>>
      BY <2>1 DEF StartNotice, students
    <3>3. \A b \in Broadcast : Thins(b)
      BY <3>2, ThinsStill
    <3> QED
      BY <3>1, <3>2, <3>3 DEF IInv, Typed
  <2>2. ASSUME NEW u \in User, SendNotice(u)
        PROVE  /\ UNCHANGED <<approved, flagged, steady>>
               /\ notice' \in NoticeRec /\ notice'.flags \subseteq notice'.refused
    <3> DEFINE rest == notice.left \ {u}
               gone == IF u \in blocking THEN notice.refused \cup {u} ELSE notice.refused
    <3>1. notice' = [notice EXCEPT !.left = rest, !.refused = gone]
      BY <1>2, <2>2 DEF SendNotice, NoticeRec
    <3>2. /\ rest \in SUBSET User /\ gone \in SUBSET User
          /\ notice.flags \subseteq gone
      BY <1>2 DEF NoticeRec
    <3> HIDE DEF rest, gone
    <3>3. notice' \in NoticeRec /\ notice'.flags \subseteq notice'.refused
      BY <1>2, <3>1, <3>2 DEF NoticeRec
    <3> QED
      BY <2>2, <3>3 DEF SendNotice, students, history
  <2>3. CASE FlagRefused
    <3>1. PICK v \in User : v \in notice.refused
                            /\ notice' = [notice EXCEPT !.flags = @ \cup {v}]
      <4>1. /\ notice.refused \ notice.flags \in SUBSET Nat
            /\ notice.refused \ notice.flags # {}
        BY <1>2, <2>3, Students DEF FlagRefused, NoticeRec
      <4>2. Least(notice.refused \ notice.flags) \in notice.refused
        BY <4>1, LeastIsLeast
      <4> QED
        BY <1>2, <2>3, <4>2 DEF FlagRefused, NoticeRec
    <3>2. notice' \in NoticeRec /\ notice'.flags \subseteq notice'.refused
      BY <1>2, <3>1 DEF NoticeRec
    <3>3. UNCHANGED <<approved, flagged, steady>>
      BY <2>3 DEF FlagRefused, students, history
    <3> QED
      BY <3>2, <3>3, ThinsStill DEF IInv, Typed
  <2>4. CASE EndNotice
    <3>1. /\ flagged' = flagged \cup notice.flags /\ notice' = NoNotice
          /\ \A b \in Broadcast : steady'[b] = steady[b] \ notice.flags
          /\ approved' = approved
      BY <2>4 DEF EndNotice, Unsteady
    <3>2. \A b \in Broadcast : Thins(b)
      BY <3>1 DEF Thins, IInv, Sound, Handled
    <3>3. steady' \in [Broadcast -> SUBSET User]
      BY <2>4 DEF EndNotice, Unsteady, IInv, Typed
    <3>4. flagged' \subseteq User
      BY <1>2, <3>1 DEF NoticeRec, IInv, Typed
    <3> QED
      BY <3>1, <3>2, <3>3, <3>4 DEF NoNotice, NoticeRec
  <2>5. CASE NoticeFails
    <3>1. notice' = NoNotice /\ UNCHANGED <<approved, flagged, steady>>
      BY <2>5 DEF NoticeFails, students
    <3> QED
      BY <3>1, ThinsStill DEF NoNotice, NoticeRec, IInv, Typed
  <2> QED
    BY <2>1, <2>2, <2>3, <2>4, <2>5, ThinsStill DEF Notify, IInv, Typed
<1>4. Typed'
  BY <1>1, <1>3 DEF IInv, Typed, flow
<1> QED
  BY <1>1, <1>3, <1>4, StudentsKeep

-----------------------------------------------------------------------------
(* Composing and confirming. *)

\* Steps of the flow and of taps that make no row.
LEMMA FlowKeeps ==
    ASSUME IInv, UNCHANGED <<students, row, run, notice, up, copies, handled, steady,
                             interrupted, reports>>,
           fsm' \in [step : {"none", "compose", "confirm"}, msg : Nat],
           tap' \in [Tap -> TapRec], composed' \in 0..MaxMessages,
           Down', Taps',
           \A m \in 1..MaxMessages : m \notin overlapped' => OnePlace(m)'
    PROVE  IInv'
<1>1. \A b \in Broadcast : Sound(b)'
  BY ThinsStill, SoundKept DEF IInv, students
<1>2. Typed'
  BY DEF IInv, Typed, students
<1> QED
  BY <1>1, <1>2 DEF IInv

LEMMA ComposeKeeps == ASSUME IInv, Compose \/ CancelFlow PROVE IInv'
<1>1. /\ UNCHANGED <<students, tap, row, run, notice, up, history>>
      /\ fsm' \in [step : {"none", "compose", "confirm"}, msg : Nat]
      /\ fsm'.msg \in {fsm.msg, None}
      /\ fsm'.step = "compose" => composed < MaxMessages
  BY DEF Compose, CancelFlow, NoFlow, None, IInv, Typed
<1>2. Down' /\ Taps'
  BY <1>1, SizesAssumption DEF IInv, Typed, Down, Taps, history, None
<1>3. \A m \in 1..MaxMessages : m \notin overlapped' => OnePlace(m)'
  BY <1>1 DEF IInv, OnePlace, Pending, history, None
<1> QED
  BY <1>1, <1>2, <1>3, FlowKeeps DEF IInv, Typed, history

LEMMA AnnounceKeeps == ASSUME IInv, Announce PROVE IInv'
<1> USE SizesAssumption
<1>1. /\ UNCHANGED <<students, tap, row, run, notice, up, copies, handled, steady,
                     interrupted, overlapped, reports, changes, faults>>
      /\ composed \in 0..MaxMessages /\ composed < MaxMessages
      /\ \/ fsm' = NoFlow /\ composed' = composed
         \/ fsm' = [step |-> "confirm", msg |-> composed + 1] /\ composed' = composed + 1
  BY DEF Announce, IInv, Typed, Taps
<1>2. fsm' \in [step : {"none", "compose", "confirm"}, msg : Nat]
  BY <1>1 DEF NoFlow, None
<1>3. composed' \in 0..MaxMessages /\ composed <= composed' /\ fsm'.msg <= composed'
      /\ fsm'.step # "compose" /\ fsm'.msg \in {None, composed + 1}
  BY <1>1 DEF NoFlow, None
<1>4. Down' 
  BY <1>1 DEF IInv, Down
<1>5. \A b \in Broadcast : row[b].msg \in Nat /\ row[b].msg <= composed
  BY DEF IInv, Taps, Typed, RowRec
<1>6. \A k \in Tap : /\ tap[k].msg \in Nat
                     /\ tap[k].pc \in {"clear", "create"} => tap[k].msg <= composed
  BY DEF IInv, Taps, Typed, TapRec
<1>7. Taps'
  BY <1>1, <1>3, <1>5, <1>6 DEF IInv, Taps
<1>8. ASSUME NEW m \in 1..MaxMessages, m \notin overlapped' PROVE OnePlace(m)'
  <2>1. OnePlace(m)
    BY <1>1, <1>8 DEF IInv
  <2>2. fsm'.msg = m =>
          /\ \A b \in Broadcast : row[b].msg # m
          /\ \A k \in Tap : ~Pending(k, m)
    BY <1>1, <1>3, <1>5, <1>6 DEF Pending, None
  <2> QED
    BY <1>1, <2>1, <2>2 DEF OnePlace, Pending
<1> QED
  BY <1>1, <1>2, <1>3, <1>4, <1>7, <1>8, FlowKeeps DEF IInv, Typed

LEMMA TapConfirmKeeps == ASSUME IInv, NEW k \in Tap, TapConfirm(k) PROVE IInv'
<1>1. /\ UNCHANGED <<students, fsm, row, run, notice, up, history>>
      /\ up /\ tap' = [tap EXCEPT ![k] = [pc |-> "data", msg |-> None]]
  BY DEF TapConfirm, SetTap
<1>2. /\ tap' \in [Tap -> TapRec] /\ tap'[k].pc = "data"
      /\ \A o \in Tap : o # k => tap'[o] = tap[o]
  BY <1>1 DEF IInv, Typed, TapRec, None
<1>3. Down' /\ Taps'
  BY <1>1, <1>2 DEF IInv, Down, Taps, history
<1>4. \A m \in 1..MaxMessages : m \notin overlapped' => OnePlace(m)'
  BY <1>1, <1>2 DEF IInv, OnePlace, Pending, history
<1> QED
  BY <1>1, <1>2, <1>3, <1>4, FlowKeeps DEF IInv, Typed, history

LEMMA ReadDataKeeps == ASSUME IInv, NEW k \in Tap, ReadData(k) PROVE IInv'
<1>1. /\ UNCHANGED <<students, fsm, row, run, notice, up, composed, copies, handled,
                     steady, interrupted, reports, changes, faults>>
      /\ tap[k].pc = "data"
      /\ tap' = [tap EXCEPT ![k] = [pc |-> "clear", msg |-> fsm.msg]]
      /\ overlapped' = IF \E o \in Tap \ {k} : tap[o] = [pc |-> "clear", msg |-> fsm.msg]
                       THEN overlapped \cup {fsm.msg} ELSE overlapped
  BY DEF ReadData, SetTap
<1>2. /\ tap' \in [Tap -> TapRec] /\ tap'[k].pc = "clear" /\ tap'[k].msg = fsm.msg
      /\ \A o \in Tap : o # k => tap'[o] = tap[o]
  BY <1>1 DEF IInv, Typed, TapRec
<1>3. Down'
  BY <1>1 DEF IInv, Down
<1>4. Taps'
  BY <1>1, <1>2 DEF IInv, Taps
<1>5. ASSUME NEW m \in 1..MaxMessages, m \notin overlapped' PROVE OnePlace(m)'
  <2>1. OnePlace(m)
    BY <1>1, <1>5 DEF IInv
  <2>2. ASSUME NEW o \in Tap \ {k}, Pending(o, m) PROVE fsm.msg # m
    <3>1. CASE tap[o].pc = "create"
      BY <2>1, <2>2, <3>1 DEF OnePlace, Pending
    <3>2. CASE tap[o].pc = "clear"
      <4>1. tap[o] = [pc |-> "clear", msg |-> m]
        BY <2>2, <3>2 DEF Pending, IInv, Typed, TapRec
      <4> QED
        BY <1>1, <1>5, <4>1
    <3> QED
      BY <2>2, <3>1, <3>2 DEF Pending
  <2>3. \A a, o \in Tap : Pending(a, m)' /\ Pending(o, m)' => a = o
    BY <1>2, <2>1, <2>2 DEF OnePlace, Pending
  <2>4. \A a \in Tap : (tap[a].pc = "create" /\ tap[a].msg = m => fsm.msg # m)'
    BY <1>1, <1>2, <2>1 DEF OnePlace
  <2>5. \A b \in Broadcast : row[b].msg = m =>
           fsm.msg # m /\ \A a \in Tap : ~Pending(a, m)'
    BY <1>2, <2>1 DEF OnePlace, Pending
  <2> QED
    BY <1>1, <2>1, <2>3, <2>4, <2>5 DEF OnePlace
<1> QED
  BY <1>1, <1>2, <1>3, <1>4, <1>5, FlowKeeps DEF IInv, Typed

LEMMA ClearStateKeeps == ASSUME IInv, NEW k \in Tap, ClearState(k) PROVE IInv'
<1>1. /\ UNCHANGED <<students, row, run, notice, up, history>>
      /\ tap[k].pc = "clear" /\ fsm' = NoFlow
      /\ tap' = [tap EXCEPT ![k] = [
            pc |-> IF tap[k].msg = None THEN "idle" ELSE "create", msg |-> tap[k].msg]]
  BY DEF ClearState, SetTap
<1>2. /\ tap' \in [Tap -> TapRec] /\ tap'[k].msg = tap[k].msg
      /\ tap'[k].pc = IF tap[k].msg = None THEN "idle" ELSE "create"
      /\ \A o \in Tap : o # k => tap'[o] = tap[o]
  BY <1>1 DEF IInv, Typed, TapRec
<1>3. fsm' \in [step : {"none", "compose", "confirm"}, msg : Nat] /\ fsm'.msg = None
      /\ fsm'.step = "none"
  BY <1>1 DEF NoFlow, None
<1>4. Down'
  BY <1>1 DEF IInv, Down
<1>5. Taps'
  BY <1>1, <1>2, <1>3, SizesAssumption DEF IInv, Typed, Taps, None, history
<1>6. ASSUME NEW m \in 1..MaxMessages, m \notin overlapped' PROVE OnePlace(m)'
  <2>1. OnePlace(m) /\ m # None
    BY <1>1, <1>6 DEF IInv, history, None
  <2>2. \A o \in Tap : Pending(o, m)' => Pending(o, m)
    BY <1>1, <1>2 DEF Pending
  <2> QED
    BY <1>1, <1>3, <2>1, <2>2 DEF OnePlace
<1> QED
  BY <1>1, <1>2, <1>3, <1>4, <1>5, <1>6, FlowKeeps DEF IInv, Typed, history

LEMMA CreateKeeps == ASSUME IInv, NEW k \in Tap, Create(k) PROVE IInv'
<1> USE SizesAssumption
<1>1. /\ tap[k].pc = "create" /\ tap[k] \in TapRec
      /\ UNCHANGED <<students, fsm, run, notice, up, composed, copies, handled,
                     interrupted, overlapped, reports, changes, faults>>
  BY DEF Create, IInv, Typed
<1>2. PICK b \in Broadcast :
         /\ row[b].status = "absent"
         /\ row' = [row EXCEPT ![b] = [NoRow EXCEPT
                        !.status = "in_progress", !.msg = tap[k].msg]]
         /\ steady' = [steady EXCEPT ![b] = Recipients]
         /\ tap' = [tap EXCEPT ![k] = [pc |-> "spawn", msg |-> b]]
  BY DEF Create, NextRow, SetTap
<1>3. PICK m0 \in Nat : m0 = tap[k].msg
  BY <1>1 DEF TapRec
<1>4. /\ row' \in [Broadcast -> RowRec]
      /\ row'[b].status = "in_progress" /\ row'[b].msg = m0 /\ row'[b].cursor = 0
      /\ Counted(row'[b]) = 0
      /\ \A c \in Broadcast : c # b => row'[c] = row[c]
  <2> DEFINE made == [NoRow EXCEPT !.status = "in_progress"]
             new == [made EXCEPT !.msg = m0]
  <2>1. /\ new \in RowRec /\ new.status = "in_progress" /\ new.msg = m0
        /\ new.cursor = 0 /\ Counted(new) = 0
    <3>1. made = [status |-> "in_progress", msg |-> 0, cursor |-> 0,
                  sent |-> 0, blocked |-> 0, errors |-> 0]
      BY DEF NoRow, None
    <3> HIDE DEF made
    <3>2. new = [status |-> "in_progress", msg |-> m0, cursor |-> 0,
                 sent |-> 0, blocked |-> 0, errors |-> 0]
      BY <3>1
    <3> HIDE DEF new
    <3> QED
      BY <3>2 DEF RowRec, Counted
  <2>2. row' = [row EXCEPT ![b] = new] /\ row \in [Broadcast -> RowRec]
    BY <1>2, <1>3 DEF IInv, Typed
  <2> HIDE DEF new
  <2> QED
    BY <2>1, <2>2
<1>5. /\ tap' \in [Tap -> TapRec] /\ tap'[k].pc = "spawn" /\ tap'[k].msg = b
      /\ \A o \in Tap : o # k => tap'[o] = tap[o]
  BY <1>2 DEF IInv, Typed, TapRec, Broadcast
<1>6. /\ Recipients \subseteq approved /\ Recipients \cap flagged = {}
      /\ steady' \in [Broadcast -> SUBSET User] /\ steady'[b] = Recipients
      /\ \A c \in Broadcast : c # b => steady'[c] = steady[c]
  BY <1>2 DEF IInv, Typed, Recipients
<1>7. /\ row[b] = NoRow /\ run[b].pc = "off" /\ handled[b] = {} /\ reports[b] = 0
      /\ \A u \in User : copies[b][u] = 0
      /\ interrupted[b] \in Nat /\ run[b].flags \subseteq run[b].batch
  <2>1. Placed(b) /\ interrupted[b] \in Nat /\ reports[b] \in Nat
    BY DEF IInv, Sound, Typed
  <2> QED
    BY <1>2, <2>1 DEF Placed
<1>8. Sound(b)'
  <2>1. Placed(b)'
    BY <1>1, <1>4, <1>7 DEF Placed
  <2>2. BatchSound(b)'
    BY <1>1, <1>7 DEF BatchSound
  <2>3. Handled(b)'
    <3>1. Cardinality(handled'[b]) = 0
      BY <1>1, <1>7, FS_EmptySet
    <3>2. \A u \in User : ~(u <= row'[b].cursor)
      BY <1>4 DEF User
    <3>3. Recipients \subseteq User
      BY DEF Recipients, IInv, Typed
    <3>4. /\ handled'[b] = {} /\ steady'[b] = Recipients
          /\ approved' = approved /\ flagged' = flagged
      BY <1>1, <1>6, <1>7 DEF students
    <3> QED
      BY <1>4, <1>6, <3>1, <3>2, <3>3, <3>4 DEF Handled
  <2>4. Resent(b)'
    <3>1. Extra(b) = {} /\ Extra(b)' = {}
      BY <1>1, <1>7 DEF Extra
    <3>2. Cardinality(Extra(b)) <= BatchSize * interrupted[b]
      BY DEF IInv, Sound, Resent
    <3> QED
      BY <1>1, <1>7, <3>1, <3>2 DEF Resent
  <2> QED
    BY <2>1, <2>2, <2>3, <2>4 DEF Sound
<1>9. ASSUME NEW c \in Broadcast, c # b PROVE Sound(c)'
  <2>1. Thins(c)
    BY <1>1, <1>6, <1>9 DEF Thins, IInv, Sound, Handled, students
  <2> QED
    BY <1>1, <1>4, <1>9, <2>1, SoundKept DEF IInv
<1>10. Typed'
  BY <1>1, <1>4, <1>5, <1>6 DEF IInv, Typed, students
<1>11. Down'
  BY <1>1 DEF IInv, Down
<1>12. Taps'
  <2>1. m0 # None /\ m0 <= composed
    BY <1>1, <1>3 DEF IInv, Taps
  <2>2. \A o \in Tap : tap[o].pc = "spawn" => tap[o].msg # b
    BY <1>2 DEF IInv, Taps
  <2> QED
    BY <1>1, <1>4, <1>5, <1>7, <2>1, <2>2 DEF IInv, Taps
<1>13. ASSUME NEW m \in 1..MaxMessages, m \notin overlapped' PROVE OnePlace(m)'
  <2>1. OnePlace(m) /\ m # None
    BY <1>1, <1>13 DEF IInv, None
  <2>2. Pending(k, m0) /\ ~Pending(k, m)' /\ \A o \in Tap : Pending(o, m)' => Pending(o, m)
    BY <1>1, <1>3, <1>5 DEF Pending
  <2>3. CASE m = m0
    <3>1. /\ fsm.msg # m /\ \A c \in Broadcast : row[c].msg # m
          /\ \A o \in Tap : Pending(o, m) => o = k
      BY <1>1, <1>3, <2>1, <2>2, <2>3 DEF OnePlace
    <3> QED
      BY <1>1, <1>4, <1>5, <2>2, <2>3, <3>1 DEF OnePlace
  <2>4. CASE m # m0
    BY <1>1, <1>4, <1>5, <2>1, <2>2, <2>4 DEF OnePlace
  <2> QED
    BY <2>3, <2>4
<1> QED
  BY <1>8, <1>9, <1>10, <1>11, <1>12, <1>13 DEF IInv

-----------------------------------------------------------------------------
(* Runs that start and end. *)

\* No batch before or after.
LEMMA RestKeeps ==
    ASSUME NEW b \in Broadcast, Sound(b), run[b].pc # "batch", run'[b].pc # "batch",
           UNCHANGED students, row'[b] = row[b], copies'[b] = copies[b],
           handled'[b] = handled[b], steady'[b] = steady[b],
           interrupted'[b] = interrupted[b], Placed(b)'
    PROVE  Sound(b)'
<1>1. Given(b) = {} /\ Given(b)' = {} /\ Counted(row[b])' = Counted(row[b])
  BY DEF Given, Counted
<1>2. Extra(b)' = Extra(b)
  BY <1>1 DEF Extra
<1> QED
  BY <1>1, <1>2 DEF Sound, BatchSound, Handled, Resent, students

LEMMA SpawnKeeps == ASSUME IInv, NEW k \in Tap, Spawn(k) PROVE IInv'
<1>1. /\ UNCHANGED <<students, fsm, row, notice, up, history>>
      /\ tap[k].pc = "spawn"
      /\ tap' = [tap EXCEPT ![k] = [pc |-> "idle", msg |-> None]]
  BY DEF Spawn, SetTap
<1>2. PICK b \in Broadcast : b = tap[k].msg
  BY <1>1 DEF IInv, Taps
<1>3. /\ row[b].status = "in_progress" /\ run[b].pc = "off"
      /\ run' = [run EXCEPT ![b] = [Off EXCEPT !.pc = "ready"]]
  BY <1>1, <1>2 DEF IInv, Taps, Spawn
<1>4. /\ run' \in [Broadcast -> RunRec] /\ run'[b] = [Off EXCEPT !.pc = "ready"]
      /\ \A c \in Broadcast : c # b => run'[c] = run[c]
  <2> DEFINE new == [Off EXCEPT !.pc = "ready"]
  <2>1. new \in RunRec
    BY SizesAssumption DEF Off, RunRec
  <2>2. run' = [run EXCEPT ![b] = new] /\ run \in [Broadcast -> RunRec]
    BY <1>3 DEF IInv, Typed
  <2> HIDE DEF new
  <2>3. run' \in [Broadcast -> RunRec] /\ run'[b] = new
        /\ \A c \in Broadcast : c # b => run'[c] = run[c]
    BY <2>1, <2>2
  <2> QED
    BY <2>3 DEF new
<1>5. run'[b].pc = "ready" /\ run'[b].flags = {} /\ run'[b].batch = {}
  BY <1>4 DEF Off
<1>6. /\ tap' \in [Tap -> TapRec] /\ tap'[k].pc = "idle"
      /\ \A o \in Tap : o # k => tap'[o] = tap[o]
  BY <1>1 DEF IInv, Typed, TapRec, None
<1>7. Sound(b)'
  <2>1. Placed(b)'
    BY <1>1, <1>3, <1>5 DEF IInv, Sound, Placed, history
  <2> QED
    BY <1>1, <1>3, <1>5, <2>1, RestKeeps DEF IInv, history
<1>8. ASSUME NEW c \in Broadcast, c # b PROVE Sound(c)'
  BY <1>1, <1>4, <1>8, ThinsStill, SoundKept DEF IInv, students, history
<1>9. Typed'
  BY <1>1, <1>4, <1>6 DEF IInv, Typed, students, history
<1>10. Down'
  BY <1>1 DEF IInv, Down
<1>11. Taps'
  BY <1>1, <1>2, <1>4, <1>6 DEF IInv, Taps, history
<1>12. \A m \in 1..MaxMessages : m \notin overlapped' => OnePlace(m)'
  BY <1>1, <1>6 DEF IInv, OnePlace, Pending, history
<1> QED
  BY <1>7, <1>8, <1>9, <1>10, <1>11, <1>12 DEF IInv

-----------------------------------------------------------------------------
(* The steps of a runner. *)

\* Nothing but the broadcast of the runner changes, and who is a recipient.
LEMMA RunnerKeeps ==
    ASSUME IInv, NEW b \in Broadcast, run[b].pc # "off", Typed', Sound(b)',
           row'[b].msg = row[b].msg,
           \A c \in Broadcast : c # b =>
               /\ row'[c] = row[c] /\ run'[c] = run[c] /\ copies'[c] = copies[c]
               /\ handled'[c] = handled[c] /\ interrupted'[c] = interrupted[c]
               /\ reports'[c] = reports[c] /\ Thins(c),
           UNCHANGED <<flow, up, composed, overlapped>>
    PROVE  IInv'
<1>1. \A c \in Broadcast : Sound(c)'
  BY SoundKept DEF IInv
<1>2. up /\ Down'
  BY DEF IInv, Typed, Down
<1>3. \A c \in Broadcast : row'[c].msg = row[c].msg
  OBVIOUS
<1>4. \A k \in Tap : tap[k].pc = "spawn" => tap[k].msg # b
  BY DEF IInv, Taps
<1>5. Taps'
  BY <1>3, <1>4 DEF IInv, Taps, flow
<1>6. \A m \in 1..MaxMessages : m \notin overlapped' => OnePlace(m)'
  BY <1>3 DEF IInv, OnePlace, Pending, flow
<1> QED
  BY <1>1, <1>2, <1>5, <1>6 DEF IInv

LEMMA StartBatchKeeps == ASSUME IInv, NEW b \in Broadcast, StartBatch(b) PROVE IInv'
<1> USE SizesAssumption
<1>1. /\ run[b].pc = "ready" /\ row[b].status = "in_progress"
      /\ UNCHANGED <<students, flow, row, notice, up, history>>
  BY DEF StartBatch
<1>2. PICK batch \in SUBSET User :
         /\ NextBatch(b, batch)
         /\ run' = [run EXCEPT ![b] =
                [pc |-> "batch", batch |-> batch, cursor |-> row[b].cursor,
                 sent |-> row[b].sent, blocked |-> row[b].blocked,
                 errors |-> row[b].errors, flags |-> {}]]
  BY DEF StartBatch
<1>3. /\ row[b] \in RowRec /\ run \in [Broadcast -> RunRec] /\ Sound(b)
      /\ steady[b] \subseteq User /\ approved \subseteq User
  BY DEF IInv, Typed
<1>4. /\ run' \in [Broadcast -> RunRec]
      /\ run'[b] = [pc |-> "batch", batch |-> batch, cursor |-> row[b].cursor,
                    sent |-> row[b].sent, blocked |-> row[b].blocked,
                    errors |-> row[b].errors, flags |-> {}]
      /\ \A c \in Broadcast : c # b => run'[c] = run[c]
  <2> DEFINE new == [pc |-> "batch", batch |-> batch, cursor |-> row[b].cursor,
                     sent |-> row[b].sent, blocked |-> row[b].blocked,
                     errors |-> row[b].errors, flags |-> {}]
  <2>1. new \in RunRec
    BY <1>3 DEF RowRec, RunRec
  <2> HIDE DEF new
  <2>2. run' = [run EXCEPT ![b] = new]
    BY <1>2 DEF new
  <2>3. /\ run' \in [Broadcast -> RunRec] /\ run'[b] = new
        /\ \A c \in Broadcast : c # b => run'[c] = run[c]
    BY <1>3, <2>1, <2>2
  <2> QED
    BY <2>3 DEF new
<1>5. /\ run'[b].pc = "batch" /\ run'[b].batch = batch
      /\ run'[b].cursor = row[b].cursor /\ run'[b].flags = {}
      /\ Counted(run'[b]) = Counted(row[b]) /\ Counted(row[b]) \in Nat
  BY <1>3, <1>4 DEF Counted, RowRec
<1>6. /\ \A u \in batch : u \in Recipients /\ u > row[b].cursor
      /\ \A u \in batch, v \in Recipients \ batch : v > row[b].cursor => u < v
      /\ Cardinality(batch) <= BatchSize
  <2> DEFINE after == {u \in Recipients : u > row[b].cursor}
  <2>1. /\ batch \subseteq after /\ \A u \in batch, v \in after \ batch : u < v
        /\ IF Cardinality(after) <= BatchSize THEN batch = after
           ELSE Cardinality(batch) = BatchSize
    BY <1>2 DEF NextBatch
  <2> QED
    BY <2>1
<1>7. \A u \in steady[b] \ batch, v \in batch : u > row[b].cursor => v < u
  <2>1. \A u \in steady[b] : u > row[b].cursor => u \in Recipients
    BY <1>3 DEF Sound, Handled, Recipients, User, RowRec
  <2> QED
    BY <1>6, <2>1
<1>8. Given(b) = {} /\ Given(b)' = {}
  BY <1>1, <1>3, <1>5, <1>6 DEF Given, RowRec, User
<1>9. Extra(b)' = Extra(b)
  BY <1>1, <1>8 DEF Extra, history
<1>10. Sound(b)'
  <2>1. Placed(b)'
    BY <1>1, <1>3, <1>5 DEF Sound, Placed, history
  <2>2. BatchSound(b)'
    <3>1. Cardinality(Given(b)') = 0
      BY <1>8, FS_EmptySet
    <3> QED
      BY <1>1, <1>5, <1>6, <1>7, <3>1 DEF BatchSound, history
  <2>3. Handled(b)'
    BY <1>1, <1>3 DEF Sound, Handled, history, students
  <2>4. Resent(b)'
    BY <1>1, <1>3, <1>8, <1>9 DEF Sound, Resent, history
  <2> QED
    BY <2>1, <2>2, <2>3, <2>4 DEF Sound
<1>11. Typed'
  BY <1>1, <1>4 DEF IInv, Typed, students, flow, history
<1>12. \A c \in Broadcast : Thins(c)
  BY <1>1, ThinsStill DEF students, history
<1> QED
  BY <1>1, <1>4, <1>10, <1>11, <1>12, RunnerKeeps DEF history

LEMMA CompleteKeeps == ASSUME IInv, NEW b \in Broadcast, Complete(b) PROVE IInv'
<1> USE SizesAssumption
<1>1. /\ run[b].pc = "ready" /\ row[b].status = "in_progress" /\ NextBatch(b, {})
      /\ row' = [row EXCEPT ![b].status = "completed"]
      /\ run' = [run EXCEPT ![b].pc = "report"]
      /\ UNCHANGED <<students, flow, notice, up, history>>
  BY DEF Complete
<1>2. /\ row \in [Broadcast -> RowRec] /\ run \in [Broadcast -> RunRec] /\ Sound(b)
      /\ steady[b] \subseteq User /\ approved \subseteq User
  BY DEF IInv, Typed
<1>3. /\ row' \in [Broadcast -> RowRec] /\ run' \in [Broadcast -> RunRec]
      /\ row'[b] = [row[b] EXCEPT !.status = "completed"]
      /\ run'[b] = [run[b] EXCEPT !.pc = "report"]
      /\ \A c \in Broadcast : c # b => row'[c] = row[c] /\ run'[c] = run[c]
  <2> DEFINE done == [row[b] EXCEPT !.status = "completed"]
             rest == [run[b] EXCEPT !.pc = "report"]
  <2>1. done \in RowRec /\ rest \in RunRec
    BY <1>2 DEF RowRec, RunRec
  <2>2. row' = [row EXCEPT ![b] = done] /\ run' = [run EXCEPT ![b] = rest]
    BY <1>1
  <2> HIDE DEF done, rest
  <2>3. /\ row' \in [Broadcast -> RowRec] /\ run' \in [Broadcast -> RunRec]
        /\ row'[b] = done /\ run'[b] = rest
        /\ \A c \in Broadcast : c # b => row'[c] = row[c] /\ run'[c] = run[c]
    BY <1>2, <2>1, <2>2
  <2> QED
    BY <2>3 DEF done, rest
<1>4. /\ row'[b].status = "completed" /\ row'[b].msg = row[b].msg
      /\ row'[b].cursor = row[b].cursor /\ Counted(row'[b]) = Counted(row[b])
      /\ run'[b].pc = "report" /\ run'[b].batch = run[b].batch
      /\ run'[b].flags = run[b].flags
  BY <1>2, <1>3 DEF RowRec, RunRec, Counted
<1>5. \A u \in Recipients : u <= row[b].cursor
  <2> DEFINE after == {u \in Recipients : u > row[b].cursor}
  <2>1. IF Cardinality(after) <= BatchSize THEN {} = after
        ELSE Cardinality({}) = BatchSize
    BY <1>1 DEF NextBatch
  <2>2. after = {}
    BY <2>1, FS_EmptySet
  <2> QED
    BY <1>2, <2>2 DEF Recipients, User, RowRec
<1>6. steady[b] \subseteq handled[b]
  BY <1>2, <1>5 DEF Sound, Handled, Recipients
<1>7. Given(b) = {} /\ Given(b)' = {}
  BY <1>1, <1>4 DEF Given
<1>8. Extra(b)' = Extra(b)
  BY <1>1, <1>4, <1>7 DEF Extra, history
<1>9. Sound(b)'
  <2>1. Placed(b)'
    BY <1>1, <1>2, <1>4 DEF Sound, Placed, history, IInv, Typed
  <2>2. BatchSound(b)'
    BY <1>4 DEF BatchSound
  <2>3. Handled(b)'
    BY <1>1, <1>2, <1>4, <1>6 DEF Sound, Handled, history, students
  <2>4. Resent(b)'
    BY <1>1, <1>2, <1>4, <1>7, <1>8 DEF Sound, Resent, history
  <2> QED
    BY <2>1, <2>2, <2>3, <2>4 DEF Sound
<1>10. Typed'
  BY <1>1, <1>3 DEF IInv, Typed, students, flow, history
<1>11. \A c \in Broadcast : Thins(c)
  BY <1>1, ThinsStill DEF students, history
<1> QED
  BY <1>1, <1>3, <1>4, <1>9, <1>10, <1>11, RunnerKeeps DEF history

LEMMA ReportKeeps == ASSUME IInv, NEW b \in Broadcast, Report(b) PROVE IInv'
<1> USE SizesAssumption
<1>1. /\ run[b].pc = "report" /\ run' = [run EXCEPT ![b] = Off]
      /\ reports' \in {reports, [reports EXCEPT ![b] = @ + 1]}
      /\ UNCHANGED <<students, flow, row, notice, up, composed, copies, handled,
                     steady, interrupted, overlapped, changes, faults>>
  BY DEF Report
<1>2. /\ run \in [Broadcast -> RunRec] /\ reports \in [Broadcast -> Nat] /\ Sound(b)
      /\ Off \in RunRec
  BY DEF IInv, Typed, Off, RunRec
<1>3. /\ run' \in [Broadcast -> RunRec] /\ run'[b] = Off
      /\ \A c \in Broadcast : c # b => run'[c] = run[c]
  BY <1>1, <1>2
<1>4. /\ reports' \in [Broadcast -> Nat] /\ reports'[b] <= reports[b] + 1
      /\ \A c \in Broadcast : c # b => reports'[c] = reports[c]
  BY <1>1, <1>2
<1>5. run'[b].pc = "off" /\ run'[b].flags = {}
  BY <1>3 DEF Off
<1>6. Placed(b)'
  <2>1. /\ row[b].status = "completed" /\ reports[b] + 1 <= 1
    BY <1>1, <1>2 DEF Sound, Placed
  <2>2. reports[b] \in Nat /\ reports'[b] \in Nat
    BY <1>2, <1>4
  <2> QED
    BY <1>1, <1>4, <1>5, <2>1, <2>2 DEF Placed
<1>7. Sound(b)'
  BY <1>1, <1>2, <1>5, <1>6, RestKeeps
<1>8. Typed'
  BY <1>1, <1>3, <1>4 DEF IInv, Typed, students, flow
<1>9. \A c \in Broadcast : Thins(c)
  BY <1>1, ThinsStill DEF students
<1> QED
  BY <1>1, <1>3, <1>4, <1>7, <1>8, <1>9, RunnerKeeps

\* One more of the batch had their turn, with or without a copy.
LEMMA Delivered1 ==
    ASSUME NEW b \in Broadcast, Sound(b), run[b] \in RunRec, run'[b] \in RunRec,
           NEW u \in Left(b), \A v \in Left(b) : u <= v,
           run[b].pc = "batch", run'[b].pc = "batch",
           run'[b].batch = run[b].batch, run'[b].cursor = u,
           Counted(run'[b]) = Counted(run[b]) + 1,
           run'[b].flags \subseteq run[b].batch,
           row[b] \in RowRec, interrupted[b] \in Nat,
           copies[b] \in [User -> Nat], copies'[b] \in [User -> Nat],
           copies'[b][u] <= copies[b][u] + 1,
           \A v \in User : v # u => copies'[b][v] = copies[b][v],
           UNCHANGED students, row'[b] = row[b], handled'[b] = handled[b],
           steady'[b] = steady[b], interrupted'[b] = interrupted[b],
           reports'[b] = reports[b]
    PROVE  Sound(b)'
<1> USE SizesAssumption
<1>1. /\ u \in run[b].batch /\ u > run[b].cursor /\ u \in User /\ u \in Nat
      /\ run[b].batch \subseteq User /\ run[b].batch \subseteq Nat
      /\ run[b].cursor \in Nat
  <2>1. run[b].batch \subseteq User /\ run[b].cursor \in Nat
    BY DEF RunRec
  <2>2. u \in run[b].batch /\ u > run[b].cursor
    BY DEF Left
  <2> QED
    BY <2>1, <2>2, Students
<1>2. u > row[b].cursor
  BY <1>1 DEF Sound, BatchSound
<1>3. Given(b)' = Given(b) \cup {u} /\ u \notin Given(b) /\ Given(b) \subseteq User
  <2>1. \A v \in run[b].batch : v <= u <=> v <= run[b].cursor \/ v = u
    BY <1>1 DEF Left
  <2> QED
    BY <1>1, <2>1 DEF Given
<1>4. Cardinality(Given(b)') = Cardinality(Given(b)) + 1
      /\ Cardinality(Given(b)) \in Nat
  <2>1. IsFiniteSet(Given(b)) /\ Cardinality(Given(b)) \in Nat
    BY <1>3, Students
  <2>2. PICK G : G = Given(b)
    OBVIOUS
  <2>3. IsFiniteSet(G) /\ u \notin G
    BY <1>3, <2>1, <2>2
  <2>4. Cardinality(G \cup {u}) = Cardinality(G) + 1
    BY <2>3, FS_AddElement
  <2> QED
    BY <1>3, <2>1, <2>2, <2>4
<1>5. Extra(b)' \subseteq Extra(b)
  BY <1>2, <1>3 DEF Extra
<1>6. Placed(b)'
  BY DEF Sound, Placed
<1>7. BatchSound(b)'
  <2>1. Counted(row[b]) \in Nat /\ Counted(row[b])' = Counted(row[b])
    BY DEF Counted, RowRec
  <2>2. Counted(run[b]) = Counted(row[b]) + Cardinality(Given(b))
    BY DEF Sound, BatchSound
  <2>3. Counted(run[b])' = Counted(row[b])' + Cardinality(Given(b)')
    BY <1>4, <2>1, <2>2 DEF Counted
  <2> QED
    BY <1>1, <2>3 DEF Sound, BatchSound
<1>8. Handled(b)'
  BY DEF Sound, Handled, students, Counted
<1>9. Resent(b)'
  <2>1. \A v \in User : copies'[b][v] <= interrupted[b] +
            (IF v <= row[b].cursor \/ v \in Given(b)' THEN 1 ELSE 0)
    <3>1. ASSUME NEW v \in User, v # u
          PROVE  copies'[b][v] <= interrupted[b] +
                    (IF v <= row[b].cursor \/ v \in Given(b)' THEN 1 ELSE 0)
      BY <1>3, <3>1 DEF Sound, Resent
    <3>2. copies[b][u] <= interrupted[b]
      BY <1>1, <1>2, <1>3 DEF Sound, Resent, RowRec
    <3>3. copies'[b][u] <= interrupted[b] + 1
      BY <1>1, <3>2
    <3> QED
      BY <1>3, <3>1, <3>3
  <2>2. Extra(b) \in SUBSET User
    BY DEF Extra
  <2>3. /\ Cardinality(Extra(b)') <= Cardinality(Extra(b))
        /\ Cardinality(Extra(b)) \in Nat /\ Cardinality(Extra(b)') \in Nat
    BY <1>5, <2>2, Students
  <2>4. Cardinality(Extra(b)) <= BatchSize * interrupted[b]
    BY DEF Sound, Resent
  <2>5. BatchSize * interrupted[b] \in Nat
    OBVIOUS
  <2>6. Cardinality(Extra(b)') <= BatchSize * interrupted[b]
    BY <2>3, <2>4, <2>5
  <2> QED
    BY <2>1, <2>6 DEF Resent
<1> QED
  BY <1>6, <1>7, <1>8, <1>9 DEF Sound

\* The cursor moves to the student and one counter goes up.
Passed(r, u, c) == [r EXCEPT !.cursor = u, ![c] = @ + 1]

Onward(r, u, g) == /\ g \in RunRec /\ g.pc = r.pc /\ g.batch = r.batch
                   /\ g.cursor = u /\ g.flags = r.flags
                   /\ Counted(g) = Counted(r) + 1

LEMMA OneMore ==
    ASSUME NEW r \in RunRec, NEW u \in 0..MaxUsers,
           NEW c \in {"sent", "blocked", "errors"}
    PROVE  Onward(r, u, Passed(r, u, c))
<1>0. PICK g : g = Passed(r, u, c)
  OBVIOUS
<1>1. PICK h : h = [r EXCEPT !.cursor = u]
  OBVIOUS
<1>2. /\ h \in RunRec /\ h.pc = r.pc /\ h.batch = r.batch /\ h.cursor = u
      /\ h.flags = r.flags /\ h.sent = r.sent /\ h.blocked = r.blocked
      /\ h.errors = r.errors
  BY <1>1 DEF RunRec
<1>3. ASSUME c = "sent" PROVE Onward(r, u, g)
  <2>1. g = [h EXCEPT !["sent"] = @ + 1]
    BY <1>0, <1>1, <1>3 DEF Passed
  <2> QED
    BY <1>2, <2>1 DEF RunRec, Counted, Onward
<1>4. ASSUME c = "blocked" PROVE Onward(r, u, g)
  <2>1. g = [h EXCEPT !["blocked"] = @ + 1]
    BY <1>0, <1>1, <1>4 DEF Passed
  <2> QED
    BY <1>2, <2>1 DEF RunRec, Counted, Onward
<1>5. ASSUME c = "errors" PROVE Onward(r, u, g)
  <2>1. g = [h EXCEPT !["errors"] = @ + 1]
    BY <1>0, <1>1, <1>5 DEF Passed
  <2> QED
    BY <1>2, <2>1 DEF RunRec, Counted, Onward
<1> QED
  BY <1>0, <1>3, <1>4, <1>5

LEMMA DeliverKeeps == ASSUME IInv, NEW b \in Broadcast, Deliver(b) PROVE IInv'
<1> USE SizesAssumption
<1>1. /\ run[b].pc = "batch" /\ Left(b) # {}
      /\ UNCHANGED <<students, flow, row, notice, up, composed, handled, steady,
                     interrupted, overlapped, reports, changes, faults>>
  BY DEF Deliver
<1>2. /\ row \in [Broadcast -> RowRec] /\ run \in [Broadcast -> RunRec]
      /\ copies \in [Broadcast -> [User -> Nat]] /\ interrupted[b] \in Nat /\ Sound(b)
  BY DEF IInv, Typed
<1>3. run[b] \in RunRec /\ run[b].flags \subseteq run[b].batch
      /\ run[b].batch \subseteq User
  BY <1>2 DEF Sound, Placed, RunRec
<1>4. Left(b) \in SUBSET Nat /\ Left(b) \subseteq run[b].batch
  BY <1>3 DEF Left, User
<1>5. PICK u \in Left(b) : u = Least(Left(b)) /\ \A v \in Left(b) : u <= v
  BY <1>1, <1>4, LeastIsLeast
<1>6. u \in run[b].batch /\ u \in User /\ u \in 0..MaxUsers
  BY <1>3, <1>4, <1>5 DEF User
<1>7. PICK new \in RunRec :
         /\ run' = [run EXCEPT ![b] = new]
         /\ new.pc = "batch" /\ new.batch = run[b].batch /\ new.cursor = u
         /\ Counted(new) = Counted(run[b]) + 1
         /\ new.flags \subseteq run[b].batch
  <2>1. PICK s, k, e : /\ s = Passed(run[b], u, "sent")
                       /\ k = Passed(run[b], u, "blocked")
                       /\ e = Passed(run[b], u, "errors")
    OBVIOUS
  <2>2. Onward(run[b], u, s) /\ Onward(run[b], u, k) /\ Onward(run[b], u, e)
    BY <1>3, <1>6, <2>1, OneMore
  <2>3. PICK f : f = [k EXCEPT !.flags = @ \cup {u}]
    OBVIOUS
  <2>4. /\ f \in RunRec /\ f.pc = "batch" /\ f.batch = run[b].batch
        /\ f.cursor = u /\ Counted(f) = Counted(run[b]) + 1
        /\ f.flags = run[b].flags \cup {u}
    BY <1>1, <1>6, <2>2, <2>3 DEF RunRec, Counted, Onward
  <2>5. run' \in {[run EXCEPT ![b] = f], [run EXCEPT ![b] = s], [run EXCEPT ![b] = e]}
    BY <1>5, <2>1, <2>3 DEF Deliver, Passed
  <2> QED
    BY <1>1, <1>3, <1>6, <2>2, <2>4, <2>5 DEF Onward
<1>8. /\ run' \in [Broadcast -> RunRec] /\ run'[b] = new
      /\ \A c \in Broadcast : c # b => run'[c] = run[c]
  BY <1>2, <1>7
<1>9. /\ copies' \in [Broadcast -> [User -> Nat]] /\ copies'[b][u] <= copies[b][u] + 1
      /\ \A v \in User : v # u => copies'[b][v] = copies[b][v]
      /\ \A c \in Broadcast : c # b => copies'[c] = copies[c]
  <2>1. copies' = copies \/ copies' = [copies EXCEPT ![b][u] = @ + 1]
    BY <1>5 DEF Deliver, Received
  <2>2. copies \in [Broadcast -> [User -> Nat]] /\ copies[b] \in [User -> Nat]
        /\ copies[b][u] \in Nat /\ u \in User
    BY <1>2, <1>6
  <2>3. CASE copies' = copies
    BY <2>2, <2>3
  <2>4. CASE copies' = [copies EXCEPT ![b][u] = @ + 1]
    <3>1. /\ copies' \in [Broadcast -> [User -> Nat]]
          /\ copies'[b] = [copies[b] EXCEPT ![u] = copies[b][u] + 1]
          /\ \A c \in Broadcast : c # b => copies'[c] = copies[c]
      BY <2>2, <2>4
    <3> QED
      BY <2>2, <3>1
  <2> QED
    BY <2>1, <2>3, <2>4
<1>10. Sound(b)'
  <2>1. /\ row[b] \in RowRec /\ copies[b] \in [User -> Nat]
        /\ copies'[b] \in [User -> Nat]
    BY <1>2, <1>9
  <2>2. /\ run'[b] \in RunRec /\ run'[b].pc = "batch" /\ run'[b].batch = run[b].batch
        /\ run'[b].cursor = u /\ Counted(run'[b]) = Counted(run[b]) + 1
        /\ run'[b].flags \subseteq run[b].batch
    BY <1>7, <1>8
  <2> QED
    BY <1>1, <1>2, <1>3, <1>5, <1>9, <2>1, <2>2, Delivered1
<1>11. Typed'
  BY <1>1, <1>8, <1>9 DEF IInv, Typed, students, flow
<1>12. \A c \in Broadcast : Thins(c)
  BY <1>1, ThinsStill DEF students
<1> QED
  BY <1>1, <1>8, <1>9, <1>10, <1>11, <1>12, RunnerKeeps

LEMMA CommitBatchKeeps == ASSUME IInv, NEW b \in Broadcast, CommitBatch(b) PROVE IInv'
<1> USE SizesAssumption
<1>1. /\ run[b].pc = "batch" /\ Left(b) = {}
      /\ row' = [row EXCEPT ![b] = RecordProgress(b)]
      /\ flagged' = flagged \cup run[b].flags
      /\ run' = [run EXCEPT ![b] = [Off EXCEPT !.pc = "ready"]]
      /\ handled' = [handled EXCEPT ![b] = @ \cup run[b].batch]
      /\ steady' = [Unsteady(run[b].flags) EXCEPT ![b] = steady[b]]
      /\ UNCHANGED <<approved, blocking, flow, notice, up, composed, copies,
                     interrupted, overlapped, reports, changes, faults>>
  BY DEF CommitBatch
<1>2. /\ row \in [Broadcast -> RowRec] /\ run \in [Broadcast -> RunRec]
      /\ handled \in [Broadcast -> SUBSET User] /\ steady \in [Broadcast -> SUBSET User]
      /\ Sound(b)
  BY DEF IInv, Typed
<1>3. PICK now \in RowRec :
         /\ now = RecordProgress(b)
         /\ now.status = row[b].status /\ now.msg = row[b].msg
         /\ now.cursor = run[b].cursor /\ Counted(now) = Counted(run[b])
  <2>1. PICK r \in RowRec, g \in RunRec : r = row[b] /\ g = run[b]
    BY <1>2
  <2>2. PICK now : now = [r EXCEPT !.sent = g.sent, !.blocked = g.blocked,
                                   !.errors = g.errors, !.cursor = g.cursor]
    OBVIOUS
  <2>3. /\ g.sent \in Nat /\ g.blocked \in Nat /\ g.errors \in Nat
        /\ g.cursor \in 0..MaxUsers
    BY <2>1 DEF RunRec
  <2>4. /\ now \in RowRec /\ now.status = r.status /\ now.msg = r.msg
        /\ now.cursor = g.cursor /\ now.sent = g.sent /\ now.blocked = g.blocked
        /\ now.errors = g.errors
    BY <2>2, <2>3 DEF RowRec
  <2> QED
    BY <2>1, <2>2, <2>4 DEF RecordProgress, Counted
<1>4. /\ row' \in [Broadcast -> RowRec] /\ row'[b] = now
      /\ \A c \in Broadcast : c # b => row'[c] = row[c]
  BY <1>1, <1>2, <1>3
<1>5. PICK idle \in RunRec :
         /\ idle = [Off EXCEPT !.pc = "ready"]
         /\ idle.pc = "ready" /\ idle.flags = {} /\ idle.batch = {}
  <2>1. PICK r : r = [Off EXCEPT !.pc = "ready"]
    OBVIOUS
  <2>2. Off \in RunRec
    BY SizesAssumption DEF Off, RunRec
  <2>3. r \in RunRec /\ r.pc = "ready" /\ r.flags = {} /\ r.batch = {}
    BY <2>1, <2>2 DEF Off, RunRec
  <2> QED
    BY <2>1, <2>3
<1>6. /\ run' \in [Broadcast -> RunRec] /\ run'[b] = idle
      /\ \A c \in Broadcast : c # b => run'[c] = run[c]
  BY <1>1, <1>2, <1>5
<1>7. /\ run[b].batch \subseteq User /\ run[b].cursor \in Nat /\ row[b].cursor \in Nat
      /\ run[b].flags \subseteq run[b].batch
  BY <1>2 DEF RunRec, RowRec, Sound, Placed
<1>8. /\ handled' \in [Broadcast -> SUBSET User]
      /\ handled'[b] = handled[b] \cup run[b].batch
      /\ \A c \in Broadcast : c # b => handled'[c] = handled[c]
  BY <1>1, <1>2, <1>7
<1>9. /\ steady' \in [Broadcast -> SUBSET User] /\ steady'[b] = steady[b]
      /\ \A c \in Broadcast : c # b => steady'[c] = steady[c] \ run[b].flags
  BY <1>1, <1>2 DEF Unsteady
<1>10. /\ \A u \in run[b].batch : u \in Nat /\ u <= run[b].cursor /\ u > row[b].cursor
       /\ row[b].cursor <= run[b].cursor
  <2>1. \A u \in run[b].batch : u \in Nat
    BY <1>7, Students
  <2>2. \A u \in run[b].batch : u <= run[b].cursor
    BY <1>1, <1>7, <2>1 DEF Left
  <2>3. /\ \A u \in run[b].batch : u > row[b].cursor
        /\ run[b].cursor \in {row[b].cursor} \cup run[b].batch
    BY <1>1, <1>2 DEF Sound, BatchSound
  <2> QED
    BY <1>7, <2>1, <2>2, <2>3
<1>11. Given(b) = run[b].batch /\ Given(b)' = {}
  BY <1>1, <1>5, <1>6, <1>10 DEF Given
<1>12. Sound(b)'
  <2>1. row[b].status = "in_progress"
    BY <1>1, <1>2 DEF Sound, Placed
  <2>2. Placed(b)'
    BY <1>1, <1>2, <1>3, <1>4, <1>5, <1>6, <2>1 DEF Sound, Placed
  <2>3. BatchSound(b)'
    BY <1>5, <1>6 DEF BatchSound
  <2>4. Handled(b)'
    <3>1. Counted(row'[b]) = Cardinality(handled'[b])
      <4>1. Cardinality(handled[b] \cup run[b].batch)
              = Cardinality(handled[b]) + Cardinality(run[b].batch)
        <5>1. handled[b] \subseteq User /\ handled[b] \cap run[b].batch = {}
          BY <1>2, <1>7, <1>10, Students DEF Sound, Handled
        <5> QED
          BY <1>7, <5>1, Together
      <4>2. Counted(run[b]) = Cardinality(handled[b]) + Cardinality(run[b].batch)
        BY <1>1, <1>2, <1>11 DEF Sound, BatchSound, Handled
      <4> QED
        BY <1>3, <1>4, <1>8, <4>1, <4>2
    <3>2. \A u \in handled'[b] : u <= row'[b].cursor
      <4>1. \A u \in handled[b] : u \in Nat /\ u <= row[b].cursor
        BY <1>2, Students DEF Sound, Handled
      <4> QED
        BY <1>3, <1>4, <1>7, <1>8, <1>10, <4>1
    <3>3. ASSUME NEW u \in steady'[b],
                 u \in flagged' \/ u <= row'[b].cursor \/ row'[b].status = "completed"
          PROVE  u \in handled'[b]
      <4>1. u \in steady[b] /\ u \in Nat
        BY <1>2, <1>9, <3>3, Students
      <4>2. CASE u \in flagged
        BY <1>2, <1>8, <4>1, <4>2 DEF Sound, Handled
      <4>3. CASE u \in run[b].flags
        BY <1>7, <1>8, <4>3
      <4>4. CASE u <= run[b].cursor
        <5>1. CASE u <= row[b].cursor
          BY <1>2, <1>8, <4>1, <5>1 DEF Sound, Handled
        <5>2. CASE u \in run[b].batch
          BY <1>8, <5>2
        <5>3. CASE u > row[b].cursor /\ u \notin run[b].batch
          <6>1. run[b].cursor \in {row[b].cursor} \cup run[b].batch
            BY <1>1, <1>2 DEF Sound, BatchSound
          <6>2. run[b].cursor \in run[b].batch
            BY <1>7, <4>1, <4>4, <5>3, <6>1
          <6>3. run[b].cursor < u
            BY <1>1, <1>2, <4>1, <5>3, <6>2 DEF Sound, BatchSound
          <6> QED
            BY <1>7, <4>1, <4>4, <6>3
        <5> QED
          BY <1>7, <4>1, <5>1, <5>2, <5>3
      <4> QED
        BY <1>1, <1>3, <1>4, <2>1, <3>3, <4>2, <4>3, <4>4
    <3>4. steady'[b] \subseteq approved'
      BY <1>1, <1>2, <1>9 DEF Sound, Handled
    <3> QED
      BY <3>1, <3>2, <3>3, <3>4 DEF Handled
  <2>5. Resent(b)'
    <3>1. ASSUME NEW u \in User
          PROVE  copies[b][u] <= interrupted[b] +
                    (IF u <= row'[b].cursor \/ u \in Given(b)' THEN 1 ELSE 0)
      <4>1. u \in Nat /\ copies[b][u] \in Nat /\ interrupted[b] \in Nat
        BY DEF User, IInv, Typed
      <4>2. copies[b][u] <= interrupted[b] +
                (IF u <= row[b].cursor \/ u \in Given(b) THEN 1 ELSE 0)
        BY <1>2 DEF Sound, Resent
      <4>3. u <= row[b].cursor \/ u \in Given(b) => u <= row'[b].cursor
        BY <1>3, <1>4, <1>7, <1>10, <1>11, <4>1
      <4> QED
        BY <4>1, <4>2, <4>3
    <3>2. Extra(b)' \subseteq Extra(b)
      <4>1. \A u \in User : u > row'[b].cursor => u > row[b].cursor /\ u \notin Given(b)
        BY <1>3, <1>4, <1>7, <1>10, <1>11 DEF User
      <4> QED
        BY <1>1, <4>1 DEF Extra
    <3>3. Cardinality(Extra(b)') <= Cardinality(Extra(b))
          /\ Cardinality(Extra(b)) \in Nat /\ Cardinality(Extra(b)') \in Nat
      <4>1. Extra(b) \in SUBSET User
        BY DEF Extra
      <4> QED
        BY <3>2, <4>1, Students
    <3>4. Cardinality(Extra(b)) <= BatchSize * interrupted[b]
          /\ BatchSize * interrupted[b] \in Nat
      BY <1>2 DEF Sound, Resent, IInv, Typed
    <3>5. Cardinality(Extra(b)') <= BatchSize * interrupted[b]
      BY <3>3, <3>4
    <3> QED
      BY <1>1, <3>1, <3>5 DEF Resent
  <2> QED
    BY <2>2, <2>3, <2>4, <2>5 DEF Sound
<1>13. Typed'
  BY <1>1, <1>4, <1>6, <1>7, <1>8, <1>9 DEF IInv, Typed, flow
<1>14. ASSUME NEW c \in Broadcast, c # b PROVE Thins(c)
  BY <1>1, <1>9, <1>14 DEF IInv, Sound, Handled, Thins
<1>15. run[b].pc # "off" /\ row'[b].msg = row[b].msg
  BY <1>1, <1>3, <1>4
<1> QED
  BY <1>1, <1>4, <1>6, <1>8, <1>12, <1>13, <1>14, <1>15, RunnerKeeps

\* A run that ends early, with its process or alone: what its batch had sent
\* will be sent again.
LEMMA LostKeeps ==
    ASSUME NEW b \in Broadcast, Sound(b), run[b] \in RunRec, row[b] \in RowRec,
           interrupted[b] \in Nat, copies[b] \in [User -> Nat], reports[b] \in Nat,
           run'[b].pc \in {"off", "dead"},
           run'[b].flags \subseteq run'[b].batch,
           run'[b].pc = "dead" => run[b].pc \in {"ready", "batch"},
           interrupted'[b] \in {interrupted[b], interrupted[b] + 1},
           run[b].pc = "batch" => interrupted'[b] = interrupted[b] + 1,
           UNCHANGED students, row'[b] = row[b], copies'[b] = copies[b],
           handled'[b] = handled[b], steady'[b] = steady[b], reports'[b] = reports[b]
    PROVE  Sound(b)'
<1> USE SizesAssumption
<1>1. Given(b)' = {} /\ Given(b) \subseteq User
  BY DEF Given, RunRec
<1>2. Placed(b)'
  BY DEF Sound, Placed
<1>3. BatchSound(b)' /\ Handled(b)'
  BY DEF Sound, BatchSound, Handled, students, Counted
<1>4. Resent(b)'
  <2>1. CASE Given(b) = {}
    <3>1. Extra(b)' = Extra(b)
      BY <1>1, <2>1 DEF Extra
    <3>2. Cardinality(Extra(b)) \in Nat
      <4>1. Extra(b) \in SUBSET User
        BY DEF Extra
      <4> QED
        BY <4>1, Students
    <3>3. /\ BatchSize * interrupted[b] <= BatchSize * interrupted'[b]
          /\ BatchSize * interrupted[b] \in Nat /\ BatchSize * interrupted'[b] \in Nat
      OBVIOUS
    <3>4. Cardinality(Extra(b)') <= BatchSize * interrupted'[b]
      BY <3>1, <3>2, <3>3 DEF Sound, Resent
    <3>5. \A u \in User : copies'[b][u] <= interrupted'[b] +
              (IF u <= row'[b].cursor \/ u \in Given(b)' THEN 1 ELSE 0)
      BY <1>1, <2>1 DEF Sound, Resent
    <3> QED
      BY <3>4, <3>5 DEF Resent
  <2>2. CASE Given(b) # {}
    <3>1. run[b].pc = "batch" /\ interrupted'[b] = interrupted[b] + 1
      BY <2>2 DEF Given
    <3>2. Extra(b)' \subseteq Extra(b) \cup Given(b)
      BY <1>1 DEF Extra
    <3>3. /\ Cardinality(Extra(b) \cup Given(b)) <= Cardinality(Extra(b)) + Cardinality(Given(b))
          /\ Cardinality(Extra(b)') <= Cardinality(Extra(b) \cup Given(b))
          /\ Cardinality(Extra(b)) \in Nat /\ Cardinality(Given(b)) \in Nat
          /\ Cardinality(Extra(b)') \in Nat /\ Cardinality(Extra(b) \cup Given(b)) \in Nat
      <4>1. PICK X \in SUBSET User, G \in SUBSET User : X = Extra(b) /\ G = Given(b)
        BY <1>1 DEF Extra
      <4>2. /\ IsFiniteSet(X) /\ IsFiniteSet(G)
            /\ Cardinality(X) \in Nat /\ Cardinality(G) \in Nat
            /\ Cardinality(X \cap G) \in Nat /\ Cardinality(X \cup G) \in Nat
        <5>1. X \cap G \in SUBSET User /\ X \cup G \in SUBSET User
          OBVIOUS
        <5> QED
          BY <5>1, Students
      <4>3. Cardinality(X \cup G) = Cardinality(X) + Cardinality(G) - Cardinality(X \cap G)
        BY <4>2, FS_Union
      <4>4. PICK Y : Y = Extra(b)'
        OBVIOUS
      <4>5. Y \subseteq X \cup G
        BY <3>2, <4>1, <4>4
      <4>6. Cardinality(Y) <= Cardinality(X \cup G) /\ Cardinality(Y) \in Nat
        BY <4>5, Students
      <4> QED
        BY <4>1, <4>2, <4>3, <4>4, <4>6
    <3>4. Cardinality(Given(b)) <= BatchSize
      <4>1. /\ Cardinality(run[b].batch) <= BatchSize /\ run[b].batch \in SUBSET User
            /\ Given(b) \subseteq run[b].batch
        BY <3>1 DEF Sound, BatchSound, Given, RunRec
      <4>2. /\ Cardinality(Given(b)) <= Cardinality(run[b].batch)
            /\ Cardinality(run[b].batch) \in Nat
        BY <4>1, Students
      <4> QED
        BY <3>3, <4>1, <4>2
    <3>5. /\ Cardinality(Extra(b)) <= BatchSize * interrupted[b]
          /\ BatchSize * interrupted[b] \in Nat
          /\ BatchSize * (interrupted[b] + 1) = BatchSize * interrupted[b] + BatchSize
      BY DEF Sound, Resent
    <3>6. Cardinality(Extra(b)') <= BatchSize * interrupted'[b]
      BY <3>1, <3>3, <3>4, <3>5
    <3>7. \A u \in User : copies'[b][u] <= interrupted'[b] +
              (IF u <= row'[b].cursor \/ u \in Given(b)' THEN 1 ELSE 0)
      BY <3>1 DEF Sound, Resent
    <3> QED
      BY <3>6, <3>7 DEF Resent
  <2> QED
    BY <2>1, <2>2
<1> QED
  BY <1>2, <1>3, <1>4 DEF Sound

LEMMA RunFailsKeeps == ASSUME IInv, NEW b \in Broadcast, RunFails(b) PROVE IInv'
<1>1. /\ run[b].pc \in {"ready", "batch"}
      /\ interrupted' = [interrupted EXCEPT ![b] = @ + 1]
      /\ run' = [run EXCEPT ![b] = [Off EXCEPT !.pc = "dead"]]
      /\ UNCHANGED <<students, flow, row, notice, up, composed, copies, handled,
                     steady, overlapped, reports, changes>>
  BY DEF RunFails
<1>2. /\ run \in [Broadcast -> RunRec] /\ interrupted \in [Broadcast -> Nat]
      /\ row[b] \in RowRec /\ copies[b] \in [User -> Nat] /\ reports[b] \in Nat /\ Sound(b)
  BY DEF IInv, Typed
<1>3. PICK dead \in RunRec :
         /\ dead = [Off EXCEPT !.pc = "dead"]
         /\ dead.pc = "dead" /\ dead.flags = {} /\ dead.batch = {}
  <2>1. PICK r : r = [Off EXCEPT !.pc = "dead"]
    OBVIOUS
  <2>2. Off \in RunRec
    BY SizesAssumption DEF Off, RunRec
  <2>3. r \in RunRec /\ r.pc = "dead" /\ r.flags = {} /\ r.batch = {}
    BY <2>1, <2>2 DEF Off, RunRec
  <2> QED
    BY <2>1, <2>3
<1>4. /\ run' \in [Broadcast -> RunRec] /\ run'[b] = dead
      /\ \A c \in Broadcast : c # b => run'[c] = run[c]
  BY <1>1, <1>2, <1>3
<1>5. /\ interrupted' \in [Broadcast -> Nat] /\ interrupted'[b] = interrupted[b] + 1
      /\ \A c \in Broadcast : c # b => interrupted'[c] = interrupted[c]
  BY <1>1, <1>2
<1>6. Sound(b)'
  BY <1>1, <1>2, <1>3, <1>4, <1>5, LostKeeps
<1>7. Typed'
  BY <1>1, <1>4, <1>5 DEF IInv, Typed, students, flow
<1>8. \A c \in Broadcast : Thins(c)
  BY <1>1, ThinsStill DEF students
<1> QED
  BY <1>1, <1>4, <1>5, <1>6, <1>7, <1>8, RunnerKeeps

-----------------------------------------------------------------------------
(* The process. *)

LEMMA CrashKeeps == ASSUME IInv, Crash PROVE IInv'
<1> USE SizesAssumption
<1>1. /\ up' = FALSE /\ run' = [b \in Broadcast |-> Off]
      /\ tap' = [k \in Tap |-> NoTap] /\ notice' = NoNotice
      /\ interrupted' = [b \in Broadcast |->
              interrupted[b] + IF run[b].pc = "batch" THEN 1 ELSE 0]
      /\ UNCHANGED <<students, fsm, row, composed, copies, handled, steady, overlapped,
                     reports, changes>>
  BY DEF Crash
<1>2. /\ Off \in RunRec /\ Off.pc = "off" /\ Off.flags = {} /\ Off.batch = {}
      /\ NoTap \in TapRec /\ NoTap.pc = "idle"
      /\ NoNotice \in NoticeRec /\ NoNotice.flags = {}
  BY DEF Off, RunRec, NoTap, TapRec, NoNotice, NoticeRec, None
<1>3. Typed'
  <2>1. interrupted' \in [Broadcast -> Nat]
    BY <1>1 DEF IInv, Typed
  <2> QED
    BY <1>1, <1>2, <2>1 DEF IInv, Typed, students
<1>4. ASSUME NEW b \in Broadcast PROVE Sound(b)'
  <2>1. /\ run[b] \in RunRec /\ interrupted[b] \in Nat /\ row[b] \in RowRec
        /\ copies[b] \in [User -> Nat] /\ reports[b] \in Nat /\ Sound(b)
    BY DEF IInv, Typed
  <2>2. /\ run'[b].pc = "off" /\ run'[b].flags \subseteq run'[b].batch
        /\ interrupted'[b] \in {interrupted[b], interrupted[b] + 1}
        /\ run[b].pc = "batch" => interrupted'[b] = interrupted[b] + 1
    BY <1>1, <1>2, <2>1
  <2> QED
    BY <1>1, <2>1, <2>2, LostKeeps
<1>5. \A k \in Tap : tap'[k].pc = "idle"
  BY <1>1, <1>2
<1>6. Down' /\ Taps'
  BY <1>1, <1>2, <1>5 DEF IInv, Down, Taps
<1>7. \A m \in 1..MaxMessages : m \notin overlapped' => OnePlace(m)'
  BY <1>1, <1>5 DEF IInv, OnePlace, Pending
<1> QED
  BY <1>3, <1>4, <1>6, <1>7 DEF IInv

LEMMA BootKeeps == ASSUME IInv, Boot PROVE IInv'
<1> USE SizesAssumption
<1>1. /\ ~up /\ up' = TRUE
      /\ run' = [b \in Broadcast |->
            IF row[b].status = "in_progress" THEN [Off EXCEPT !.pc = "ready"] ELSE Off]
      /\ UNCHANGED <<students, flow, row, notice, history>>
  BY DEF Boot
<1>2. PICK ready \in RunRec :
         /\ ready = [Off EXCEPT !.pc = "ready"]
         /\ ready.pc = "ready" /\ ready.flags = {}
  <2>1. PICK r : r = [Off EXCEPT !.pc = "ready"]
    OBVIOUS
  <2>2. Off \in RunRec
    BY SizesAssumption DEF Off, RunRec
  <2>3. r \in RunRec /\ r.pc = "ready" /\ r.flags = {} /\ r.batch = {}
    BY <2>1, <2>2 DEF Off, RunRec
  <2> QED
    BY <2>1, <2>3
<1>3. Off \in RunRec /\ Off.pc = "off" /\ Off.flags = {}
  BY DEF Off, RunRec
<1>4. /\ run' \in [Broadcast -> RunRec]
      /\ \A b \in Broadcast :
            run'[b] = IF row[b].status = "in_progress" THEN ready ELSE Off
  BY <1>1, <1>2, <1>3
<1>5. /\ \A b \in Broadcast : run[b].pc = "off"
      /\ \A k \in Tap : tap[k].pc = "idle"
  BY <1>1 DEF IInv, Down
<1>6. ASSUME NEW b \in Broadcast PROVE Sound(b)'
  <2>1. Sound(b)
    BY DEF IInv
  <2>2. Placed(b)'
    BY <1>1, <1>2, <1>3, <1>4, <1>5, <2>1 DEF Sound, Placed, history
  <2>3. run[b].pc # "batch" /\ run'[b].pc # "batch"
    BY <1>2, <1>3, <1>4, <1>5
  <2> QED
    BY <1>1, <2>1, <2>2, <2>3, RestKeeps DEF history
<1>7. Typed'
  BY <1>1, <1>4 DEF IInv, Typed, students, flow, history
<1>8. Down' /\ Taps'
  BY <1>1, <1>5 DEF IInv, Down, Taps, flow, history
<1>9. \A m \in 1..MaxMessages : m \notin overlapped' => OnePlace(m)'
  BY <1>1 DEF IInv, OnePlace, Pending, flow, history
<1> QED
  BY <1>6, <1>7, <1>8, <1>9 DEF IInv

-----------------------------------------------------------------------------
(* The theorems. *)

LEMMA NextIInv == ASSUME IInv, [Next]_vars PROVE IInv'
<1>1. CASE UNCHANGED vars
  <2>1. UNCHANGED <<students, flow, row, run, notice, up, history>>
    BY <1>1 DEF vars
  <2>2. Typed'
    BY <2>1 DEF IInv, Typed, students, flow, history
  <2>3. \A b \in Broadcast : Thins(b)
    BY <2>1, ThinsStill DEF students, history
  <2> QED
    BY <2>1, <2>2, <2>3, StudentsKeep DEF history
<1>2. CASE Compose \/ Announce \/ CancelFlow
  BY <1>2, ComposeKeeps, AnnounceKeeps
<1>3. ASSUME NEW k \in Tap, TapConfirm(k) \/ HandleTap(k) PROVE IInv'
  BY <1>3, TapConfirmKeeps, ReadDataKeeps, ClearStateKeeps, CreateKeeps, SpawnKeeps
     DEF HandleTap
<1>4. ASSUME NEW b \in Broadcast, Runner(b) \/ RunFails(b) PROVE IInv'
  BY <1>4, StartBatchKeeps, CompleteKeeps, ReportKeeps, DeliverKeeps, CommitBatchKeeps,
     RunFailsKeeps DEF Runner
<1>5. ASSUME NEW u \in User, Student(u) PROVE IInv'
  BY <1>5, StudentKeeps
<1>6. CASE Notify \/ Crash \/ Boot
  BY <1>6, NoticeKeeps, CrashKeeps, BootKeeps
<1> QED
  BY <1>1, <1>2, <1>3, <1>4, <1>5, <1>6 DEF Next

\* The inductive invariant holds in every state: committed counters, cursor and
\* history agree, no batch skips a steady recipient, copies beyond the first are
\* paid for by an interrupted batch, and a message is in one place.
THEOREM Invariance == Spec => []IInv
<1>1. Init => IInv
  BY InitIInv
<1>2. IInv /\ [Next]_vars => IInv'
  BY NextIInv
<1> QED
  BY <1>1, <1>2, PTL DEF Spec

LEMMA ProgressFollows == ASSUME IInv PROVE BroadcastInv
<1> USE SizesAssumption
<1>1. TypeOK
  <2>1. /\ fsm.step \in {"none", "compose", "confirm"} /\ fsm.msg \in 0..MaxMessages
        /\ fsm = [step |-> fsm.step, msg |-> fsm.msg]
    BY DEF IInv, Typed, Taps
  <2>2. \A k \in Tap : tap[k].pc \in {"idle", "data", "clear", "create", "spawn"}
    BY DEF IInv, Typed, TapRec
  <2>3. ASSUME NEW b \in Broadcast
        PROVE  /\ row[b].status \in {"absent", "in_progress", "completed"}
               /\ row[b].cursor \in 0..MaxUsers /\ run[b].cursor \in 0..MaxUsers
               /\ run[b].pc \in {"off", "ready", "batch", "report", "dead"}
               /\ run[b].batch \subseteq User /\ run[b].flags \subseteq run[b].batch
    <3>1. row[b] \in RowRec /\ run[b] \in RunRec /\ Sound(b)
      BY DEF IInv, Typed
    <3> QED
      BY <3>1 DEF RowRec, RunRec, Sound, Placed
  <2>4. /\ approved \subseteq User /\ flagged \subseteq User /\ blocking \subseteq User
        /\ up \in BOOLEAN /\ notice.flags \subseteq notice.refused
        /\ notice.pc \in {"off", "send"}
    BY DEF IInv, Typed, NoticeRec
  <2> QED
    BY <2>1, <2>2, <2>3, <2>4 DEF TypeOK
<1>2. ASSUME NEW b \in Broadcast
      PROVE  /\ Counted(row[b]) = Cardinality(handled[b])
             /\ handled[b] \subseteq 1..row[b].cursor
             /\ run[b].pc = "batch" =>
                  /\ row[b].status = "in_progress"
                  /\ Counted(run[b]) = Counted(row[b])
                                         + Cardinality(run[b].batch \ Left(b))
                  /\ \A u \in run[b].batch : u > row[b].cursor
             /\ reports[b] + (IF run[b].pc = "report" THEN 1 ELSE 0)
                  <= IF row[b].status = "completed" THEN 1 ELSE 0
  <2>1. /\ Sound(b) /\ handled[b] \subseteq User
        /\ row[b].cursor \in Nat /\ run[b].cursor \in Nat /\ run[b].batch \subseteq Nat
    BY DEF IInv, Typed, RowRec, RunRec, User
  <2>2. handled[b] \subseteq 1..row[b].cursor
    BY <2>1 DEF Sound, Handled, User
  <2>3. run[b].pc = "batch" => Given(b) = run[b].batch \ Left(b)
    BY <2>1 DEF Given, Left
  <2> QED
    BY <2>1, <2>2, <2>3 DEF Sound, Placed, BatchSound, Handled
<1> QED
  BY <1>1, <1>2 DEF BroadcastInv, ProgressInv

\* The counters of a row are exact: they add up to the students of its committed
\* batches, whatever was interrupted and sent again, and a batch under way adds
\* whom it has served; the summary is sent once, of a completed row.
THEOREM CountersAreExact == Spec => []BroadcastInv
BY Invariance, ProgressFollows, PTL

\* No batch boundary, failed commit or restart skips anyone who is a recipient
\* all the time: when the row is completed they have all been in a committed batch.
THEOREM NobodyIsSkipped == Spec => []CompletedMeansReached
<1>1. IInv => CompletedMeansReached
  BY DEF IInv, Sound, Handled, CompletedMeansReached
<1> QED
  BY <1>1, Invariance, PTL

\* Copies beyond the first are bounded by the interrupted batches: so many for
\* one student, and a batch of students for each.
THEOREM ResendsAreBounded == Spec => []ResendsBounded
<1>1. ASSUME IInv, NEW b \in Broadcast
      PROVE  /\ \A u \in User : copies[b][u] <= 1 + interrupted[b]
             /\ Cardinality({u \in User : copies[b][u] > 1}) <= BatchSize * interrupted[b]
  <2>1. Resent(b) /\ interrupted[b] \in Nat /\ copies[b] \in [User -> Nat]
    BY <1>1 DEF IInv, Sound, Typed
  <2>2. \A u \in User : copies[b][u] <= 1 + interrupted[b]
    BY <2>1 DEF Resent
  <2>3. PICK X \in SUBSET User, M \in SUBSET User :
           X = Extra(b) /\ M = {u \in User : copies[b][u] > 1} /\ M \subseteq X
    <3>1. Extra(b) \in SUBSET User /\ {u \in User : copies[b][u] > 1} \subseteq Extra(b)
      BY DEF Extra
    <3> QED
      BY <3>1
  <2>4. /\ Cardinality(M) <= Cardinality(X)
        /\ Cardinality(M) \in Nat /\ Cardinality(X) \in Nat
    BY <2>3, Students
  <2>5. Cardinality(X) <= BatchSize * interrupted[b] /\ BatchSize * interrupted[b] \in Nat
    BY <2>1, <2>3, SizesAssumption DEF Resent
  <2>6. Cardinality(M) <= BatchSize * interrupted[b]
    BY <2>4, <2>5
  <2> QED
    BY <2>2, <2>3, <2>6
<1>2. IInv => ResendsBounded
  BY <1>1 DEF ResendsBounded
<1> QED
  BY <1>2, Invariance, PTL

\* A confirmed message makes one row, unless two taps read it before the first
\* of them cleared the flow.
THEOREM OneRowEach == Spec => []OneRowPerMessage
<1>1. ASSUME IInv, NEW b \in Broadcast, NEW c \in Broadcast,
             row[b].msg = row[c].msg, row[b].msg \notin overlapped \cup {None}
      PROVE  b = c
  <2>1. row[b].msg \in 1..MaxMessages
    BY <1>1, SizesAssumption DEF IInv, Typed, RowRec, Taps, None
  <2>2. OnePlace(row[b].msg)
    BY <1>1, <2>1 DEF IInv
  <2> QED
    BY <1>1, <2>2 DEF OnePlace
<1>2. IInv => OneRowPerMessage
  BY <1>1 DEF OneRowPerMessage
<1> QED
  BY <1>2, Invariance, PTL
=============================================================================
