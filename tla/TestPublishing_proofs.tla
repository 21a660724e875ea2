------------------------ MODULE TestPublishing_proofs ------------------------
(***************************************************************************)
(* Theorems about TestPublishing, for any number of concurrent updates and *)
(* requests, any number of tests and positions, and any bounds.            *)
(***************************************************************************)
EXTENDS TestPublishing, FiniteSetTheorems, TLAPS

PublishOp == BotPublish \cup PanelPublish
Erasing    == {"upload", "cancel", "discard", "delete"}
Place      == {"idle", "handle", "attach", "commit", "rollback"}

TxRow == [op : BotOp \cup PanelOp \cup {"none"}, test : Test \cup {None},
          active : Test \cup {None}, status : Status,
          cards : [Position -> Card],
          put : [Test -> Status \cup {Keep}],
          paint : [Position -> Card \cup {Keep}],
          fate : {"none", "refused", "conflict", "published"}]

Out(t)     == status[t] \in {"active", "archived"}
Whole(c)   == \A p \in Position : c[p] # "wanted"
Full(c)    == \A p \in Position : c[p] # "empty"
Paints(x)  == \E p \in Position : x.paint[p] # Keep

-----------------------------------------------------------------------------
(* What holds of a transaction x at place l. *)

\* Nothing is written before the handler writes, and what is rolled back was
\* not announced.
Begun(x, l) ==
    /\ l \in {"idle", "handle", "attach"} =>
          /\ x.fate = "none" /\ ~Paints(x)
          /\ \A t \in Test : x.put[t] = Keep
    /\ l = "attach" => x.op = "image" /\ x.status = "draft"
    /\ l = "rollback" => x.fate # "published"

\* A row is held to stay what it is, or to go forward; only publish() turns a
\* draft active or archives the active test.
RowsSound(x) ==
    \A t \in Test :
        /\ x.put[t] \in {Keep, status[t]} \/ <<status[t], x.put[t]>> \in Forward
        /\ x.put[t] # "absent"
        /\ x.put[t] = "active" /\ status[t] # "active" =>
              x.test = t /\ x.fate = "published"
        /\ x.put[t] = "archived" /\ status[t] = "active" =>
              x.fate \in {"refused", "published"}

\* What a handler read is still so, as far as it cannot be undone.
TargetSound(x) ==
    /\ x.active # None => Out(x.active)
    /\ x.op \in BotPublish => x.test \in previews
    /\ x.op \in PanelPublish \cup {"save", "image", "delete"} => x.test \in Test
    /\ x.op \in PanelPublish => status[x.test] # "absent"
    /\ x.op \notin Inserting /\ x.status # "absent" =>
          x.test \in Test /\ status[x.test] # "absent"
    /\ x.op = "photo" /\ x.status = "absent" => Whole(x.cards)

\* The commit to come of a successful publish().
PublishSound(x) ==
    x.fate = "published" =>
        /\ x.op \in PublishOp /\ x.put[x.test] = "active"
        /\ status[x.test] = "draft"
        /\ Whole(x.cards) /\ (x.op \in PanelPublish => Full(x.cards))
        /\ \A u \in Active : x.put[u] = "archived"

\* Questions are written by who inserts or deletes their test, or edits it.
PaintSound(x) ==
    Paints(x) =>
        /\ x.test \in Test
        /\ \/ x.op \in Inserting /\ x.put[x.test] = "draft" /\ status[x.test] = "absent"
           \/ x.op \in Erasing /\ x.put[x.test] = "deleted" /\ status[x.test] = "draft"
           \/ x.op \in {"save", "image"} /\ x.status = "draft"
           \/ x.op = "photo" /\ ~Whole(x.cards)

\* An editor that did not overlap the publishing of its test has seen it; a
\* publisher that overlapped no editor has seen the questions, but for those of
\* a draft whose preview was on before its INSERT was committed.
SnapshotSound(x) ==
    /\ x.op \in Editing /\ x.test \in Test \ raced /\ Out(x.test) =>
          x.status # "draft" /\ Whole(x.cards)
    /\ x.op \in PublishOp /\ x.test \notin raced =>
          \/ x.cards = cards[x.test]
          \/ status[x.test] = "deleted"
          \/ x.op \in BotPublish /\ Whole(cards[x.test])

Sound(x, l) ==
    /\ x \in TxRow /\ l \in Place
    /\ Begun(x, l) /\ RowsSound(x) /\ TargetSound(x)
    /\ PublishSound(x) /\ PaintSound(x) /\ SnapshotSound(x)

-----------------------------------------------------------------------------
(* What holds between transactions, and of the rows. *)

\* An id that a chat, a page or a transaction knows is used up.
Known(t) == status[t] # "absent" \/ \E w \in Worker : tx[w].put[t] # Keep

RowsExclusive ==
    /\ \A w, o \in Worker, t \in Test :
         w # o /\ tx[w].put[t] # Keep => tx[o].put[t] = Keep
    /\ \A w, o \in Worker :
         tx[w].fate = "published" /\ tx[o].fate = "published" => w = o

Overlaps ==
    \A w, o \in Worker :
        /\ w # o /\ tx[w].test = tx[o].test /\ tx[w].test \in Test
        /\ tx[w].op \in Editing /\ tx[o].op \in PublishOp
        => tx[w].test \in raced

Targets ==
    /\ \A t \in Test : t = fsm.draft \/ t \in previews => Known(t)
    /\ \A w \in Worker : tx[w].test \in Test => Known(tx[w].test)
    /\ \A w \in Worker, p \in Position :
         tx[w].op \in Inserting /\ tx[w].test \in previews => tx[w].paint[p] # "wanted"

RowsKept ==
    /\ \A t, u \in Active : t = u
    /\ \A t \in Test : status[t] = "absent" => Whole(cards[t])
    /\ \A t \in Test \ raced : Out(t) =>
          Whole(cards[t]) /\ (door[t] = "panel" => Full(cards[t]))

\* A bot's publish is announced before its commit, the panel's after it.
Told(t) == \E w \in Worker :
    tx[w].test = t /\ tx[w].fate = "published" /\ tx[w].op \in BotPublish

ToldOnce ==
    \A t \in Test :
        announced[t] <= faults + (IF Out(t) \/ Told(t) THEN 1 ELSE 0)

\* TypeOK but for the transactions, which Sound types.
Typed ==
    /\ status \in [Test -> Status] /\ cards \in [Test -> [Position -> Card]]
    /\ fsm \in Flow /\ previews \subseteq Test
    /\ announced \in [Test -> Nat]
    /\ pc \in [Worker -> Place] /\ tx \in [Worker -> TxRow]
    /\ door \in [Test -> {"none", "bot", "panel"}]
    /\ raced \subseteq Test /\ stranded \in BOOLEAN
    /\ ops \in 0..MaxOps /\ faults \in 0..MaxFaults

\* The inductive invariant.
IInv ==
    /\ Typed
    /\ \A w \in Worker : Sound(tx[w], pc[w])
    /\ RowsExclusive /\ Overlaps /\ Targets /\ RowsKept /\ ToldOnce

-----------------------------------------------------------------------------
(* Lemmas about the operators. *)

LEMMA Constants ==
    /\ Keep \notin Status /\ Keep \notin Card /\ None \notin Test
    /\ BotPublish \subseteq BotOp /\ PanelPublish \subseteq PanelOp
<1>1. Keep \notin Status /\ Keep \notin Card
  BY DEF Keep, Status, Card
<1>2. None \notin Test
  BY TestsAssumption DEF None, Test
<1> QED
  BY <1>1, <1>2 DEF BotPublish, PanelPublish, BotOp, PanelOp

LEMMA MissingWhole == \A c : Missing(c) = {} <=> Whole(c)
BY DEF Missing, Whole

LEMMA GapsFull == \A c : Gaps(c) = {} <=> Full(c)
BY DEF Gaps, Full

LEMMA BlankTypes == /\ Blank \in [Position -> Card] /\ Whole(Blank)
                    /\ NoTx \in TxRow /\ NoFlow \in Flow
<1>1. Blank \in [Position -> Card] /\ Whole(Blank)
  BY DEF Blank, Card, Whole
<1>2. NoTx \in TxRow
  BY <1>1 DEF NoTx, TxRow, Status
<1> QED
  BY <1>1, <1>2 DEF NoFlow, Flow

\* A transaction that has ended is sound whatever the rows are.
LEMMA NoTxSound == Sound(NoTx, "idle")
<1>1. NoTx \in TxRow /\ "idle" \in Place
  BY BlankTypes DEF Place
<1>2. Begun(NoTx, "idle") /\ PaintSound(NoTx)
  BY DEF Begun, PaintSound, Paints, NoTx
<1>3. RowsSound(NoTx)
  BY Constants DEF RowsSound, NoTx, Keep
<1>4. TargetSound(NoTx) /\ PublishSound(NoTx) /\ SnapshotSound(NoTx)
  BY DEF TargetSound, PublishSound, SnapshotSound, NoTx, None, BotPublish, PanelPublish,
         Editing, PublishOp
<1> QED
  BY <1>1, <1>2, <1>3, <1>4 DEF Sound

LEMMA InitIInv == Init => IInv
<1> SUFFICES ASSUME Init PROVE IInv
  OBVIOUS
<1> USE TestsAssumption, BoundsAssumption
<1>1. PICK first \in {{}, {1}} :
        /\ status = [t \in Test |-> IF t \in first THEN "active" ELSE "absent"]
        /\ cards  = [t \in Test |-> [p \in Position |->
                       IF t \in first THEN "text" ELSE "empty"]]
  BY DEF Init
<1>2. /\ fsm = NoFlow /\ previews = {} /\ announced = [t \in Test |-> 0]
      /\ pc = [w \in Worker |-> "idle"] /\ tx = [w \in Worker |-> NoTx]
      /\ door = [t \in Test |-> "none"] /\ raced = {} /\ stranded = FALSE
      /\ ops = 0 /\ faults = 0
  BY DEF Init
<1>3. Typed
  <2>1. status \in [Test -> Status]
    BY <1>1 DEF Status
  <2>2. cards \in [Test -> [Position -> Card]]
    BY <1>1 DEF Card
  <2>3. tx \in [Worker -> TxRow] /\ pc \in [Worker -> Place]
    BY <1>2, BlankTypes DEF Place
  <2>4. /\ fsm \in Flow /\ previews \subseteq Test
        /\ door \in [Test -> {"none", "bot", "panel"}]
        /\ raced \subseteq Test /\ stranded \in BOOLEAN
    BY <1>2, BlankTypes
  <2>5. announced \in [Test -> Nat] /\ ops \in 0..MaxOps /\ faults \in 0..MaxFaults
    BY <1>2
  <2> QED
    BY <2>1, <2>2, <2>3, <2>4, <2>5 DEF Typed
<1>4. \A w \in Worker : Sound(tx[w], pc[w])
  BY <1>2, NoTxSound
<1>5. \A w \in Worker : tx[w] = NoTx
  BY <1>2
<1>6. RowsExclusive /\ Overlaps
  BY <1>5 DEF RowsExclusive, Overlaps, NoTx, Editing
<1>7. Targets
  BY <1>2, <1>5, Constants DEF Targets, NoTx, NoFlow, Inserting
<1>8. RowsKept
  <2>0. \A t, u \in first : t = u
    OBVIOUS
  <2>1. \A t \in Active : t \in first
    BY <1>1 DEF Active
  <2>2. \A t \in Test : cards[t] = [p \in Position |-> "empty"]
                     \/ cards[t] = [p \in Position |-> "text"]
    BY <1>1
  <2>3. \A t \in Test : Whole(cards[t]) /\ door[t] # "panel"
    BY <1>2, <2>2 DEF Whole
  <2> QED
    BY <2>0, <2>1, <2>3 DEF RowsKept
<1>9. ToldOnce
  BY <1>2 DEF ToldOnce
<1> QED
  BY <1>3, <1>4, <1>6, <1>7, <1>8, <1>9 DEF IInv

-----------------------------------------------------------------------------
(* What each kind of step does to the transactions. *)

\* Only the activation of w changes: its transaction becomes x, its place l.
Moves(w, x, l) ==
    /\ tx' \in [Worker -> TxRow] /\ pc' \in [Worker -> Place]
    /\ tx'[w] = x /\ pc'[w] = l
    /\ \A o \in Worker : o # w => tx'[o] = tx[o] /\ pc'[o] = pc[o]

LEMMA MovesTo ==
    ASSUME Typed, NEW w \in Worker, NEW x \in TxRow, NEW l \in Place,
           tx' = [tx EXCEPT ![w] = x], Goto(w, l)
    PROVE  Moves(w, x, l)
BY DEF Typed, Goto, Moves

LEMMA EndedMoves ==
    ASSUME Typed, NEW w \in Worker, Ended(w)
    PROVE  Moves(w, NoTx, "idle")
BY BlankTypes, MovesTo DEF Ended, Place

\* Sound speaks of rows that most steps leave alone, and of sets that grow.
LEMMA SoundKept ==
    ASSUME NEW w \in Worker, NEW x, NEW l, Sound(x, l),
           tx'[w] = x, pc'[w] = l, UNCHANGED <<status, cards>>,
           previews \subseteq previews', raced \subseteq raced'
    PROVE  Sound(tx[w], pc[w])'
<1>1. Begun(tx[w], pc[w])' /\ RowsSound(tx[w])'
  BY DEF Sound, Begun, RowsSound, Paints
<1>2. TargetSound(tx[w])' /\ PublishSound(tx[w])'
  BY DEF Sound, TargetSound, PublishSound, Out, Active, Whole, Full
<1>3. PaintSound(tx[w])' /\ SnapshotSound(tx[w])'
  BY DEF Sound, PaintSound, SnapshotSound, Paints, Out, Whole
<1> QED
  BY <1>1, <1>2, <1>3 DEF Sound

\* What a handler that locks and writes may make of its transaction.
Allowed(w, x, l) ==
    /\ pc[w] \in {"handle", "attach"}
    /\ tx' = [tx EXCEPT ![w] = x] /\ Goto(w, l)
    /\ Sound(x, l) /\ x.op = tx[w].op
    /\ x.test = tx[w].test \/ x.op \in Inserting
    /\ x.test \in Test => Known(x.test) \/ x.put[x.test] # Keep
    /\ \A o \in Worker \ {w}, t \in Test : x.put[t] # Keep => tx[o].put[t] = Keep
    /\ x.fate = "published" => \A o \in Worker \ {w} : tx[o].fate # "published"

LEMMA AllowedKeeps ==
    ASSUME IInv, NEW w \in Worker, NEW x, NEW l, Allowed(w, x, l), Typed',
           UNCHANGED <<db, door, raced>>,
           previews \subseteq previews',
           \A t \in Test : t = fsm'.draft \/ t \in previews' =>
                              Known(t) \/ x.put[t] # Keep,
           \A o \in Worker, p \in Position :
              tx'[o].op \in Inserting /\ tx'[o].test \in previews'
                  => tx'[o].paint[p] # "wanted",
           ToldOnce'
    PROVE  IInv'
<1>1. Moves(w, x, l)
  BY MovesTo DEF IInv, Allowed, Sound
<1>2. \A o \in Worker : Sound(tx[o], pc[o])'
  <2> SUFFICES ASSUME NEW o \in Worker PROVE Sound(tx[o], pc[o])'
    OBVIOUS
  <2>1. CASE o = w
    BY <1>1, <2>1, SoundKept DEF Moves, Allowed, db
  <2>2. CASE o # w
    BY <1>1, <2>2, SoundKept DEF Moves, IInv, db
  <2> QED
    BY <2>1, <2>2
<1>3. RowsExclusive'
  BY <1>1 DEF Moves, Allowed, IInv, RowsExclusive
<1>4. Overlaps'
  BY <1>1 DEF Moves, Allowed, IInv, Overlaps, Inserting, Editing, PublishOp,
         BotPublish, PanelPublish
<1>5. \A t \in Test : Known(t) \/ x.put[t] # Keep => Known(t)'
  <2>1. \A t \in Test : tx[w].put[t] = Keep
    BY DEF Allowed, IInv, Sound, Begun
  <2> QED
    BY <1>1, <2>1 DEF Moves, Known, db
<1>6. Targets'
  BY <1>1, <1>5 DEF Moves, Allowed, IInv, Targets
<1>7. RowsKept'
  BY DEF IInv, RowsKept, Active, Out, Whole, Full, db
<1> QED
  BY <1>2, <1>3, <1>4, <1>6, <1>7 DEF IInv

-----------------------------------------------------------------------------
(* Handlers. *)

\* What a handler writes into its transaction y.
Written(y, test, put, paint, fate) ==
    [y EXCEPT !.test = test, !.put = put, !.paint = paint, !.fate = fate]

LEMMA WrittenFields ==
    ASSUME NEW y \in TxRow, NEW test \in Test \cup {None},
           NEW put \in [Test -> Status \cup {Keep}],
           NEW paint \in [Position -> Card \cup {Keep}],
           NEW fate \in {"none", "refused", "conflict", "published"},
           NEW x, x = Written(y, test, put, paint, fate)
    PROVE  /\ x \in TxRow /\ x.op = y.op /\ x.active = y.active
           /\ x.status = y.status /\ x.cards = y.cards
           /\ x.test = test /\ x.put = put /\ x.paint = paint /\ x.fate = fate
BY DEF Written, TxRow

\* A handler goes on without a write.
LEMMA StayAllowed ==
    ASSUME IInv, NEW w \in Worker, NEW l \in Place \ {"idle", "handle"},
           pc[w] \in {"handle", "attach"}, tx' = tx, Goto(w, l),
           l = "attach" => tx[w].op = "image" /\ tx[w].status = "draft"
    PROVE  Allowed(w, tx[w], l)
<1>1. tx' = [tx EXCEPT ![w] = tx[w]]
  BY DEF IInv, Typed
<1>2. Sound(tx[w], pc[w])
  BY DEF IInv
<1>3. Sound(tx[w], l)
  BY <1>2 DEF Sound, Begun
<1>4. tx[w].test \in Test => Known(tx[w].test)
  BY DEF IInv, Targets
<1>5. tx[w].fate = "none" /\ \A t \in Test : tx[w].put[t] = Keep
  BY <1>2 DEF Sound, Begun
<1> QED
  BY <1>1, <1>3, <1>4, <1>5 DEF Allowed

\* What a handler writes and what it has read.
LEMMA WriteAllowed ==
    ASSUME IInv, NEW w \in Worker, pc[w] \in {"handle", "attach"},
           NEW x \in TxRow, NEW l \in {"commit", "rollback"},
           tx' = [tx EXCEPT ![w] = x], Goto(w, l),
           x.op = tx[w].op, x.active = tx[w].active,
           x.status = tx[w].status, x.cards = tx[w].cards,
           x.test = tx[w].test \/ x.op \in Inserting,
           x.test \in Test => Known(x.test) \/ x.put[x.test] # Keep,
           \A o \in Worker \ {w}, t \in Test : x.put[t] # Keep => tx[o].put[t] = Keep,
           RowsSound(x), PublishSound(x), PaintSound(x),
           l = "rollback" => x.fate # "published",
           x.fate = "published" => \A o \in Worker \ {w} : tx[o].fate # "published"
    PROVE  Allowed(w, x, l)
<1>1. Sound(tx[w], pc[w])
  BY DEF IInv
<1>2. Begun(x, l) /\ l \in Place
  BY DEF Begun, Place
<1>3. TargetSound(x)
  BY <1>1 DEF Sound, TargetSound, Inserting, BotPublish, PanelPublish
<1>4. SnapshotSound(x)
  BY <1>1 DEF Sound, SnapshotSound, Inserting, Editing, PublishOp, BotPublish, PanelPublish
<1> QED
  BY <1>2, <1>3, <1>4 DEF Allowed, Sound

LEMMA ToldKept ==
    ASSUME IInv, NEW w \in Worker, NEW x, NEW l, Allowed(w, x, l),
           UNCHANGED <<status, announced, faults>>
    PROVE  ToldOnce'
<1>1. Moves(w, x, l)
  BY MovesTo DEF IInv, Allowed, Sound
<1>2. tx[w].fate = "none"
  BY DEF Allowed, IInv, Sound, Begun
<1>3. \A t \in Test : Told(t) => Told(t)'
  BY <1>1, <1>2 DEF Told, Moves
<1>4. \A t \in Test : Out(t)' <=> Out(t)
  BY DEF Out
<1> QED
  BY <1>3, <1>4, BoundsAssumption DEF IInv, Typed, ToldOnce

\* No new id is shown.
LEMMA SilentKeeps ==
    ASSUME IInv, NEW w \in Worker, NEW x, NEW l, Allowed(w, x, l), Typed',
           x.op \notin Inserting,
           UNCHANGED <<db, previews, door, raced>>,
           fsm'.draft \in {None, fsm.draft}, ToldOnce'
    PROVE  IInv'
<1>1. Moves(w, x, l)
  BY MovesTo DEF IInv, Allowed, Sound
<1>2. \A t \in Test : t = fsm'.draft \/ t \in previews' => Known(t)
  BY Constants DEF IInv, Targets
<1>3. \A o \in Worker, p \in Position :
         tx'[o].op \in Inserting /\ tx'[o].test \in previews' => tx'[o].paint[p] # "wanted"
  BY <1>1 DEF Moves, IInv, Targets
<1> QED
  BY <1>2, <1>3, AllowedKeeps

\* Nothing is announced either.
LEMMA QuietKeeps ==
    ASSUME IInv, NEW w \in Worker, NEW x, NEW l, Allowed(w, x, l), Typed',
           x.op \notin Inserting,
           UNCHANGED <<db, previews, announced, door, raced, faults>>,
           fsm'.draft \in {None, fsm.draft}
    PROVE  IInv'
BY ToldKept, SilentKeeps DEF db

LEMMA EraseAllowed ==
    ASSUME IInv, NEW w \in Worker, pc[w] = "handle", tx[w].op \in Erasing,
           NEW t \in Test, t = tx[w].test, CancelDraft(w, t), Goto(w, "commit")
    PROVE  \E x : Allowed(w, x, "commit") /\ x.op = tx[w].op
<1> DEFINE to    == IF Deletable(t) THEN "deleted" ELSE status[t]
           put   == [tx[w].put EXCEPT ![t] = to]
           paint == IF Deletable(t) THEN Blank ELSE tx[w].paint
           x     == Written(tx[w], t, put, paint, "none")
<1>1. /\ Sound(tx[w], pc[w]) /\ tx[w] \in TxRow
      /\ tx[w].fate = "none" /\ ~Paints(tx[w])
      /\ \A u \in Test : tx[w].put[u] = Keep
  BY DEF IInv, Sound, Begun
<1>2. RowFree(w, t) /\ tx' = [tx EXCEPT ![w] = x]
  <2>1. /\ RowFree(w, t)
        /\ tx' = [tx EXCEPT ![w].put[t] = to, ![w].paint = paint]
    BY DEF CancelDraft, IInv, Typed
  <2>2. tx[w].test = t /\ tx[w].fate = "none" /\ tx \in [Worker -> TxRow]
    BY <1>1 DEF IInv, Typed
  <2> HIDE DEF to, paint
  <2>3. tx' = [tx EXCEPT ![w] = [[tx[w] EXCEPT !.put[t] = to] EXCEPT !.paint = paint]]
    BY <2>1, <2>2
  <2>4. [[tx[w] EXCEPT !.put[t] = to] EXCEPT !.paint = paint] = x
    BY <1>1, <2>2 DEF x, put, Written, TxRow
  <2> QED
    BY <2>1, <2>3, <2>4
<1>3. status[t] \in Status /\ status[t] # "absent"
  BY <1>1, <1>2 DEF IInv, Typed, Targets, Known, RowFree
<1>4. /\ to \in Status /\ to # "absent" 
      /\ to = status[t] \/ (to = "deleted" /\ status[t] = "draft")
  BY <1>3 DEF Deletable, Status
<1>5. /\ put \in [Test -> Status \cup {Keep}] /\ put[t] = to
      /\ \A u \in Test \ {t} : put[u] = Keep
  BY <1>1, <1>4 DEF TxRow
<1>6. /\ paint \in [Position -> Card \cup {Keep}]
      /\ paint = tx[w].paint \/ (to = "deleted" /\ status[t] = "draft")
  BY <1>1, BlankTypes DEF TxRow, Deletable
<1> HIDE DEF put, paint, x, to
<1>7. /\ x \in TxRow /\ x.op = tx[w].op /\ x.active = tx[w].active
      /\ x.status = tx[w].status /\ x.cards = tx[w].cards
      /\ x.test = t /\ x.put = put /\ x.paint = paint /\ x.fate = "none"
  BY <1>1, <1>5, <1>6, WrittenFields DEF x
<1>8. RowsSound(x)
  <2> SUFFICES ASSUME NEW u \in Test
               PROVE  /\ put[u] \in {Keep, status[u]} \/ <<status[u], put[u]>> \in Forward
                      /\ put[u] # "absent"
                      /\ put[u] = "active" => status[u] = "active"
                      /\ put[u] = "archived" => status[u] # "active"
    BY <1>7 DEF RowsSound
  <2> QED
    BY <1>4, <1>5, Constants DEF Forward, Keep
<1>9. PublishSound(x)
  BY <1>7 DEF PublishSound
<1>10. PaintSound(x)
  <2>1. Paints(x) => to = "deleted" /\ status[t] = "draft"
    BY <1>1, <1>6, <1>7 DEF Paints
  <2> QED
    BY <2>1, <1>5, <1>7 DEF PaintSound
<1>11. \A o \in Worker \ {w}, u \in Test : x.put[u] # Keep => tx[o].put[u] = Keep
  BY <1>2, <1>5, <1>7 DEF RowFree
<1>12. x.test \in Test => Known(x.test) \/ x.put[x.test] # Keep
  BY <1>3, <1>7 DEF Known
<1>13. Allowed(w, x, "commit")
  BY <1>2, <1>7, <1>8, <1>9, <1>10, <1>11, <1>12, WriteAllowed
<1> QED
  BY <1>7, <1>13

LEMMA UploadKeeps == ASSUME IInv, NEW w \in Worker, Upload(w) PROVE IInv'
<1> USE DEF Upload, Handles, history
<1>1. PICK x : Allowed(w, x, "commit") /\ x.op = tx[w].op
  <2>1. CASE tx[w].test = None
    BY <2>1, StayAllowed DEF Place
  <2>2. CASE tx[w].test # None
    BY <2>2, EraseAllowed DEF Erasing, IInv, Typed, TxRow
  <2> QED
    BY <2>1, <2>2
<1>2. fsm' \in Flow /\ fsm'.draft = None
  BY DEF NoFlow, Flow
<1>3. Typed'
  BY <1>1, <1>2, MovesTo DEF Allowed, Sound, Moves, IInv, Typed, db
<1> QED
  BY <1>1, <1>2, <1>3, QuietKeeps DEF Inserting

LEMMA CancelKeeps == ASSUME IInv, NEW w \in Worker, Cancel(w) PROVE IInv'
<1> USE DEF Cancel, Handles, history
<1>1. PICK x : Allowed(w, x, "commit") /\ x.op = tx[w].op
  <2>1. CASE tx[w].test = None
    BY <2>1, StayAllowed DEF Place
  <2>2. CASE tx[w].test # None
    BY <2>2, EraseAllowed DEF Erasing, IInv, Typed, TxRow
  <2> QED
    BY <2>1, <2>2
<1>2. fsm' \in Flow /\ fsm'.draft = None
  BY DEF NoFlow, Flow
<1>3. Typed'
  BY <1>1, <1>2, MovesTo DEF Allowed, Sound, Moves, IInv, Typed, db
<1> QED
  BY <1>1, <1>2, <1>3, QuietKeeps DEF Inserting

LEMMA DeleteKeeps == ASSUME IInv, NEW w \in Worker, Delete(w) PROVE IInv'
<1> USE DEF Delete, Handles, chat, history
<1>1. tx[w].test \in Test
  BY DEF IInv, Sound, TargetSound
<1>2. PICK x : Allowed(w, x, "commit") /\ x.op = tx[w].op
  BY <1>1, EraseAllowed DEF Erasing
<1>3. Typed'
  BY <1>2, MovesTo DEF Allowed, Sound, Moves, IInv, Typed, db
<1> QED
  BY <1>2, <1>3, QuietKeeps DEF Inserting

\* A new test: nobody knows its id before.
LEMMA InsertAllowed ==
    ASSUME IInv, NEW w \in Worker, pc[w] = "handle", tx[w].op \in Inserting,
           NEW t \in Test, NEW q \in [Position -> Card], Insert(w, t, q), Goto(w, "commit")
    PROVE  /\ \E x : /\ Allowed(w, x, "commit")
                     /\ x.op = tx[w].op /\ x.test = t /\ x.paint = q /\ x.put[t] # Keep
           /\ ~Known(t)
<1> DEFINE put == [tx[w].put EXCEPT ![t] = "draft"]
           x   == Written(tx[w], t, put, q, "none")
<1>1. /\ Sound(tx[w], pc[w]) /\ tx[w] \in TxRow
      /\ tx[w].fate = "none" /\ ~Paints(tx[w])
      /\ \A u \in Test : tx[w].put[u] = Keep
  BY DEF IInv, Sound, Begun
<1>2. /\ Fresh(t)
      /\ tx' = [tx EXCEPT ![w] = x]
  <2>1. /\ Fresh(t)
        /\ tx' = [tx EXCEPT ![w].test = t, ![w].put[t] = "draft", ![w].paint = q]
    BY DEF Insert, NextId
  <2>2. tx' = [tx EXCEPT ![w] =
          [[[tx[w] EXCEPT !.test = t] EXCEPT !.put[t] = "draft"] EXCEPT !.paint = q]]
    BY <2>1 DEF IInv, Typed
  <2>3. [[[tx[w] EXCEPT !.test = t] EXCEPT !.put[t] = "draft"] EXCEPT !.paint = q] = x
    BY <1>1 DEF Written, TxRow
  <2> QED
    BY <2>1, <2>2, <2>3
<1>3. /\ put \in [Test -> Status \cup {Keep}] /\ put[t] = "draft"
      /\ \A u \in Test \ {t} : put[u] = Keep
  BY <1>1 DEF TxRow, Status
<1>4. q \in [Position -> Card \cup {Keep}]
  OBVIOUS
<1> HIDE DEF put, x
<1>5. /\ x \in TxRow /\ x.op = tx[w].op /\ x.active = tx[w].active
      /\ x.status = tx[w].status /\ x.cards = tx[w].cards
      /\ x.test = t /\ x.put = put /\ x.paint = q /\ x.fate = "none"
  BY <1>1, <1>3, <1>4, WrittenFields DEF x
<1>6. RowsSound(x)
  <2> SUFFICES ASSUME NEW u \in Test
               PROVE  /\ put[u] \in {Keep, status[u]} \/ <<status[u], put[u]>> \in Forward
                      /\ put[u] \notin {"absent", "active", "archived"}
    BY <1>5 DEF RowsSound
  <2> QED
    BY <1>2, <1>3 DEF Forward, Keep, Fresh
<1>7. PublishSound(x)
  BY <1>5 DEF PublishSound
<1>8. PaintSound(x)
  BY <1>2, <1>3, <1>5 DEF PaintSound, Fresh
<1>9. \A o \in Worker \ {w}, u \in Test : x.put[u] # Keep => tx[o].put[u] = Keep
  BY <1>2, <1>3, <1>5 DEF Fresh
<1>10. x.put[t] # Keep
  BY <1>3, <1>5 DEF Keep
<1>11. Allowed(w, x, "commit")
  BY <1>2, <1>5, <1>6, <1>7, <1>8, <1>9, <1>10, WriteAllowed
<1>12. ~Known(t)
  BY <1>2 DEF Known, Fresh
<1> QED
  BY <1>5, <1>10, <1>11, <1>12

\* The new id may be shown by the step that inserts it, if it is whole.
LEMMA InsertKeeps ==
    ASSUME IInv, NEW w \in Worker, pc[w] = "handle", tx[w].op \in Inserting,
           NEW t \in Test, NEW q \in [Position -> Card], Insert(w, t, q), Goto(w, "commit"),
           UNCHANGED <<db, announced, history>>,
           fsm' \in Flow, fsm'.draft \in {fsm.draft, t},
           previews' = previews \/ (previews' = previews \cup {t} /\ Whole(q))
    PROVE  IInv'
<1>1. PICK x : /\ Allowed(w, x, "commit")
               /\ x.op = tx[w].op /\ x.test = t /\ x.paint = q /\ x.put[t] # Keep
  BY InsertAllowed
<1>2. ~Known(t)
  BY InsertAllowed
<1>3. Moves(w, x, "commit")
  BY <1>1, MovesTo DEF IInv, Allowed, Sound
<1>4. Typed'
  BY <1>3 DEF IInv, Typed, Moves, db, history
<1>5. ToldOnce'
  BY <1>1, ToldKept DEF db, history
<1>6. \A u \in Test : u = fsm'.draft \/ u \in previews' => Known(u) \/ x.put[u] # Keep
  BY <1>1 DEF IInv, Targets
<1>7. ASSUME NEW o \in Worker, NEW p \in Position,
             tx'[o].op \in Inserting, tx'[o].test \in previews'
      PROVE  tx'[o].paint[p] # "wanted"
  <2>1. t \notin previews
    BY <1>2 DEF IInv, Targets
  <2>2. CASE o = w
    BY <1>1, <1>3, <1>7, <2>1, <2>2 DEF Moves, Whole
  <2>3. CASE o # w
    <3>1. tx[o].test # t
      BY <1>2 DEF IInv, Targets
    <3> QED
      BY <1>3, <1>7, <2>3, <3>1 DEF Moves, IInv, Targets
  <2> QED
    BY <2>2, <2>3
<1> QED
  BY <1>1, <1>4, <1>5, <1>6, <1>7, AllowedKeeps DEF history

\* A handler that inserts, but does not: parse errors, or the test is gone.
LEMMA NoInsertKeeps ==
    ASSUME IInv, NEW w \in Worker, pc[w] = "handle", Goto(w, "commit"),
           UNCHANGED <<db, chat, tx, history>>
    PROVE  IInv'
<1> USE DEF chat, history
<1>1. Allowed(w, tx[w], "commit")
  BY StayAllowed DEF Place
<1>2. Typed'
  BY <1>1, MovesTo DEF Allowed, Sound, Moves, IInv, Typed, db
<1>3. ToldOnce'
  BY <1>1, ToldKept DEF db
<1>4. \A u \in Test : u = fsm'.draft \/ u \in previews' => Known(u)
  BY DEF IInv, Targets
<1>5. \A o \in Worker, p \in Position :
         tx'[o].op \in Inserting /\ tx'[o].test \in previews' => tx'[o].paint[p] # "wanted"
  BY DEF IInv, Targets
<1> QED
  BY <1>1, <1>2, <1>3, <1>4, <1>5, AllowedKeeps

LEMMA FileKeeps == ASSUME IInv, NEW w \in Worker, File(w) PROVE IInv'
<1> USE DEF File, Handles
<1>1. tx[w].op \in Inserting
  BY DEF Inserting
<1>2. ASSUME NEW t \in Test, NEW sheet \in [Position -> {"text", "wanted"}],
             Insert(w, t, sheet),
             IF Missing(sheet) = {} THEN Preview(t) ELSE AskPhoto(t)
      PROVE  IInv'
  <2>1. sheet \in [Position -> Card]
    BY DEF Card
  <2>2. fsm' \in Flow /\ fsm'.draft = t
    BY <1>2 DEF Flow, Preview, AskPhoto
  <2>3. previews' = previews \/ (previews' = previews \cup {t} /\ Whole(sheet))
    BY <1>2, MissingWhole DEF Preview, AskPhoto
  <2> QED
    BY <1>1, <1>2, <2>1, <2>2, <2>3, InsertKeeps
<1>3. CASE UNCHANGED <<tx, fsm, previews>>
  BY <1>3, NoInsertKeeps DEF chat
<1> QED
  BY <1>2, <1>3

LEMMA NewKeeps == ASSUME IInv, NEW w \in Worker, New(w) PROVE IInv'
<1> USE DEF New, Handles, chat
<1>1. PICK t \in Test : Insert(w, t, Blank)
  OBVIOUS
<1>2. fsm' \in Flow /\ Blank \in [Position -> Card]
  BY BlankTypes DEF IInv, Typed
<1> QED
  BY <1>1, <1>2, InsertKeeps DEF Inserting

LEMMA DuplicateKeeps == ASSUME IInv, NEW w \in Worker, Duplicate(w) PROVE IInv'
<1> USE DEF Duplicate, Handles
<1>1. CASE tx[w].status = "deleted"
  BY <1>1, NoInsertKeeps
<1>2. CASE tx[w].status # "deleted"
  <2>1. PICK t \in Test : Insert(w, t, tx[w].cards)
    BY <1>2
  <2>2. fsm' \in Flow /\ tx[w].cards \in [Position -> Card]
    BY DEF IInv, Typed, TxRow, chat
  <2> QED
    BY <2>1, <2>2, InsertKeeps DEF Inserting, chat
<1> QED
  BY <1>1, <1>2

\* A handler that writes questions of its test, and of a row at most as it is.
LEMMA EditAllowed ==
    ASSUME IInv, NEW w \in Worker, pc[w] \in {"handle", "attach"},
           tx[w].op \in Editing, tx[w].test \in Test,
           NEW put \in [Test -> Status \cup {Keep}],
           NEW q \in [Position -> Card \cup {Keep}],
           tx' = [tx EXCEPT ![w] = Written(tx[w], tx[w].test, put, q, "none")],
           Goto(w, "commit"),
           \A u \in Test : put[u] = Keep \/ (put[u] = status[u] /\ put[u] # "absent"
                                              /\ RowFree(w, u)),
           \/ \A p \in Position : q[p] = Keep
           \/ tx[w].op \in {"save", "image"} /\ tx[w].status = "draft"
           \/ tx[w].op = "photo" /\ ~Whole(tx[w].cards)
    PROVE  \E x : Allowed(w, x, "commit") /\ x.op = tx[w].op
<1> DEFINE x == Written(tx[w], tx[w].test, put, q, "none")
<1>1. tx[w] \in TxRow /\ Known(tx[w].test)
  BY DEF IInv, Typed, Targets
<1> HIDE DEF x
<1>2. /\ x \in TxRow /\ x.op = tx[w].op /\ x.active = tx[w].active
      /\ x.status = tx[w].status /\ x.cards = tx[w].cards
      /\ x.test = tx[w].test /\ x.put = put /\ x.paint = q /\ x.fate = "none"
  BY <1>1, WrittenFields DEF x
<1>3. RowsSound(x)
  BY <1>2 DEF RowsSound, Keep
<1>4. PublishSound(x) /\ PaintSound(x)
  BY <1>2 DEF PublishSound, PaintSound, Paints
<1>5. \A o \in Worker \ {w}, u \in Test : x.put[u] # Keep => tx[o].put[u] = Keep
  BY <1>2 DEF RowFree
<1>6. tx' = [tx EXCEPT ![w] = x]
  BY DEF x
<1>7. Allowed(w, x, "commit")
  BY <1>1, <1>2, <1>3, <1>4, <1>5, <1>6, WriteAllowed
<1> QED
  BY <1>2, <1>7

LEMMA SaveKeeps == ASSUME IInv, NEW w \in Worker, Save(w) PROVE IInv'
<1> USE DEF Save, Handles, chat, history
<1>1. /\ Sound(tx[w], pc[w]) /\ tx[w] \in TxRow /\ tx[w].status = "draft"
      /\ tx[w].fate = "none" /\ \A u \in Test : tx[w].put[u] = Keep
  BY DEF IInv, Sound, Begun, SawDraft
<1>2. PICK t \in Test : t = tx[w].test
  BY <1>1 DEF Sound, TargetSound
<1>3. status[t] # "absent" /\ status[t] \in Status /\ RowFree(w, t)
  BY <1>1, <1>2 DEF Sound, TargetSound, Inserting, IInv, Typed
<1>4. \E x, l : Allowed(w, x, l) /\ x.op = tx[w].op
  <2>1. CASE tx' = tx /\ Goto(w, "rollback")
    BY <2>1, StayAllowed DEF Place
  <2>2. CASE status[t] # "deleted" /\ Goto(w, "commit")
             /\ \E form \in Forms :
                   tx' = [tx EXCEPT ![w].put[t] = status[t],
                                    ![w].paint = Carried(form, tx[w].cards)]
    <3>1. PICK form \in Forms :
              tx' = [tx EXCEPT ![w].put[t] = status[t],
                               ![w].paint = Carried(form, tx[w].cards)]
      BY <2>2
    <3> DEFINE put == [tx[w].put EXCEPT ![t] = status[t]]
               q   == Carried(form, tx[w].cards)
    <3>2. q \in [Position -> Card \cup {Keep}]
      BY <1>1, FormsAssumption DEF Carried, TxRow, Card, HasFile
    <3>3. /\ put \in [Test -> Status \cup {Keep}] /\ put[t] = status[t]
          /\ \A u \in Test \ {t} : put[u] = Keep
      BY <1>1, <1>3 DEF TxRow
    <3>4. tx' = [tx EXCEPT ![w] = [[tx[w] EXCEPT !.put[t] = status[t]] EXCEPT !.paint = q]]
      BY <3>1 DEF IInv, Typed
    <3>5. [[tx[w] EXCEPT !.put[t] = status[t]] EXCEPT !.paint = q]
             = Written(tx[w], tx[w].test, put, q, "none")
      BY <1>1 DEF Written, TxRow
    <3> HIDE DEF put, q
    <3>6. tx' = [tx EXCEPT ![w] = Written(tx[w], tx[w].test, put, q, "none")]
      BY <3>4, <3>5
    <3>7. \A u \in Test : put[u] = Keep \/ (put[u] = status[u] /\ put[u] # "absent"
                                                /\ RowFree(w, u))
      BY <1>3, <3>3
    <3>8. /\ tx[w].op = "save" /\ tx[w].op \in Editing /\ tx[w].test \in Test
          /\ pc[w] \in {"handle", "attach"}
      BY <1>2 DEF Editing
    <3> HIDE DEF Save, Handles
    <3>9. \E x : Allowed(w, x, "commit") /\ x.op = tx[w].op
      BY <1>1, <2>2, <3>2, <3>3, <3>6, <3>7, <3>8, EditAllowed
    <3> QED
      BY <3>9
  <2> QED
    BY <1>2, <2>1, <2>2
<1>5. PICK x, l : Allowed(w, x, l) /\ x.op = tx[w].op
  BY <1>4
<1>6. Typed'
  BY <1>5, MovesTo DEF Allowed, Sound, Moves, IInv, Typed, db
<1> QED
  BY <1>5, <1>6, QuietKeeps DEF Inserting

LEMMA ImageKeeps == ASSUME IInv, NEW w \in Worker, Image(w) PROVE IInv'
<1> USE DEF Image, Handles, chat, history
<1>1. Allowed(w, tx[w], "attach")
  BY StayAllowed DEF Place, SawDraft
<1>2. Typed'
  BY <1>1, MovesTo DEF Allowed, Sound, Moves, IInv, Typed, db
<1> QED
  BY <1>1, <1>2, QuietKeeps DEF Inserting

LEMMA PaintOne ==
    ASSUME IInv, NEW w \in Worker, pc[w] \in {"handle", "attach"},
           NEW p, NEW c, p \in Position => c \in Card \cup {Keep},
           tx' = [tx EXCEPT ![w].paint[p] = c]
    PROVE  \E q \in [Position -> Card \cup {Keep}] :
              tx' = [tx EXCEPT ![w] = Written(tx[w], tx[w].test, tx[w].put, q, "none")]
<1> DEFINE q == [tx[w].paint EXCEPT ![p] = c]
<1>1. tx[w] \in TxRow /\ tx[w].fate = "none"
  BY DEF IInv, Sound, Begun
<1>2. q \in [Position -> Card \cup {Keep}]
  BY <1>1 DEF TxRow
<1>3. tx' = [tx EXCEPT ![w] = [tx[w] EXCEPT !.paint[p] = c]]
  BY DEF IInv, Typed
<1>4. [tx[w] EXCEPT !.paint[p] = c] = Written(tx[w], tx[w].test, tx[w].put, q, "none")
  BY <1>1 DEF Written, TxRow
<1> HIDE DEF q
<1> QED
  BY <1>2, <1>3, <1>4

LEMMA AttachKeeps == ASSUME IInv, NEW w \in Worker, Attach(w) PROVE IInv'
<1> USE DEF Attach, chat, history
<1>1. /\ Sound(tx[w], pc[w]) /\ tx[w] \in TxRow /\ tx[w].status = "draft"
      /\ tx[w].op = "image" /\ \A u \in Test : tx[w].put[u] = Keep
  BY DEF IInv, Sound, Begun
<1>2. tx[w].test \in Test
  BY <1>1 DEF Sound, TargetSound
<1>3. PICK p \in Position :
         tx' = [tx EXCEPT ![w].paint[p] =
                    IF Flagged(cards[tx[w].test][p]) THEN WithImage(cards[tx[w].test][p]) ELSE @]
  OBVIOUS
<1> DEFINE c == IF Flagged(cards[tx[w].test][p]) THEN WithImage(cards[tx[w].test][p])
                ELSE tx[w].paint[p]
<1>4. c \in Card \cup {Keep}
  BY <1>1 DEF WithImage, Card, TxRow
<1>5. tx' = [tx EXCEPT ![w].paint[p] = c]
  BY <1>3 DEF IInv, Typed
<1> HIDE DEF c
<1>6. PICK q \in [Position -> Card \cup {Keep}] :
              tx' = [tx EXCEPT ![w] = Written(tx[w], tx[w].test, tx[w].put, q, "none")]
  BY <1>4, <1>5, PaintOne
<1>7. tx[w].put \in [Test -> Status \cup {Keep}]
  BY <1>1 DEF TxRow
<1>8. PICK x : Allowed(w, x, "commit") /\ x.op = tx[w].op
  BY <1>1, <1>2, <1>6, <1>7, EditAllowed DEF Editing
<1>9. Typed'
  BY <1>8, MovesTo DEF Allowed, Sound, Moves, IInv, Typed, db
<1> QED
  BY <1>1, <1>8, <1>9, QuietKeeps DEF Inserting

\* The photo handler shows the preview of a test that is there already: who
\* still inserts a test of that id has nothing to paint.
LEMMA PhotoShows ==
    ASSUME IInv, NEW w \in Worker, NEW x, Allowed(w, x, "commit"), tx[w].op = "photo",
           NEW t \in Test, t = tx[w].test, status[t] # "absent",
           Preview(t) \/ AskPhoto(t),
           UNCHANGED <<db, announced, history>>
    PROVE  IInv'
<1> USE DEF Preview, AskPhoto, history
<1>1. Moves(w, x, "commit")
  BY MovesTo DEF IInv, Allowed, Sound
<1>2. /\ fsm' \in Flow /\ fsm'.draft = t
      /\ previews \subseteq previews' /\ previews' \subseteq previews \cup {t}
  BY DEF Flow
<1>3. Typed'
  BY <1>1, <1>2 DEF Moves, IInv, Typed, db
<1>4. ToldOnce'
  BY ToldKept DEF db
<1>5. \A u \in Test : u = fsm'.draft \/ u \in previews' => Known(u)
  BY <1>2 DEF IInv, Targets, Known
<1>6. ASSUME NEW o \in Worker, NEW p \in Position,
             tx'[o].op \in Inserting, tx'[o].test \in previews'
      PROVE  tx'[o].paint[p] # "wanted"
  <2>1. o # w /\ tx'[o] = tx[o]
    BY <1>1, <1>6 DEF Moves, Allowed, Inserting
  <2>2. CASE tx[o].test \in previews
    BY <1>6, <2>1, <2>2 DEF IInv, Targets
  <2>3. CASE tx[o].test = t
    <3>1. PaintSound(tx[o]) /\ tx[o].op \in Inserting
      BY <1>6, <2>1 DEF IInv, Sound
    <3>2. ~Paints(tx[o])
      BY <3>1, <2>3 DEF PaintSound, Inserting, Erasing
    <3> QED
      BY <2>1, <3>2 DEF Paints, Keep
  <2> QED
    BY <1>2, <1>6, <2>1, <2>2, <2>3
<1> QED
  BY <1>2, <1>3, <1>4, <1>5, <1>6, AllowedKeeps

LEMMA PhotoKeeps == ASSUME IInv, NEW w \in Worker, Photo(w) PROVE IInv'
<1> DEFINE pending == Missing(tx[w].cards)
           first   == CHOOSE p \in pending : \A q \in pending : p <= q
           hit     == Flagged(cards[tx[w].test][first])
<1>1. /\ pc[w] = "handle" /\ tx[w].op = "photo" /\ Goto(w, "commit")
      /\ UNCHANGED <<db, announced, history>>
  BY DEF Photo, Handles
<1>2. \/ pending = {} /\ fsm' = NoFlow /\ UNCHANGED <<tx, previews>>
      \/ /\ pending = {} /\ tx[w].status \notin {"absent", "deleted"}
         /\ Preview(tx[w].test) /\ UNCHANGED tx
      \/ /\ pending # {}
         /\ tx' = [tx EXCEPT ![w].paint[first] =
                       IF hit THEN WithImage(cards[tx[w].test][first]) ELSE @]
         /\ Preview(tx[w].test) \/ AskPhoto(tx[w].test)
  BY DEF Photo
<1>3. /\ Sound(tx[w], pc[w]) /\ tx[w] \in TxRow
      /\ tx[w].fate = "none" /\ \A u \in Test : tx[w].put[u] = Keep
  BY <1>1 DEF IInv, Sound, Begun
<1>4. tx[w].status # "absent" => tx[w].test \in Test /\ status[tx[w].test] # "absent"
  BY <1>1, <1>3 DEF Sound, TargetSound, Inserting
<1>5. pending # {} => tx[w].status # "absent" /\ ~Whole(tx[w].cards)
  BY <1>1, <1>3, MissingWhole DEF Sound, TargetSound
<1>6. CASE pending = {}
  <2>1. tx' = tx
    BY <1>2, <1>6
  <2>2. Allowed(w, tx[w], "commit")
    BY <1>1, <2>1, StayAllowed DEF Place
  <2>3. CASE fsm' = NoFlow /\ UNCHANGED previews
    <3>1. fsm' \in Flow /\ fsm'.draft = None
      BY <2>3 DEF NoFlow, Flow
    <3>2. Typed'
      BY <1>1, <2>2, <2>3, <3>1, MovesTo DEF Allowed, Sound, Moves, IInv, Typed, db, history
    <3> QED
      BY <1>1, <2>2, <2>3, <3>1, <3>2, QuietKeeps DEF Inserting, history
  <2>4. CASE tx[w].status \notin {"absent", "deleted"} /\ Preview(tx[w].test)
    BY <1>1, <1>4, <2>2, <2>4, PhotoShows
  <2> QED
    BY <1>2, <1>6, <2>3, <2>4
<1>7. CASE pending # {}
  <2>1. /\ tx[w].test \in Test /\ status[tx[w].test] # "absent" /\ ~Whole(tx[w].cards)
        /\ Preview(tx[w].test) \/ AskPhoto(tx[w].test)
        /\ tx' = [tx EXCEPT ![w].paint[first] =
                       IF hit THEN WithImage(cards[tx[w].test][first]) ELSE @]
    BY <1>2, <1>4, <1>5, <1>7
  <2> DEFINE c == IF hit THEN WithImage(cards[tx[w].test][first]) ELSE tx[w].paint[first]
  <2> HIDE DEF first, pending, hit
  <2>4. PICK q \in [Position -> Card \cup {Keep}] :
                tx' = [tx EXCEPT ![w] = Written(tx[w], tx[w].test, tx[w].put, q, "none")]
    <3>1. tx' = [tx EXCEPT ![w].paint[first] = c]
      BY <2>1 DEF IInv, Typed
    <3>2. first \in Position => c \in Card \cup {Keep}
      BY <1>3 DEF WithImage, Card, TxRow
    <3> HIDE DEF c
    <3> QED
      BY <1>1, <3>1, <3>2, PaintOne
  <2>5. tx[w].put \in [Test -> Status \cup {Keep}]
    BY <1>3 DEF TxRow
  <2>6. /\ pc[w] \in {"handle", "attach"} /\ tx[w].op \in Editing
        /\ tx[w].op = "photo" /\ ~Whole(tx[w].cards)
        /\ \A u \in Test : tx[w].put[u] = Keep
    BY <1>1, <1>3, <2>1 DEF Editing
  <2> HIDE DEF c
  <2>7. PICK x : Allowed(w, x, "commit") /\ x.op = tx[w].op
    BY <1>1, <2>1, <2>4, <2>5, <2>6, EditAllowed
  <2> QED
    BY <1>1, <2>1, <2>7, PhotoShows
<1> QED
  BY <1>6, <1>7

-----------------------------------------------------------------------------
(* publish(). *)

\* PublishEnds as a write of one record, with f over the rows.
EndsWith(w, t, fate, f, put) ==
    /\ put = [u \in Test |-> put[u]]
    /\ \A u \in Test : put[u] = IF u \in DOMAIN f THEN f[u] ELSE tx[w].put[u]
    /\ tx' = [tx EXCEPT ![w] = Written(tx[w], t, put, tx[w].paint, fate)]

LEMMA PublishEndsWrites ==
    ASSUME Typed, NEW w \in Worker, NEW t, t = tx[w].test, NEW fate, NEW f,
           PublishEnds(w, t, fate, f)
    PROVE  \E put : EndsWith(w, t, fate, f, put)
<1> DEFINE put == [u \in Test |-> IF u \in DOMAIN f THEN f[u] ELSE tx[w].put[u]]
<1>1. tx[w] \in TxRow
  BY DEF Typed
<1>2. tx' = [tx EXCEPT ![w].fate = fate, ![w].put = put]
  BY <1>1 DEF PublishEnds, Typed, TxRow
<1>3. /\ put = [u \in Test |-> put[u]]
      /\ \A u \in Test : put[u] = IF u \in DOMAIN f THEN f[u] ELSE tx[w].put[u]
  OBVIOUS
<1> HIDE DEF put
<1>4. tx' = [tx EXCEPT ![w] = [[tx[w] EXCEPT !.fate = fate] EXCEPT !.put = put]]
  BY <1>2 DEF Typed
<1>5. [[tx[w] EXCEPT !.fate = fate] EXCEPT !.put = put]
         = Written(tx[w], t, put, tx[w].paint, fate)
  BY <1>1 DEF Written, TxRow
<1> QED
  BY <1>3, <1>4, <1>5 DEF EndsWith

\* What a publish() that ends in fate makes of the rows it locks.
PublishPuts(w, t, fate, put) ==
    /\ fate \in {"refused", "conflict", "published"}
    /\ tx' = [tx EXCEPT ![w] = Written(tx[w], t, put, tx[w].paint, fate)]
    /\ \A u \in Test : put[u] # Keep => RowFree(w, u)
    /\ \A u \in Test :
          \/ put[u] = Keep
          \/ put[u] = status[u] /\ put[u] # "absent"
          \/ put[u] = "archived" /\ status[u] = "active" /\ fate # "conflict"
          \/ put[u] = "active" /\ status[u] = "draft" /\ u = t /\ fate = "published"
    /\ fate = "published" =>
          /\ IndexFree(w) /\ Whole(tx[w].cards)
          /\ put[t] = "active" /\ status[t] = "draft"
          /\ \A u \in Active : put[u] = "archived"

\* What the rows locked by publish() become.  The active test of the snapshot
\* is the only one there is, so a conflict has archived nothing.
LEMMA PublishOutcome ==
    ASSUME IInv, NEW w \in Worker, pc[w] = "handle",
           NEW t \in Test, t = tx[w].test, NEW fate, Publish(w, t, fate)
    PROVE  \E put \in [Test -> Status \cup {Keep}] : PublishPuts(w, t, fate, put)
<1> USE DEF PublishPuts
<1> DEFINE old   == {tx[w].active} \ {None, t}
           locks == \A u \in old \cup {t} : RowFree(w, u)
           gone  == \E u \in old : status[u] # "active"
<1>1. /\ tx[w] \in TxRow /\ \A u \in Test : tx[w].put[u] = Keep
      /\ \A u \in old : u \in Test /\ u # t /\ status[u] \in {"active", "archived"}
  BY DEF IInv, Sound, Begun, TargetSound, Out, TxRow
<1>2. status \in [Test -> Status] /\ Typed
  BY DEF IInv, Typed
<1>3. CASE fate = "refused" /\ PublishEnds(w, t, fate, <<>>)
  <2> DEFINE f == <<>>
  <2>1. DOMAIN f = {} /\ PublishEnds(w, t, fate, f)
    BY <1>3
  <2> HIDE DEF f
  <2>2. PICK put : EndsWith(w, t, fate, f, put)
    BY <1>2, <2>1, PublishEndsWrites
  <2> USE DEF EndsWith
  <2>3. put \in [Test -> Status \cup {Keep}] /\ \A u \in Test : put[u] = Keep
    BY <1>1, <2>1, <2>2
  <2>4. fate = "refused"
    BY <1>3
  <2> QED
    BY <2>2, <2>3, <2>4
<1>4. CASE locks /\ gone /\ fate = "refused" /\ PublishEnds(w, t, fate, [u \in old |-> status[u]])
  <2> DEFINE f == [u \in old |-> status[u]]
  <2>1. /\ DOMAIN f = old /\ \A u \in old : f[u] = status[u]
        /\ PublishEnds(w, t, fate, f)
    BY <1>4
  <2> HIDE DEF f
  <2>2. PICK put : EndsWith(w, t, fate, f, put)
    BY <1>2, <2>1, PublishEndsWrites
  <2> USE DEF EndsWith
  <2> HIDE DEF old
  <2>3. \A u \in Test : IF u \in old THEN put[u] = status[u] ELSE put[u] = Keep
    BY <1>1, <2>1, <2>2
  <2>4. put \in [Test -> Status \cup {Keep}]
    BY <1>1, <1>2, <2>1, <2>2
  <2>5. \A u \in Test : put[u] # Keep => RowFree(w, u)
    BY <1>4, <2>3
  <2>6. \A u \in Test : put[u] = Keep \/ (put[u] = status[u] /\ put[u] # "absent")
    BY <1>1, <2>3
  <2> QED
    BY <1>4, <2>2, <2>4, <2>5, <2>6
<1>5. CASE /\ locks /\ ~gone
           /\ fate = "refused" \/ (fate = "conflict" /\ Active \ old # {})
           /\ PublishEnds(w, t, fate, [u \in old |-> "archived"])
  <2> DEFINE f == [u \in old |-> "archived"]
  <2>1. /\ DOMAIN f = old /\ \A u \in old : f[u] = "archived"
        /\ PublishEnds(w, t, fate, f)
    BY <1>5
  <2> HIDE DEF f
  <2>2. PICK put : EndsWith(w, t, fate, f, put)
    BY <1>2, <2>1, PublishEndsWrites
  <2> USE DEF EndsWith
  <2>3. \A u \in old : status[u] = "active" /\ u \in Active
    BY <1>1, <1>5 DEF Active
  <2>4. fate = "conflict" => old = {}
    BY <1>5, <2>3 DEF IInv, RowsKept
  <2> HIDE DEF old
  <2>5. \A u \in Test : IF u \in old THEN put[u] = "archived" ELSE put[u] = Keep
    BY <1>1, <2>1, <2>2
  <2>6. put \in [Test -> Status \cup {Keep}]
    BY <1>1, <2>1, <2>2 DEF Status
  <2>7. fate \in {"refused", "conflict"} /\ "archived" # Keep
    BY <1>5 DEF Keep
  <2>8. \A u \in Test : put[u] # Keep => RowFree(w, u)
    BY <1>5, <2>5
  <2>9. \A u \in Test :
           \/ put[u] = Keep
           \/ put[u] = "archived" /\ status[u] = "active" /\ fate # "conflict"
    BY <2>3, <2>4, <2>5
  <2> QED
    BY <2>2, <2>6, <2>7, <2>8, <2>9
<1>6. CASE /\ locks /\ ~gone /\ status[t] = "draft" /\ IndexFree(w) /\ Active \ old = {}
           /\ Missing(tx[w].cards) = {} /\ fate = "published"
           /\ PublishEnds(w, t, fate, [u \in old \cup {t} |->
                                          IF u = t THEN "active" ELSE "archived"])
  <2> DEFINE f == [u \in old \cup {t} |-> IF u = t THEN "active" ELSE "archived"]
  <2>1. /\ DOMAIN f = old \cup {t} /\ f[t] = "active" /\ \A u \in old : f[u] = "archived"
        /\ PublishEnds(w, t, fate, f)
    BY <1>1, <1>6
  <2> HIDE DEF f
  <2>2. PICK put : EndsWith(w, t, fate, f, put)
    BY <1>2, <2>1, PublishEndsWrites
  <2> USE DEF EndsWith
  <2>3. /\ \A u \in old : status[u] = "active" /\ u \in Test
        /\ \A u \in Active : u \in old
        /\ status[t] = "draft"
    BY <1>1, <1>6 DEF Active
  <2>4. \A u \in old \cup {t} : RowFree(w, u)
    BY <1>6
  <2>5. Whole(tx[w].cards) /\ IndexFree(w) /\ fate = "published"
    BY <1>6, MissingWhole
  <2>6. \A u \in old : u # t
    OBVIOUS
  <2> HIDE DEF old
  <2>7. /\ put[t] = "active" /\ \A u \in old : put[u] = "archived"
        /\ \A u \in Test : u \notin old \cup {t} => put[u] = Keep
    BY <1>1, <2>1, <2>2, <2>3, <2>6
  <2>8. put \in [Test -> Status \cup {Keep}]
    BY <1>1, <2>1, <2>2 DEF Status
  <2>9. \A u \in Test : put[u] # Keep => RowFree(w, u)
    BY <2>4, <2>7
  <2>10. \A u \in Test :
            \/ put[u] = Keep
            \/ put[u] = "archived" /\ status[u] = "active"
            \/ put[u] = "active" /\ status[u] = "draft" /\ u = t
    BY <2>3, <2>7
  <2>11. \A u \in Active : put[u] = "archived"
    BY <2>3, <2>7
  <2> QED
    BY <2>2, <2>3, <2>5, <2>7, <2>8, <2>9, <2>10, <2>11
<1> QED
  BY <1>3, <1>4, <1>5, <1>6 DEF Publish

\* A publish() of t by w that ends in fate, on to l.
Publishes(w, t, fate, l) ==
    /\ \E x : Allowed(w, x, l) /\ x.op = tx[w].op /\ x.test = t /\ x.fate = fate
    /\ fate = "published" => status[t] = "draft" /\ ~Told(t)

LEMMA PublishAllowed ==
    ASSUME IInv, NEW w \in Worker, pc[w] = "handle", tx[w].op \in PublishOp,
           NEW t \in Test, t = tx[w].test, NEW fate, Publish(w, t, fate),
           tx[w].op \in PanelPublish => Full(tx[w].cards),
           NEW l \in {"commit", "rollback"}, Goto(w, l),
           l = "rollback" => fate # "published"
    PROVE  Publishes(w, t, fate, l)
<1>1. /\ Sound(tx[w], pc[w]) /\ tx[w] \in TxRow /\ ~Paints(tx[w])
  BY DEF IInv, Sound, Begun
<1>2. PICK put \in [Test -> Status \cup {Keep}] : PublishPuts(w, t, fate, put)
  BY PublishOutcome
<1> USE DEF PublishPuts
<1> DEFINE x == Written(tx[w], t, put, tx[w].paint, fate)
<1>3. tx[w].paint \in [Position -> Card \cup {Keep}] /\ tx' = [tx EXCEPT ![w] = x]
  BY <1>1, <1>2 DEF TxRow
<1> HIDE DEF x
<1>4. /\ x \in TxRow /\ x.op = tx[w].op /\ x.active = tx[w].active
      /\ x.status = tx[w].status /\ x.cards = tx[w].cards
      /\ x.test = t /\ x.put = put /\ x.paint = tx[w].paint /\ x.fate = fate
  <2>1. tx[w] \in TxRow /\ t \in Test \cup {None}
    BY <1>1
  <2>2. /\ fate \in {"none", "refused", "conflict", "published"}
        /\ put \in [Test -> Status \cup {Keep}]
    BY <1>2
  <2>3. x = Written(tx[w], t, put, tx[w].paint, fate)
    BY DEF x
  <2> HIDE DEF PublishPuts
  <2> QED
    BY <1>3, <2>1, <2>2, <2>3, WrittenFields
<1>5. RowsSound(x)
  <2> SUFFICES ASSUME NEW u \in Test
               PROVE  /\ put[u] \in {Keep, status[u]} \/ <<status[u], put[u]>> \in Forward
                      /\ put[u] # "absent"
                      /\ put[u] = "active" /\ status[u] # "active" =>
                            t = u /\ fate = "published"
                      /\ put[u] = "archived" /\ status[u] = "active" =>
                            fate \in {"refused", "published"}
    BY <1>4 DEF RowsSound
  <2> QED
    BY <1>2 DEF Forward, Keep
<1>6. PublishSound(x)
  BY <1>2, <1>4 DEF PublishSound
<1>7. PaintSound(x)
  BY <1>1, <1>4 DEF PaintSound, Paints
<1>8. \A o \in Worker \ {w}, u \in Test : x.put[u] # Keep => tx[o].put[u] = Keep
  BY <1>2, <1>4 DEF RowFree
<1>9. Known(t)
  BY DEF IInv, Targets
<1>10. fate = "published" => \A o \in Worker \ {w} : tx[o].fate # "published"
  <2> SUFFICES ASSUME fate = "published", NEW o \in Worker \ {w}, tx[o].fate = "published"
               PROVE  FALSE
    OBVIOUS
  <2>1. PublishSound(tx[o]) /\ PaintSound(tx[o]) /\ TargetSound(tx[o])
    BY DEF IInv, Sound
  <2>2. /\ tx[o].put[tx[o].test] = "active" /\ status[tx[o].test] = "draft"
        /\ tx[o].op \in PublishOp
    BY <2>1 DEF PublishSound
  <2>3. PICK u \in Test : u = tx[o].test
    BY <2>1, <2>2 DEF TargetSound, PublishOp, IInv, Typed
  <2>4. IndexFree(w) /\ tx[o].put[u] = "active" /\ status[u] = "draft"
    BY <1>2, <2>2, <2>3
  <2>5. tx[o].put[u] \in {Keep, status[u]} \/ "active" \notin {tx[o].put[u], status[u]}
    BY <2>4 DEF IndexFree
  <2> QED
    BY <2>4, <2>5 DEF Keep
<1> HIDE DEF PublishPuts
<1>11. Allowed(w, x, l)
  <2>1. /\ x.test = tx[w].test
        /\ x.test \in Test => Known(x.test) \/ x.put[x.test] # Keep
        /\ l = "rollback" => x.fate # "published"
        /\ x.fate = "published" => \A o \in Worker \ {w} : tx[o].fate # "published"
    BY <1>4, <1>9, <1>10
  <2> QED
    BY <1>3, <1>4, <1>5, <1>6, <1>7, <1>8, <2>1, WriteAllowed
<1>12. fate = "published" => ~Told(t)
  BY <1>1, <1>10 DEF Told, Sound, Begun
<1> QED
  BY <1>2, <1>4, <1>11, <1>12 DEF PublishPuts, Publishes

LEMMA PublishTapKeeps == ASSUME IInv, NEW w \in Worker, PublishTap(w) PROVE IInv'
<1>1. /\ pc[w] = "handle" /\ tx[w].op \in BotPublish
      /\ UNCHANGED <<db, previews, history>>
  BY DEF PublishTap
<1>2. PICK t \in Test : t = tx[w].test
  BY <1>1 DEF IInv, Typed, Sound, TargetSound
<1>3. /\ tx[w].op \in PublishOp /\ tx[w].op \notin PanelPublish
      /\ tx[w].op \notin Inserting
  BY <1>1 DEF PublishOp, BotPublish, PanelPublish, Inserting
<1>4. CASE /\ Publish(w, t, "conflict") /\ Goto(w, "rollback")
           /\ UNCHANGED <<fsm, announced>>
  <2>0. Publishes(w, t, "conflict", "rollback")
    BY <1>1, <1>2, <1>3, <1>4, PublishAllowed
  <2>1. PICK x : Allowed(w, x, "rollback") /\ x.op = tx[w].op
    BY <2>0 DEF Publishes
  <2>2. Typed'
    BY <1>1, <1>4, <2>1, MovesTo DEF Allowed, Sound, Moves, IInv, Typed, db, history
  <2> QED
    BY <1>1, <1>3, <1>4, <2>1, <2>2, QuietKeeps DEF history
<1>5. ASSUME NEW fate \in {"refused", "published"}, Publish(w, t, fate),
             announced' = IF Announces(w, fate) THEN [announced EXCEPT ![t] = @ + 1]
                          ELSE announced,
             fsm' = NoFlow, Goto(w, "commit")
      PROVE  IInv'
  <2>1. Publishes(w, t, fate, "commit")
    BY <1>1, <1>2, <1>3, <1>5, PublishAllowed
  <2> USE DEF Publishes
  <2>2. PICK x : Allowed(w, x, "commit") /\ x.op = tx[w].op /\ x.test = t /\ x.fate = fate
    BY <2>1
  <2>3. Moves(w, x, "commit")
    BY <2>2, MovesTo DEF IInv, Allowed, Sound
  <2>4. fsm' \in Flow /\ fsm'.draft = None
    BY <1>5 DEF NoFlow, Flow
  <2>5. announced' \in [Test -> Nat]
    BY <1>5 DEF IInv, Typed
  <2>6. Typed'
    BY <1>1, <2>3, <2>4, <2>5 DEF Moves, IInv, Typed, db, history
  <2>7. CASE ~Announces(w, fate)
    BY <1>1, <1>3, <1>5, <2>2, <2>4, <2>6, <2>7, QuietKeeps DEF history
  <2>8. CASE Announces(w, fate)
    <3>1. fate = "published" /\ status[t] = "draft" /\ ~Told(t)
      BY <2>1, <2>8 DEF Announces
    <3>2. Told(t)'
      BY <1>1, <2>2, <2>3, <3>1 DEF Told, Moves
    <3>3. \A u \in Test : (Told(u) => Told(u)') /\ (Out(u)' <=> Out(u))
      <4>1. tx[w].fate = "none"
        BY <1>1 DEF IInv, Sound, Begun
      <4> QED
        BY <1>1, <2>3, <4>1 DEF Told, Moves, Out, db
    <3>4. /\ announced'[t] = announced[t] + 1
          /\ \A u \in Test \ {t} : announced'[u] = announced[u]
      BY <1>5, <2>8 DEF IInv, Typed
    <3>5. announced[t] <= faults
      BY <3>1, BoundsAssumption DEF IInv, ToldOnce, Typed, Out
    <3>6. faults \in Nat /\ faults' = faults /\ \A u \in Test : announced[u] \in Nat
      BY <1>1, BoundsAssumption DEF IInv, Typed, history
    <3>7. ASSUME NEW u \in Test
          PROVE  announced'[u] <= faults + (IF Out(u)' \/ Told(u)' THEN 1 ELSE 0)
      <4>1. CASE u = t
        BY <3>2, <3>4, <3>5, <3>6, <4>1
      <4>2. CASE u # t
        <5>1. announced[u] <= faults + (IF Out(u) \/ Told(u) THEN 1 ELSE 0)
          BY DEF IInv, ToldOnce
        <5> QED
          BY <3>3, <3>4, <3>6, <4>2, <5>1
      <4> QED
        BY <4>1, <4>2
    <3>8. ToldOnce'
      BY <3>6, <3>7 DEF ToldOnce
    <3> QED
      BY <1>1, <1>3, <2>2, <2>4, <2>6, <3>8, SilentKeeps DEF history
  <2> QED
    BY <2>7, <2>8
<1> QED
  BY <1>2, <1>4, <1>5 DEF PublishTap

LEMMA PanelPublishKeeps == ASSUME IInv, NEW w \in Worker, PanelPublishPost(w) PROVE IInv'
<1>1. /\ pc[w] = "handle" /\ tx[w].op \in PanelPublish /\ Goto(w, "commit")
      /\ UNCHANGED <<db, chat, history>>
  BY DEF PanelPublishPost
<1>2. PICK t \in Test : t = tx[w].test
  BY <1>1 DEF IInv, Sound, TargetSound
<1>3. tx[w].op \in PublishOp /\ tx[w].op \notin Inserting
  BY <1>1 DEF PublishOp, PanelPublish, Inserting
<1>4. \E x : Allowed(w, x, "commit") /\ x.op = tx[w].op
  <2>1. CASE UNCHANGED tx
    BY <1>1, <2>1, StayAllowed DEF Place
  <2>2. ASSUME NEW fate \in {"refused", "conflict", "published"}, Publish(w, t, fate),
               Missing(tx[w].cards) \cup Gaps(tx[w].cards) = {}
        PROVE  \E x : Allowed(w, x, "commit") /\ x.op = tx[w].op
    <3>1. Full(tx[w].cards)
      BY <2>2, GapsFull
    <3>2. Publishes(w, t, fate, "commit")
      BY <1>1, <1>2, <1>3, <2>2, <3>1, PublishAllowed
    <3> QED
      BY <3>2 DEF Publishes
  <2> QED
    BY <1>2, <2>1, <2>2 DEF PanelPublishPost
<1>5. PICK x : Allowed(w, x, "commit") /\ x.op = tx[w].op
  BY <1>4
<1>6. Typed'
  BY <1>1, <1>5, MovesTo DEF Allowed, Sound, Moves, IInv, Typed, db, chat, history
<1> QED
  BY <1>1, <1>3, <1>5, <1>6, QuietKeeps DEF chat, history

-----------------------------------------------------------------------------
(* The upload flow, and how a transaction begins and ends. *)

LEMMA FlowKeeps ==
    ASSUME IInv, UNCHANGED <<db, previews, announced, pc, tx, history>>,
           fsm' \in Flow, fsm'.draft \in {None, fsm.draft}
    PROVE  IInv'
<1> USE DEF db, history
<1>1. Typed'
  BY DEF IInv, Typed
<1>2. \A w \in Worker : Sound(tx[w], pc[w])'
  BY SoundKept DEF IInv
<1>3. RowsExclusive' /\ Overlaps'
  BY DEF IInv, RowsExclusive, Overlaps
<1>4. \A t \in Test : Known(t) <=> Known(t)'
  BY DEF Known
<1>5. Targets'
  BY <1>4, Constants DEF IInv, Targets
<1>6. RowsKept' /\ ToldOnce'
  BY DEF IInv, RowsKept, ToldOnce, Told, Out, Active, Whole, Full
<1> QED
  BY <1>1, <1>2, <1>3, <1>5, <1>6 DEF IInv

LEMMA TileLeaveKeep == ASSUME IInv, Tile \/ Leave PROVE IInv'
<1>1. UNCHANGED <<db, previews, announced, pc, tx, history>>
  BY DEF Tile, Leave
<1>2. fsm' \in Flow /\ fsm'.draft \in {None, fsm.draft}
  <2>1. fsm \in Flow
    BY DEF IInv, Typed
  <2> QED
    BY <2>1 DEF Tile, Leave, Flow, NoFlow
<1> QED
  BY <1>1, <1>2, FlowKeeps

LEMMA SnapshotFields ==
    ASSUME Typed, NEW op \in BotOp \cup PanelOp, NEW t \in Test \cup {None},
           NEW x, x = Snapshot(op, t)
    PROVE  /\ x \in TxRow /\ x.op = op /\ x.test = t /\ x.fate = "none"
           /\ ~Paints(x) /\ \A u \in Test : x.put[u] = Keep
           /\ x.active # None => x.active \in Active
           /\ x.status \in {"absent", status[t]} /\ (t = None => x.status = "absent")
           /\ op \in {"save", "image", "photo"} /\ t # None => x.status = status[t]
           /\ x.cards \in {Blank, cards[t]} /\ (t = None => x.cards = Blank)
           /\ op \in PublishOp /\ t # None => x.cards = cards[t]
<1> DEFINE a == IF op \in BotPublish \cup PanelPublish /\ Active # {}
                THEN CHOOSE a \in Active : TRUE ELSE None
           s == IF t # None /\ op \notin {"upload", "cancel", "discard", "delete"}
                THEN status[t] ELSE "absent"
           c == IF t # None /\ op \in BotPublish \cup PanelPublish
                                \cup {"photo", "save", "duplicate"}
                THEN cards[t] ELSE Blank
<1>1. a \in Test \cup {None} /\ (a # None => a \in Active)
  BY DEF Active
<1>2. /\ s \in Status /\ s \in {"absent", status[t]} /\ (t = None => s = "absent")
      /\ op \in {"save", "image", "photo"} /\ t # None => s = status[t]
  BY DEF Typed, Status
<1>3. /\ c \in [Position -> Card] /\ c \in {Blank, cards[t]} /\ (t = None => c = Blank)
      /\ op \in PublishOp /\ t # None => c = cards[t]
  BY BlankTypes DEF Typed, PublishOp
<1>4. x = [NoTx EXCEPT !.op = op, !.test = t, !.active = a, !.status = s, !.cards = c]
  BY DEF Snapshot
<1> HIDE DEF a, s, c
<1>5. /\ x.op = op /\ x.test = t /\ x.active = a /\ x.status = s /\ x.cards = c
      /\ x.put = NoTx.put /\ x.paint = NoTx.paint /\ x.fate = "none"
  BY <1>4 DEF NoTx
<1>6. x \in TxRow
  BY <1>1, <1>2, <1>3, <1>4, BlankTypes DEF TxRow
<1>7. ~Paints(x) /\ \A u \in Test : x.put[u] = Keep
  BY <1>5 DEF Paints, NoTx
<1> QED
  BY <1>1, <1>2, <1>3, <1>5, <1>6, <1>7

LEMMA BeginKeeps ==
    ASSUME IInv, NEW w \in Worker, NEW op \in Kinds \ {"tile", "leave"},
           NEW t \in Test \cup {None}, Begin(w, op, t)
    PROVE  IInv'
<1>0. PICK x : x = Snapshot(op, t)
  OBVIOUS
<1>1. /\ pc[w] = "idle" /\ Target(op, t) /\ ops < MaxOps /\ ops' = ops + 1
      /\ tx' = [tx EXCEPT ![w] = x] /\ Goto(w, "handle")
      /\ raced' = IF Races(w, op, t) THEN raced \cup {t} ELSE raced
      /\ UNCHANGED <<db, chat, door, stranded, faults>>
  BY <1>0 DEF Begin
<1>2. Typed /\ op \in BotOp \cup PanelOp
  BY KindsAssumption DEF IInv
<1>4. /\ x \in TxRow /\ x.op = op /\ x.test = t /\ x.fate = "none"
      /\ ~Paints(x) /\ \A u \in Test : x.put[u] = Keep
      /\ x.active # None => x.active \in Active
      /\ x.status \in {"absent", status[t]} /\ (t = None => x.status = "absent")
      /\ op \in {"save", "image", "photo"} /\ t # None => x.status = status[t]
      /\ x.cards \in {Blank, cards[t]} /\ (t = None => x.cards = Blank)
      /\ op \in PublishOp /\ t # None => x.cards = cards[t]
  BY <1>2, <1>0, SnapshotFields
<1>5. Moves(w, x, "handle")
  BY <1>1, <1>2, <1>4, MovesTo DEF Place
<1>6. /\ tx[w].fate = "none" /\ \A u \in Test : tx[w].put[u] = Keep
      /\ pc'[w] = "handle" /\ "handle" \in Place
  BY <1>1, <1>5 DEF IInv, Sound, Begun, Place, Moves
<1>7. raced \subseteq raced' /\ raced' \subseteq Test /\ (Races(w, op, t) => t \in raced')
  <2>1. Races(w, op, t) => t \in Test
    BY <1>1 DEF Races, Target, Editing, BotPublish, PanelPublish, IInv, Typed,
           Sound, TargetSound
  <2> QED
    BY <1>1, <2>1 DEF IInv, Typed
<1>8. Typed'
  BY <1>1, <1>5, <1>7, BoundsAssumption DEF IInv, Typed, Moves, db, chat
<1>9. Begun(x, "handle")' /\ RowsSound(x)' /\ PublishSound(x)' /\ PaintSound(x)'
  BY <1>4 DEF Begun, RowsSound, PublishSound, PaintSound, Paints, Keep
<1>11. TargetSound(x)
  <2>1. x.active # None => Out(x.active)
    BY <1>4 DEF Active, Out
  <2>2. /\ x.op \in BotPublish => x.test \in previews
        /\ x.op \in PanelPublish \cup {"save", "image", "delete"} => x.test \in Test
        /\ x.op \in PanelPublish => status[x.test] # "absent"
    BY <1>1, <1>4 DEF Target, BotPublish, PanelPublish
  <2>3. x.op \notin Inserting /\ x.status # "absent" =>
          x.test \in Test /\ status[x.test] # "absent"
    BY <1>4
  <2>4. x.op = "photo" /\ x.status = "absent" => Whole(x.cards)
    BY <1>4, BlankTypes DEF IInv, RowsKept
  <2> QED
    BY <2>1, <2>2, <2>3, <2>4 DEF TargetSound
<1>12. TargetSound(x)'
  BY <1>1, <1>11 DEF TargetSound, Out, Whole, db, chat
<1>13. SnapshotSound(x)'
  <2>1. ASSUME x.op \in Editing, x.test \in Test \ raced', Out(x.test)
        PROVE  x.status # "draft" /\ Whole(x.cards)
    <3>1. x.status = status[t] /\ t \in Test \ raced
      BY <1>4, <1>7, <2>1, Constants DEF Editing
    <3> QED
      BY <1>4, <2>1, <3>1, BlankTypes DEF Out, IInv, RowsKept
  <2>2. x.op \in PublishOp => x.cards = cards[x.test]
    <3>1. x.op \in PublishOp => t # None
      BY <1>1, <1>4, Constants DEF Target, PublishOp, BotPublish, PanelPublish, IInv, Typed
    <3> QED
      BY <1>4, <3>1
  <2> QED
    BY <1>1, <2>1, <2>2 DEF SnapshotSound, Out, db
<1>14. \A o \in Worker : Sound(tx[o], pc[o])'
  <2> SUFFICES ASSUME NEW o \in Worker PROVE Sound(tx[o], pc[o])'
    OBVIOUS
  <2>1. CASE o = w
    <3>1. tx'[o] = x /\ pc'[o] = "handle"
      BY <1>5, <2>1 DEF Moves
    <3> QED
      BY <1>4, <1>6, <1>9, <1>12, <1>13, <3>1
      DEF Sound, Begun, RowsSound, TargetSound, PublishSound, PaintSound, SnapshotSound, Paints
  <2>2. CASE o # w
    BY <1>1, <1>5, <1>7, <2>2, SoundKept DEF IInv, Moves, db, chat
  <2> QED
    BY <2>1, <2>2
<1>15. RowsExclusive'
  BY <1>4, <1>5 DEF Moves, IInv, RowsExclusive
<1>16. Overlaps'
  <2> SUFFICES ASSUME NEW a \in Worker, NEW b \in Worker, a # b,
                      tx'[a].test = tx'[b].test, tx'[a].test \in Test,
                      tx'[a].op \in Editing, tx'[b].op \in PublishOp
               PROVE  tx'[a].test \in raced'
    BY DEF Overlaps
  <2>1. CASE a = w \/ b = w
    BY <1>4, <1>5, <1>7, <2>1 DEF Moves, Races, PublishOp
  <2>2. CASE a # w /\ b # w
    BY <1>5, <1>7, <2>2 DEF Moves, IInv, Overlaps
  <2> QED
    BY <2>1, <2>2
<1>17. \A u \in Test : Known(u) => Known(u)'
  BY <1>1, <1>5, <1>6 DEF Known, Moves, db
<1>18. t \in Test => Known(t)
  BY <1>1, Constants DEF Target, IInv, Targets, Known
<1>19. Targets'
  <2>1. \A o \in Worker : tx'[o].test \in Test => Known(tx'[o].test)
    BY <1>4, <1>5, <1>18 DEF Moves, IInv, Targets
  <2>2. \A o \in Worker, p \in Position :
          tx'[o].op \in Inserting /\ tx'[o].test \in previews => tx'[o].paint[p] # "wanted"
    BY <1>4, <1>5 DEF Moves, IInv, Targets, Paints, Keep
  <2> QED
    BY <1>1, <1>17, <2>1, <2>2 DEF IInv, Targets, chat
<1>20. RowsKept'
  BY <1>1, <1>7 DEF IInv, RowsKept, Active, Out, Whole, Full, db
<1>21. ToldOnce'
  <2>1. \A u \in Test : Told(u) => Told(u)'
    BY <1>5, <1>6 DEF Told, Moves
  <2> QED
    BY <1>1, <2>1, BoundsAssumption DEF IInv, Typed, ToldOnce, Out, db, chat
<1> QED
  BY <1>8, <1>14, <1>15, <1>16, <1>19, <1>20, <1>21 DEF IInv

\* What the other activations know when w ends, apart from the rows.
LEMMA EndKeeps ==
    ASSUME IInv, NEW w \in Worker, Moves(w, NoTx, "idle"),
           UNCHANGED <<fsm, previews, raced>>, Typed',
           \A t \in Test : Known(t) => Known(t)',
           \A o \in Worker \ {w} : Sound(tx[o], pc[o])',
           RowsKept', ToldOnce'
    PROVE  IInv'
<1>1. Sound(NoTx, "idle")'
  BY NoTxSound, PTL
<1>2. \A o \in Worker : Sound(tx[o], pc[o])'
  <2> SUFFICES ASSUME NEW o \in Worker PROVE Sound(tx[o], pc[o])'
    OBVIOUS
  <2>1. CASE o = w
    <3>1. tx'[o] = NoTx /\ pc'[o] = "idle"
      BY <2>1 DEF Moves
    <3> QED
      <4>1. ASSUME NEW x, NEW l, x = NoTx, l = "idle" PROVE Sound(x, l)' <=> Sound(NoTx, "idle")'
        BY <4>1
      <4> QED
        BY <1>1, <3>1, <4>1
  <2>2. CASE o # w
    BY <2>2
  <2> QED
    BY <2>1, <2>2
<1>3. /\ \A t \in Test : NoTx.put[t] = Keep
      /\ NoTx.fate = "none" /\ NoTx.op = "none" /\ NoTx.test = None
  BY DEF NoTx
<1>4. RowsExclusive' /\ Overlaps'
  BY <1>3 DEF Moves, IInv, RowsExclusive, Overlaps, Editing, PublishOp, BotPublish, PanelPublish
<1>5. Targets'
  BY <1>3, Constants DEF Moves, IInv, Targets, Inserting
<1> QED
  BY <1>2, <1>4, <1>5 DEF IInv

\* A transaction is undone, or ends with nothing written: a rollback, a commit
\* that fails, a request refused by what it read.
LEMMA UndoneKeeps ==
    ASSUME IInv, NEW w \in Worker, Undone(w),
           UNCHANGED <<cards, chat, door, raced, stranded, ops>>,
           \/ faults' = faults /\ tx[w].fate # "published"
           \/ faults < MaxFaults /\ faults' = faults + 1
    PROVE  IInv'
<1> USE DEF chat
<1>1. Moves(w, NoTx, "idle")
  BY EndedMoves DEF IInv, Undone
<1>2. \A t \in Test : status'[t] = IF status[t] = "absent" /\ tx[w].put[t] # Keep
                                   THEN "deleted" ELSE status[t]
  BY DEF Undone
<1>3. status' \in [Test -> Status]
  BY DEF Undone, IInv, Typed, Status
<1>4. Typed'
  BY <1>1, <1>3, BoundsAssumption DEF Moves, IInv, Typed
<1>5. Active' = Active /\ \A t \in Test : Out(t)' <=> Out(t)
  BY <1>2 DEF Active, Out
<1>6. \A t \in Test : Known(t) => Known(t)'
  BY <1>1, <1>2 DEF Known, Moves
<1>7. ASSUME NEW o \in Worker \ {w} PROVE Sound(tx[o], pc[o])'
  <2>1. tx'[o] = tx[o] /\ pc'[o] = pc[o] /\ Sound(tx[o], pc[o])
    BY <1>1 DEF Moves, IInv
  <2>2. \A t \in Test : tx[o].put[t] # Keep => status'[t] = status[t]
    BY <1>2 DEF IInv, RowsExclusive
  <2>3. Begun(tx[o], pc[o])' /\ RowsSound(tx[o])'
    BY <2>1, <2>2 DEF Sound, Begun, RowsSound, Paints, Keep
  <2>4. TargetSound(tx[o])'
    <3>1. tx[o].active \in Test \cup {None} /\ tx[o].test \in Test \cup {None}
      BY <2>1 DEF Sound, TxRow
    <3>2. \A t \in Test : status[t] # "absent" => status'[t] # "absent"
      BY <1>2
    <3>3. tx[o].active # None => Out(tx[o].active)'
      BY <1>5, <2>1, <3>1 DEF Sound, TargetSound
    <3>4. tx[o].op \in PanelPublish => status'[tx[o].test] # "absent"
      BY <2>1, <3>2 DEF Sound, TargetSound
    <3> QED
      BY <2>1, <3>2, <3>3, <3>4 DEF Sound, TargetSound, Out, Whole
  <2>5. PublishSound(tx[o])'
    <3>1. ASSUME tx[o].fate = "published"
          PROVE  tx[o].test \in Test /\ status'[tx[o].test] = "draft"
      <4>1. tx[o].test \in Test
        BY <2>1, <3>1 DEF Sound, PublishSound, TargetSound, PublishOp, IInv, Typed
      <4> QED
        BY <1>2, <2>1, <3>1, <4>1 DEF Sound, PublishSound
    <3> QED
      BY <1>5, <2>1, <3>1 DEF Sound, PublishSound, Whole, Full
  <2>6. PaintSound(tx[o])'
    BY <2>1, <2>2 DEF Sound, PaintSound, Paints, Whole, Keep
  <2>7. SnapshotSound(tx[o])'
    <3>1. tx[o].op \in PublishOp => tx[o].test \in Test
      BY <2>1 DEF Sound, TargetSound, PublishOp, IInv, Typed
    <3> QED
      BY <1>2, <1>5, <2>1, <3>1 DEF Sound, SnapshotSound, Whole
  <2> QED
    BY <2>1, <2>3, <2>4, <2>5, <2>6, <2>7 DEF Sound
<1>8. RowsKept'
  BY <1>2, <1>5 DEF IInv, RowsKept, Whole, Full
<1>9. ToldOnce'
  <2>1. \A t \in Test : Told(t) => Told(t)' \/ tx[w].fate = "published"
    BY <1>1 DEF Told, Moves
  <2>2. faults \in Nat /\ \A t \in Test : announced[t] \in Nat
    BY BoundsAssumption DEF IInv, Typed
  <2> QED
    BY <1>5, <2>1, <2>2 DEF IInv, ToldOnce
<1> QED
  BY <1>1, <1>4, <1>6, <1>7, <1>8, <1>9, EndKeeps

-----------------------------------------------------------------------------
(* The commit. *)

\* What a commit does to the rows of tests and questions.
RowsGo(x) ==
    /\ status' \in [Test -> Status] /\ cards' \in [Test -> [Position -> Card]]
    /\ \A t \in Test : status'[t] = IF x.put[t] = Keep THEN status[t] ELSE x.put[t]
    /\ \A t \in Test : status'[t] # status[t] => <<status[t], status'[t]>> \in Forward
    /\ \A t \in Test : status[t] # "absent" => status'[t] # "absent"
    /\ \A t \in Test : Out(t) => Out(t)'
    /\ \A t \in Test : Out(t)' /\ ~Out(t) =>
          /\ status[t] = "draft" /\ status'[t] = "active"
          /\ x.test = t /\ x.fate = "published"
    /\ \A t \in Test : cards'[t] # cards[t] =>
          /\ x.test = t /\ Paints(x)
          /\ \A p \in Position : cards'[t][p] \in {cards[t][p], x.paint[p]}

LEMMA CommitRows == ASSUME IInv, NEW w \in Worker, Commit(w) PROVE RowsGo(tx[w])
<1>1. PICK x : x = tx[w]
  OBVIOUS
<1>2. /\ status' = [t \in Test |-> IF x.put[t] = Keep THEN status[t] ELSE x.put[t]]
      /\ cards' = IF x.test = None THEN cards
                  ELSE [cards EXCEPT ![x.test] = [p \in Position |->
                            IF x.paint[p] = Keep THEN @[p] ELSE x.paint[p]]]
  BY <1>1 DEF Commit
<1>3. /\ x \in TxRow /\ RowsSound(x)
      /\ status \in [Test -> Status] /\ cards \in [Test -> [Position -> Card]]
  BY <1>1 DEF IInv, Typed, Sound
<1>4. \A t \in Test : status'[t] = IF x.put[t] = Keep THEN status[t] ELSE x.put[t]
  BY <1>2
<1>5. \A t \in Test : x.put[t] \in Status \cup {Keep} /\ status[t] \in Status
  BY <1>3 DEF TxRow
<1>6. status' \in [Test -> Status]
  BY <1>2, <1>5
<1>7. \A t \in Test : status'[t] # status[t] => <<status[t], status'[t]>> \in Forward
  BY <1>3, <1>4 DEF RowsSound
<1>8. \A t \in Test : /\ status[t] # "absent" => status'[t] # "absent"
                      /\ Out(t) => Out(t)'
  BY <1>7 DEF Forward, Out
<1>9. ASSUME NEW t \in Test, Out(t)', ~Out(t)
      PROVE  /\ status[t] = "draft" /\ status'[t] = "active"
             /\ x.test = t /\ x.fate = "published"
  <2>1. status[t] = "draft" /\ status'[t] = "active"
    BY <1>7, <1>9 DEF Forward, Out
  <2>2. x.put[t] = "active"
    BY <1>4, <2>1
  <2> QED
    BY <1>3, <2>1, <2>2 DEF RowsSound
<1>10. CASE x.test = None
  BY <1>1, <1>2, <1>3, <1>4, <1>6, <1>7, <1>8, <1>9, <1>10 DEF RowsGo
<1>11. CASE x.test # None
  <2>1. PICK u \in Test : u = x.test
    BY <1>3, <1>11 DEF TxRow
  <2> DEFINE q == [p \in Position |->
                     IF x.paint[p] = Keep THEN cards[u][p] ELSE x.paint[p]]
  <2>2. cards' = [cards EXCEPT ![u] = q]
    BY <1>2, <1>3, <1>11, <2>1
  <2>3. /\ q \in [Position -> Card]
        /\ \A p \in Position : q[p] \in {cards[u][p], x.paint[p]}
        /\ ~Paints(x) => q = cards[u]
    <3>1. \A p \in Position : x.paint[p] \in Card \cup {Keep} /\ cards[u][p] \in Card
      BY <1>3 DEF TxRow
    <3>2. ~Paints(x) => q = [p \in Position |-> cards[u][p]]
      BY DEF Paints
    <3>3. cards[u] = [p \in Position |-> cards[u][p]]
      BY <1>3
    <3> QED
      BY <3>1, <3>2, <3>3
  <2> HIDE DEF q
  <2>4. /\ cards' \in [Test -> [Position -> Card]]
        /\ \A t \in Test : cards'[t] # cards[t] =>
              /\ x.test = t /\ Paints(x)
              /\ \A p \in Position : cards'[t][p] \in {cards[t][p], x.paint[p]}
    BY <1>3, <2>1, <2>2, <2>3
  <2> QED
    BY <1>1, <1>4, <1>6, <1>7, <1>8, <1>9, <2>4 DEF RowsGo
<1> QED
  BY <1>10, <1>11

\* Unless they overlap its publishing, nobody writes questions of a test that is
\* out; of a test that its publisher has seen, only its deletion changes them.
LEMMA CommitCards ==
    ASSUME IInv, NEW w \in Worker, RowsGo(tx[w]), NEW t \in Test, cards'[t] # cards[t]
    PROVE  /\ Out(t) => t \in raced
           /\ status'[t] # "absent"
           /\ tx[w].op \notin PublishOp
           /\ \/ /\ tx[w].op \in Inserting /\ status[t] = "absent"
                 /\ t \in previews => Whole(cards'[t])
              \/ status'[t] = "deleted"
              \/ tx[w].op \in Editing /\ tx[w].test = t
<1>1. PICK x : x = tx[w]
  OBVIOUS
<1>2. /\ x.test = t /\ Paints(x)
      /\ \A p \in Position : cards'[t][p] \in {cards[t][p], x.paint[p]}
      /\ status'[t] = IF x.put[t] = Keep THEN status[t] ELSE x.put[t]
      /\ status[t] # "absent" => status'[t] # "absent"
  BY <1>1 DEF RowsGo
<1>3. /\ x \in TxRow /\ Begun(x, pc[w]) /\ TargetSound(x) /\ PublishSound(x)
      /\ PaintSound(x) /\ SnapshotSound(x)
  BY <1>1 DEF IInv, Sound
<1>4. CASE x.op \in Inserting /\ x.put[t] = "draft" /\ status[t] = "absent"
  <2>1. t \in previews => \A p \in Position : x.paint[p] # "wanted"
    BY <1>1, <1>2, <1>4 DEF IInv, Targets
  <2>2. Whole(cards[t])
    BY <1>4 DEF IInv, RowsKept
  <2>3. t \in previews => Whole(cards'[t])
    BY <1>2, <2>1, <2>2 DEF Whole
  <2>4. x.op \notin PublishOp /\ ~Out(t) /\ status'[t] # "absent"
    BY <1>2, <1>4 DEF Inserting, PublishOp, BotPublish, PanelPublish, Out, Keep
  <2> QED
    BY <1>1, <1>4, <2>3, <2>4
<1>5. CASE x.op \in Erasing /\ x.put[t] = "deleted" /\ status[t] = "draft"
  BY <1>1, <1>2, <1>5 DEF Erasing, PublishOp, BotPublish, PanelPublish, Out, Keep
<1>6. CASE \/ x.op \in {"save", "image"} /\ x.status = "draft"
           \/ x.op = "photo" /\ ~Whole(x.cards)
  <2>1. x.op \in Editing /\ x.op \notin PublishOp /\ x.op \notin Inserting
    BY <1>6 DEF Editing, PublishOp, BotPublish, PanelPublish, Inserting
  <2>2. x.status # "absent"
    BY <1>3, <1>6 DEF TargetSound
  <2>3. status'[t] # "absent"
    BY <1>2, <1>3, <2>1, <2>2 DEF TargetSound
  <2>4. Out(t) => t \in raced
    BY <1>2, <1>3, <1>6, <2>1 DEF SnapshotSound, Editing
  <2> QED
    BY <1>1, <1>2, <2>1, <2>3, <2>4
<1> QED
  BY <1>2, <1>3, <1>4, <1>5, <1>6 DEF PaintSound

\* The transactions that go on stay sound.
LEMMA CommitSound ==
    ASSUME IInv, NEW w \in Worker, RowsGo(tx[w]), NEW o \in Worker \ {w},
           tx'[o] = tx[o], pc'[o] = pc[o], UNCHANGED <<previews, raced>>
    PROVE  Sound(tx[o], pc[o])'
<1>1. Sound(tx[o], pc[o]) /\ Sound(tx[w], pc[w])
  BY DEF IInv
<1>2. \A t \in Test : tx[o].put[t] # Keep => status'[t] = status[t]
  BY DEF IInv, RowsExclusive, RowsGo
<1>3. /\ \A t \in Test : status[t] # "absent" => status'[t] # "absent"
      /\ \A t \in Test : Out(t) => Out(t)'
      /\ \A t \in Test : Out(t)' /\ ~Out(t) =>
            /\ status[t] = "draft" /\ status'[t] = "active"
            /\ tx[w].test = t /\ tx[w].fate = "published"
      /\ \A t \in Test : status[t] = "deleted" => status'[t] = "deleted"
  BY DEF RowsGo, Forward
<1>4. Begun(tx[o], pc[o])' /\ RowsSound(tx[o])'
  BY <1>1, <1>2 DEF Sound, Begun, RowsSound, Paints, Keep
<1>5. TargetSound(tx[o])'
  <2>1. tx[o].active \in Test \cup {None} /\ tx[o].test \in Test \cup {None}
    BY <1>1 DEF Sound, TxRow
  <2>2. tx[o].active # None => Out(tx[o].active)'
    BY <1>1, <1>3, <2>1 DEF Sound, TargetSound
  <2>3. tx[o].op \in PanelPublish => status'[tx[o].test] # "absent"
    BY <1>1, <1>3 DEF Sound, TargetSound
  <2> QED
    BY <1>1, <1>3, <2>2, <2>3 DEF Sound, TargetSound, Out, Whole
<1>6. PublishSound(tx[o])'
  <2> SUFFICES ASSUME tx[o].fate = "published" PROVE PublishSound(tx[o])'
    BY DEF PublishSound
  <2>1. /\ tx[o].op \in PublishOp /\ tx[o].put[tx[o].test] = "active"
        /\ status[tx[o].test] = "draft" /\ Whole(tx[o].cards)
        /\ tx[o].op \in PanelPublish => Full(tx[o].cards)
        /\ \A u \in Active : tx[o].put[u] = "archived"
    BY <1>1 DEF Sound, PublishSound
  <2>2. tx[o].test \in Test
    BY <1>1, <2>1 DEF Sound, TargetSound, PublishOp, IInv, Typed
  <2>3. status'[tx[o].test] = "draft"
    BY <1>2, <2>1, <2>2 DEF Keep
  <2>4. tx[w].fate # "published"
    BY DEF IInv, RowsExclusive
  <2>5. ASSUME NEW u \in Test, status'[u] = "active"
        PROVE  tx[o].put[u] = "archived"
    <3>1. Out(u)' /\ status[u] # "archived"
      BY <2>5 DEF Out, RowsGo, Forward
    <3>2. Out(u)
      BY <1>3, <2>4, <3>1
    <3> QED
      BY <2>1, <3>1, <3>2 DEF Out, Active
  <2> QED
    BY <2>1, <2>3, <2>5 DEF PublishSound, Active, Whole, Full
<1>7. PaintSound(tx[o])'
  BY <1>1, <1>2 DEF Sound, PaintSound, Paints, Whole, Keep
<1>8. SnapshotSound(tx[o])'
  <2>1. ASSUME tx[o].op \in Editing, tx[o].test \in Test \ raced, Out(tx[o].test)'
        PROVE  tx[o].status # "draft" /\ Whole(tx[o].cards)
    <3>1. ~Out(tx[o].test) => tx[w].test = tx[o].test /\ tx[w].op \in PublishOp
      BY <1>1, <1>3, <2>1 DEF Sound, PublishSound
    <3>2. Out(tx[o].test)
      BY <2>1, <3>1 DEF IInv, Overlaps
    <3> QED
      BY <1>1, <2>1, <3>2 DEF Sound, SnapshotSound
  <2>2. ASSUME tx[o].op \in PublishOp, tx[o].test \notin raced
        PROVE  \/ tx[o].cards = cards'[tx[o].test]
               \/ status'[tx[o].test] = "deleted"
               \/ tx[o].op \in BotPublish /\ Whole(cards'[tx[o].test])
    <3>1. PICK t \in Test : t = tx[o].test
      BY <1>1, <2>2 DEF Sound, TargetSound, PublishOp, IInv, Typed
    <3>2. \/ tx[o].cards = cards[t]
          \/ status[t] = "deleted"
          \/ tx[o].op \in BotPublish /\ Whole(cards[t])
      BY <1>1, <2>2, <3>1 DEF Sound, SnapshotSound
    <3>3. CASE cards'[t] = cards[t]
      BY <1>3, <3>1, <3>2, <3>3
    <3>4. CASE cards'[t] # cards[t]
      <4>1. \/ status[t] = "absent" /\ (t \in previews => Whole(cards'[t]))
            \/ status'[t] = "deleted"
            \/ tx[w].op \in Editing /\ tx[w].test = t
        BY <3>4, CommitCards
      <4>2. ~(tx[w].op \in Editing /\ tx[w].test = t)
        BY <2>2, <3>1 DEF IInv, Overlaps
      <4>3. status[t] = "absent" => tx[o].op \in BotPublish /\ t \in previews
        BY <1>1, <2>2, <3>1 DEF Sound, TargetSound, PublishOp
      <4> QED
        BY <3>1, <4>1, <4>2, <4>3
    <3> QED
      BY <3>3, <3>4
  <2> QED
    BY <2>1, <2>2 DEF SnapshotSound, Whole, Out
<1> QED
  BY <1>1, <1>4, <1>5, <1>6, <1>7, <1>8 DEF Sound

LEMMA CommitRowsKept ==
    ASSUME IInv, NEW w \in Worker, RowsGo(tx[w]), raced' = raced,
           door' = IF tx[w].fate # "published" THEN door
                   ELSE [door EXCEPT ![tx[w].test] =
                            IF tx[w].op \in BotPublish THEN "bot" ELSE "panel"]
    PROVE  RowsKept'
<1>1. PICK x : x = tx[w]
  OBVIOUS
<1>2. /\ TargetSound(x) /\ PublishSound(x) /\ SnapshotSound(x)
      /\ x.fate = "published" => x.test \in Test
  BY <1>1 DEF IInv, Sound, PublishSound, TargetSound, PublishOp, Typed
<1>3. \A t, u \in Active' : t = u
  <2>1. \A t \in Active' : t \in Test /\ status'[t] = "active"
    BY DEF Active
  <2>2. \A t \in Test : status'[t] = "active" =>
           status[t] = "active" \/ (x.test = t /\ x.fate = "published")
    BY <1>1 DEF RowsGo, Out, Forward
  <2>3. CASE x.fate = "published"
    <3>1. \A t \in Active : status'[t] = "archived"
      BY <1>1, <1>2, <2>3 DEF PublishSound, RowsGo, Active, Keep
    <3> QED
      BY <2>1, <2>2, <3>1 DEF Active
  <2>4. CASE x.fate # "published"
    BY <2>1, <2>2, <2>4 DEF IInv, RowsKept, Active
  <2> QED
    BY <2>3, <2>4
<1>4. ASSUME NEW t \in Test, status'[t] = "absent" PROVE Whole(cards'[t])
  <2>1. cards'[t] = cards[t]
    BY <1>4, CommitCards
  <2>2. status[t] = "absent"
    BY <1>4 DEF RowsGo
  <2> QED
    BY <2>1, <2>2 DEF IInv, RowsKept
<1>5. ASSUME NEW t \in Test \ raced, Out(t)'
      PROVE  Whole(cards'[t]) /\ (door'[t] = "panel" => Full(cards'[t]))
  <2>1. CASE Out(t)
    <3>1. cards'[t] = cards[t]
      BY <1>5, <2>1, CommitCards
    <3>2. x.fate = "published" => x.test # t
      BY <1>2, <2>1 DEF PublishSound, Out
    <3>3. door'[t] = door[t]
      BY <1>1, <1>2, <3>2 DEF IInv, Typed
    <3> QED
      BY <1>5, <2>1, <3>1, <3>3 DEF IInv, RowsKept
  <2>2. CASE ~Out(t)
    <3>1. x.test = t /\ x.fate = "published" /\ status[t] = "draft"
      BY <1>1, <1>5, <2>2 DEF RowsGo
    <3>2. /\ x.op \in PublishOp /\ Whole(x.cards)
          /\ x.op \in PanelPublish => Full(x.cards)
      BY <1>2, <3>1 DEF PublishSound
    <3>3. cards'[t] = cards[t]
      BY <1>1, <1>5, <3>2, CommitCards
    <3>4. x.cards = cards[t] \/ (x.op \in BotPublish /\ Whole(cards[t]))
      BY <1>2, <1>5, <3>1, <3>2 DEF SnapshotSound
    <3>5. door'[t] = IF x.op \in BotPublish THEN "bot" ELSE "panel"
      BY <1>1, <1>2, <3>1 DEF IInv, Typed
    <3> QED
      BY <3>2, <3>3, <3>4, <3>5 DEF PublishOp
  <2> QED
    BY <2>1, <2>2
<1> QED
  BY <1>3, <1>4, <1>5 DEF RowsKept, Whole, Full, Out

LEMMA CommitKeeps == ASSUME IInv, NEW w \in Worker, Commit(w) PROVE IInv'
<1>1. PICK x : x = tx[w]
  OBVIOUS
<1>2. /\ pc[w] = "commit" /\ Ended(w)
      /\ announced' = IF x.op = "panel_notify" /\ Announces(w, x.fate)
                      THEN [announced EXCEPT ![x.test] = @ + 1] ELSE announced
      /\ door' = IF x.fate # "published" THEN door
                 ELSE [door EXCEPT ![x.test] =
                          IF x.op \in BotPublish THEN "bot" ELSE "panel"]
      /\ stranded' \in BOOLEAN
      /\ UNCHANGED <<fsm, previews, raced, ops, faults>>
  BY <1>1 DEF Commit
<1>3. RowsGo(tx[w])
  BY CommitRows
<1>4. Moves(w, NoTx, "idle")
  BY <1>2, EndedMoves DEF IInv
<1>5. x.fate = "published" => x.test \in Test /\ status[x.test] = "draft"
                                /\ status'[x.test] = "active"
  BY <1>1, <1>3 DEF IInv, Sound, PublishSound, TargetSound, PublishOp, Typed, RowsGo, Keep
<1>6. /\ announced' \in [Test -> Nat]
      /\ \A t \in Test : announced'[t] =
            IF x.test = t /\ x.op = "panel_notify" /\ x.fate = "published"
            THEN announced[t] + 1 ELSE announced[t]
  BY <1>1, <1>2, <1>5 DEF IInv, Typed, Announces
<1>7. Typed'
  BY <1>2, <1>3, <1>4, <1>6 DEF IInv, Typed, Moves, RowsGo
<1>8. \A t \in Test : Known(t) => Known(t)'
  <2>1. \A t \in Test : tx[w].put[t] # "absent"
    BY DEF IInv, Sound, RowsSound
  <2> QED
    BY <1>3, <1>4, <2>1 DEF Known, Moves, RowsGo
<1>9. \A o \in Worker \ {w} : Sound(tx[o], pc[o])'
  BY <1>2, <1>3, <1>4, CommitSound DEF Moves
<1>10. RowsKept'
  BY <1>1, <1>2, <1>3, CommitRowsKept
<1>11. ASSUME NEW t \in Test
       PROVE  announced'[t] <= faults' + (IF Out(t)' \/ Told(t)' THEN 1 ELSE 0)
  <2>1. /\ announced[t] <= faults + (IF Out(t) \/ Told(t) THEN 1 ELSE 0)
        /\ announced[t] \in Nat /\ faults \in Nat /\ faults' = faults
    BY <1>2, BoundsAssumption DEF IInv, Typed, ToldOnce
  <2>2. (Out(t) => Out(t)') /\ (x.test = t /\ x.fate = "published" => Out(t)')
    BY <1>3, <1>5 DEF RowsGo, Out
  <2>3. Told(t) => Told(t)' \/ Out(t)'
    BY <1>1, <1>4, <2>2 DEF Told, Moves
  <2>4. CASE x.test = t /\ x.op = "panel_notify" /\ x.fate = "published"
    <3>1. ~Out(t) /\ ~Told(t)
      BY <1>1, <1>5, <2>4 DEF Out, Told, BotPublish, IInv, RowsExclusive
    <3> QED
      BY <1>6, <2>1, <2>2, <2>4, <3>1
  <2>5. CASE ~(x.test = t /\ x.op = "panel_notify" /\ x.fate = "published")
    BY <1>6, <2>1, <2>2, <2>3, <2>5
  <2> QED
    BY <2>4, <2>5
<1>12. ToldOnce'
  BY <1>11 DEF ToldOnce
<1> QED
  BY <1>2, <1>4, <1>7, <1>8, <1>9, <1>10, <1>12, EndKeeps

-----------------------------------------------------------------------------
(* The theorems. *)

LEMMA NextIInv == ASSUME IInv, [Next]_vars PROVE IInv'
<1>1. CASE UNCHANGED vars
  BY <1>1, FlowKeeps DEF vars, chat, history, IInv, Typed
<1>2. CASE Tile \/ Leave
  BY <1>2, TileLeaveKeep
<1>3. ASSUME NEW w \in Worker,
             Arrive(w) \/ HandleUpdate(w) \/ HandleRequest(w) \/ Finish(w) \/ Fail(w)
      PROVE  IInv'
  <2>1. CASE Arrive(w)
    BY <2>1, BeginKeeps DEF Arrive
  <2>2. CASE HandleUpdate(w)
    BY <2>2, UploadKeeps, CancelKeeps, FileKeeps, PhotoKeeps, PublishTapKeeps
    DEF HandleUpdate
  <2>3. CASE NotDraft(w)
    <3>1. /\ pc[w] = "handle" /\ Ended(w) /\ UNCHANGED <<db, chat, history>>
      BY <2>3 DEF NotDraft
    <3>2. tx[w].fate = "none" /\ \A t \in Test : tx[w].put[t] = Keep
      BY <3>1 DEF IInv, Sound, Begun
    <3>3. Undone(w)
      BY <3>1, <3>2 DEF Undone, IInv, Typed, db
    <3> QED
      BY <3>1, <3>2, <3>3, UndoneKeeps DEF db, history
  <2>4. CASE HandleRequest(w) /\ ~NotDraft(w)
    BY <2>4, NewKeeps, SaveKeeps, PanelPublishKeeps, DeleteKeeps, DuplicateKeeps,
       ImageKeeps, AttachKeeps
    DEF HandleRequest
  <2>5. CASE Commit(w)
    BY <2>5, CommitKeeps
  <2>6. CASE Rollback(w)
    <3>1. tx[w].fate # "published"
      BY <2>6 DEF Rollback, IInv, Sound, Begun
    <3> QED
      BY <2>6, <3>1, UndoneKeeps DEF Rollback, history
  <2>7. CASE Fail(w)
    BY <2>7, UndoneKeeps DEF Fail
  <2> QED
    BY <1>3, <2>1, <2>2, <2>3, <2>4, <2>5, <2>6, <2>7 DEF Finish
<1> QED
  BY <1>1, <1>2, <1>3 DEF Next

\* The inductive invariant holds: what each transaction of TestPublishing has
\* read, locked and written fits the committed rows at every step.
THEOREM Invariance == Spec => []IInv
BY InitIInv, NextIInv, PTL DEF Spec

\* A step that changes the committed rows is a commit or undoes an INSERT.
LEMMA RowSteps ==
    ASSUME IInv, [Next]_vars
    PROVE  \/ UNCHANGED db
           \/ \E w \in Worker : Commit(w)
           \/ \E w \in Worker : Undone(w) /\ UNCHANGED cards
<1>1. CASE UNCHANGED vars
  BY <1>1 DEF vars, db
<1>2. CASE Tile \/ Leave
  BY <1>2 DEF Tile, Leave, db
<1>3. ASSUME NEW w \in Worker,
             Arrive(w) \/ HandleUpdate(w) \/ HandleRequest(w) \/ Finish(w) \/ Fail(w)
      PROVE  UNCHANGED db \/ Commit(w) \/ (Undone(w) /\ UNCHANGED cards)
  <2>1. CASE Arrive(w)
    BY <2>1 DEF Arrive, Begin
  <2>2. CASE HandleUpdate(w)
    BY <2>2 DEF HandleUpdate, Upload, Cancel, File, Photo, PublishTap
  <2>3. CASE HandleRequest(w)
    BY <2>3 DEF HandleRequest, New, NotDraft, Save, PanelPublishPost, Delete, Duplicate,
       Image, Attach
  <2>4. CASE Finish(w)
    BY <2>4 DEF Finish, Rollback
  <2>5. CASE Fail(w)
    BY <2>5 DEF Fail
  <2> QED
    BY <1>3, <2>1, <2>2, <2>3, <2>4, <2>5
<1> QED
  BY <1>1, <1>2, <1>3 DEF Next

LEMMA ActiveOne == ASSUME RowsKept PROVE OneActive
<1>1. CASE Active = {}
  BY <1>1, FS_EmptySet DEF OneActive
<1>2. CASE Active # {}
  <2>1. PICK t \in Active : TRUE
    BY <1>2
  <2>2. Active = {t}
    BY <2>1 DEF RowsKept
  <2>3. Cardinality({t}) = 1
    BY FS_Singleton
  <2> QED
    BY <2>2, <2>3 DEF OneActive
<1> QED
  BY <1>1, <1>2

\* What the inductive invariant says of the published tests.
LEMMA PublishHolds == ASSUME IInv PROVE PublishInv
<1>1. TypeOK
  BY DEF IInv, Typed, TypeOK, Place, TxRow
<1>2. RowsHeld
  <2> SUFFICES ASSUME NEW w \in Worker, NEW t \in Test
               PROVE  /\ \A o \in Worker \ {w} :
                           tx[w].put[t] # Keep => tx[o].put[t] = Keep
                      /\ tx[w].put[t] = "archived" /\ status[t] # "archived"
                            => status[t] = "active"
                      /\ tx[w].put[t] = "active" /\ status[t] # "active"
                            => status[t] = "draft"
    BY DEF RowsHeld
  <2>1. tx[w].put[t] \in {Keep, status[t]} \/ <<status[t], tx[w].put[t]>> \in Forward
    BY DEF IInv, Sound, RowsSound
  <2> QED
    BY <2>1 DEF IInv, RowsExclusive, Forward, Keep
<1> QED
  BY <1>1, <1>2, ActiveOne DEF IInv, PublishInv

LEMMA WholeHolds == ASSUME IInv PROVE PublishedIsWhole
BY DEF IInv, RowsKept, PublishedIsWhole, Whole, Full, Out, Active

LEMMA ToldHolds == ASSUME IInv PROVE AnnouncedOnce
<1> SUFFICES ASSUME IInv, NEW t \in Test
             PROVE  announced[t] <= faults +
                      (IF \/ status[t] \in {"active", "archived"}
                          \/ \E w \in Worker : tx[w].test = t /\ tx[w].fate = "published"
                       THEN 1 ELSE 0)
  BY DEF AnnouncedOnce
<1>1. announced[t] <= faults + (IF Out(t) \/ Told(t) THEN 1 ELSE 0)
  BY DEF IInv, ToldOnce
<1>2. announced[t] \in Nat /\ faults \in Nat
  BY BoundsAssumption DEF IInv, Typed
<1> QED
  BY <1>1, <1>2 DEF Out, Told

\* What a step may do to the questions and to the status of a test.
FrozenStep ==
    \A t \in Test \ raced' :
        status[t] \in {"active", "archived"} => cards'[t] = cards[t]

ForwardStep ==
    /\ \A t \in Test :
          status'[t] # status[t] => <<status[t], status'[t]>> \in Forward
    /\ Active # {} => Active' # {} \/ stranded'

LEMMA QuestionsStep == ASSUME IInv, [Next]_vars PROVE FrozenStep
<1>1. CASE UNCHANGED cards
  BY <1>1 DEF FrozenStep
<1>2. ASSUME NEW w \in Worker, Commit(w) PROVE FrozenStep
  BY <1>2, CommitRows, CommitCards DEF Commit, Out, FrozenStep
<1> QED
  BY <1>1, <1>2, RowSteps DEF db

LEMMA StatusStep == ASSUME IInv, [Next]_vars PROVE ForwardStep
<1>1. CASE UNCHANGED db
  BY <1>1 DEF db, Active, ForwardStep
<1>2. ASSUME NEW w \in Worker, Commit(w) PROVE ForwardStep
  <2>1. RowsGo(tx[w])
    BY <1>2, CommitRows
  <2>2. ASSUME NEW u \in Active PROVE Active' # {} \/ stranded'
    <3>1. u \in Test /\ status[u] = "active"
      BY DEF Active
    <3>2. CASE tx[w].put[u] # "archived"
      <4>1. status'[u] = "active"
        BY <2>1, <3>1, <3>2 DEF RowsGo, Forward
      <4> QED
        BY <3>1, <4>1 DEF Active
    <3>3. CASE tx[w].put[u] = "archived" /\ tx[w].fate = "refused"
      BY <1>2, <3>3 DEF Commit
    <3>4. CASE tx[w].put[u] = "archived" /\ tx[w].fate = "published"
      <4>1. PICK t \in Test : t = tx[w].test
        BY <3>4 DEF IInv, Sound, PublishSound, TargetSound, PublishOp, Typed
      <4>2. status'[t] = "active"
        BY <2>1, <3>4, <4>1 DEF IInv, Sound, PublishSound, RowsGo, Keep
      <4> QED
        BY <4>2 DEF Active
    <3> QED
      BY <3>1, <3>2, <3>3, <3>4 DEF IInv, Sound, RowsSound
  <2> QED
    BY <2>1, <2>2 DEF RowsGo, ForwardStep
<1>3. ASSUME NEW w \in Worker, Undone(w) PROVE ForwardStep
  <2>1. \A t \in Test : status'[t] = IF status[t] = "absent" /\ tx[w].put[t] # Keep
                                     THEN "deleted" ELSE status[t]
    BY <1>3 DEF Undone
  <2> QED
    BY <2>1 DEF Active, Forward, ForwardStep
<1> QED
  BY <1>1, <1>2, <1>3, RowSteps

\* PublishInv, for any number of concurrent publishers and editors: rows are
\* held by one transaction at a time, and at most one test is active whatever
\* publish() of test_service finds, waits for, archives or leaves half done.
THEOREM AtMostOneActive == Spec => []PublishInv
BY PublishHolds, Invariance, PTL

\* PublishedIsWhole: no question of an active test misses its illustration,
\* and one published from the panel has a question at every position, unless
\* an edit overlapped the publishing, whose check reads a snapshot.
THEOREM PublishedTestsAreWhole == Spec => []PublishedIsWhole
BY WholeHolds, Invariance, PTL

\* AnnouncedOnce: the students are told of a test once, by the bot before the
\* commit or by the panel after it, but for the commits that failed.
THEOREM ToldAtMostOnce == Spec => []AnnouncedOnce
BY ToldHolds, Invariance, PTL

\* QuestionsFrozen: once published a test keeps its questions, as the saves,
\* photos and uploads that did not overlap its publishing have seen its status.
THEOREM FrozenQuestions == Spec => QuestionsFrozen
<1>1. Spec => [][FrozenStep]_vars
  BY QuestionsStep, Invariance, PTL DEF Spec
<1> QED
  BY <1>1 DEF QuestionsFrozen, FrozenStep

\* ActiveTestStays: a test only goes forward, only a draft is deleted, and the
\* students keep a test to take unless a refused publish has committed the
\* archive it began with.
THEOREM TestsGoForward == Spec => ActiveTestStays
<1>1. Spec => [][ForwardStep]_vars
  BY StatusStep, Invariance, PTL DEF Spec
<1> QED
  BY <1>1 DEF ActiveTestStays, ForwardStep
=============================================================================
