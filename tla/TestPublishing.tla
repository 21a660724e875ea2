---------------------------- MODULE TestPublishing ----------------------------
(***************************************************************************)
(* The tests of the bot: drafts from an Excel file sent to the bot or from *)
(* the editor of the web panel, their illustrations, and publishing, which *)
(* archives the active test and activates a draft.                         *)
(*                                                                         *)
(* One admin works in the bot, whose upload flow has its state in Redis;   *)
(* others work in the panel.  Each update or request is handled in a       *)
(* transaction: its first SELECT fixes the snapshot that plain reads see,  *)
(* an UPDATE or DELETE locks rows and reads what is committed in them, and *)
(* the middleware (bot) or session_scope (panel) commits at the end.  The  *)
(* FSM and the announcements to students change at once and are not rolled *)
(* back.  A step is what a handler does between two effects others see.    *)
(***************************************************************************)
EXTENDS Integers, FiniteSets

CONSTANTS
    Worker,     \* bound: the activations that may run at the same time
    MaxTests,   \* bound: the tests ever inserted
    Position,   \* the positions of a test, 1..50 in the code
    MaxOps,     \* bound: the updates and requests that arrive
    MaxFaults,  \* bound: transactions that fail
    Kinds,      \* bound: the kinds of updates and requests that come
    Forms       \* bound: the questions an admin may save in the editor

ASSUME TestsAssumption == MaxTests \in Nat \ {0}
ASSUME PositionAssumption == Position # {} /\ Position \subseteq Nat
ASSUME BoundsAssumption == MaxFaults \in Nat /\ MaxOps \in Nat
ASSUME FormsAssumption == Forms \subseteq [Position -> {"empty", "text", "wanted"}]

Test == 1..MaxTests
None == 0
Keep == "keep"   \* not written by this transaction

\* The row in `tests'; an id is used up when its row is deleted, or its
\* INSERT rolled back.
Status == {"absent", "draft", "active", "archived", "deleted"}

\* The question at one position: no row, no illustration, has_image without
\* a file, has_image with a file (two, to tell one from its replacement).
Card == {"empty", "text", "wanted", "image1", "image2"}

Blank          == [p \in Position |-> "empty"]
Missing(questions) == {p \in Position : questions[p] = "wanted"}

\* Variant: the completeness check of the editor is no blocker.
NoGaps(questions)  == {}
Gaps(questions)    == {p \in Position : questions[p] = "empty"}
HasFile(c)     == c \in {"image1", "image2"}
Flagged(c)     == c = "wanted" \/ HasFile(c)

\* Writing a file id over what was there.
WithImage(c) == IF c = "image1" THEN "image2" ELSE "image1"

BotOp   == {"upload", "tile", "cancel", "leave", "file", "photo", "discard",
            "publish_silent", "publish_notify"}
PanelOp == {"new", "save", "panel_silent", "panel_notify", "delete",
            "duplicate", "image"}

ASSUME KindsAssumption == Kinds \subseteq BotOp \cup PanelOp

BotPublish   == {"publish_silent", "publish_notify"}
PanelPublish == {"panel_silent", "panel_notify"}
Editing      == {"save", "image", "photo"}
Inserting    == {"file", "new", "duplicate"}

VARIABLES
    status,    \* the committed rows of `tests'
    cards,     \* the committed rows of `questions', per test
    fsm,       \* the upload flow of the admin in the bot: step and draft
    previews,  \* the drafts whose preview, with its buttons, is in the chat
    announced, \* history: how often each test was announced to students
    pc,        \* where each activation is
    tx,        \* its transaction
    door,      \* history: where a test was published from
    raced,     \* history: tests edited and published by overlapping requests
    stranded,  \* history: a refused publish committed its first half
    ops,       \* history: the updates and requests that arrived
    faults     \* history: the transactions that failed

db      == <<status, cards>>
chat    == <<fsm, previews, announced>>
history == <<door, raced, stranded, ops, faults>>
vars    == <<db, chat, pc, tx, history>>

-----------------------------------------------------------------------------
(* Transactions. *)

Flow    == [step : {"none", "file", "images", "confirm"},
            draft : Test \cup {None}]
NoFlow  == [step |-> "none", draft |-> None]

NoTx == [op |-> "none", test |-> None,
         active |-> None, status |-> "absent", cards |-> Blank, \* snapshot
         put |-> [t \in Test |-> Keep],        \* rows locked, and their fate
         paint |-> [p \in Position |-> Keep],  \* questions of test written
         fate |-> "none"]                      \* how publish() ended

Goto(w, label) == pc' = [pc EXCEPT ![w] = label]
Ended(w)       == tx' = [tx EXCEPT ![w] = NoTx] /\ Goto(w, "idle")

\* No other open transaction holds the row of t, or questions of t at P.
RowFree(w, t) == \A o \in Worker \ {w} : tx[o].put[t] = Keep
CardsFree(w, t, P) ==
    \A o \in Worker \ {w} :
        tx[o].test = t => \A p \in P : tx[o].paint[p] = Keep

\* Variant: no unique index.
NoIndex(w) == TRUE

\* ux_tests__one_active: no other open transaction changed an active flag.
IndexFree(w) ==
    \A o \in Worker \ {w}, t \in Test :
        LET to == tx[o].put[t]
        IN  to \in {Keep, status[t]} \/ "active" \notin {to, status[t]}

Active == {t \in Test : status[t] = "active"}
Fresh(t) == status[t] = "absent" /\ \A o \in Worker : tx[o].put[t] = Keep
NextId(t) == Fresh(t) /\ \A u \in 1..(t - 1) : ~Fresh(u)

\* What the update or request is about: a button or page names a draft, the
\* upload flow remembers one.
Target(op, t) ==
    CASE op \in {"upload", "cancel", "photo"} -> t = fsm.draft
      [] op \in {"file", "new"} -> t = None
      [] op \in BotPublish \cup {"discard"} -> t \in previews
      [] OTHER -> t \in Test /\ status[t] # "absent"

\* The FSM filters of the bot's handlers, and an id for what is inserted.
Arrives(op) ==
    /\ op \in Kinds
    /\ op = "cancel" => fsm.step # "none"
    /\ op = "file" => fsm.step = "file"
    /\ op = "photo" => fsm.step = "images"
    /\ op \in Inserting =>
         Cardinality({t \in Test : Fresh(t)}) >
            Cardinality({o \in Worker : tx[o].op \in Inserting /\ pc[o] = "handle"})

\* Is `op' on t to edit a test another activation publishes, or the reverse?
Races(w, op, t) ==
    \E o \in Worker \ {w} :
        /\ tx[o].test = t
        /\ \/ op \in Editing /\ tx[o].op \in BotPublish \cup PanelPublish
           \/ op \in BotPublish \cup PanelPublish /\ tx[o].op \in Editing

\* The reads that a handler uses later: the active test, the status of its
\* test, the questions.
Snapshot(op, t) ==
    [NoTx EXCEPT
        !.op = op, !.test = t,
        !.active = IF op \in BotPublish \cup PanelPublish /\ Active # {}
                   THEN CHOOSE a \in Active : TRUE ELSE None,
        !.status = IF t # None /\ op \notin {"upload", "cancel", "discard", "delete"}
                   THEN status[t] ELSE "absent",
        !.cards  = IF t # None /\ op \in BotPublish \cup PanelPublish
                                \cup {"photo", "save", "duplicate"}
                   THEN cards[t] ELSE Blank]

Begin(w, op, t) ==
    /\ pc[w] = "idle" /\ Arrives(op) /\ Target(op, t)
    /\ ops < MaxOps /\ ops' = ops + 1
    /\ tx' = [tx EXCEPT ![w] = Snapshot(op, t)]
    /\ raced' = IF Races(w, op, t) THEN raced \cup {t} ELSE raced
    /\ Goto(w, "handle")
    /\ UNCHANGED <<db, chat, door, stranded, faults>>

\* Variant: the students are told before the outcome is known.
AnnouncesAnyway(w, fate) == tx[w].op \in {"publish_notify", "panel_notify"}
Announces(w, fate) ==
    tx[w].op \in {"publish_notify", "panel_notify"} /\ fate = "published"

\* The commit, and the announcement the panel spawns after it.
Commit(w) ==
    LET x == tx[w]
    IN  /\ pc[w] = "commit"
        /\ status' = [t \in Test |->
                IF x.put[t] = Keep THEN status[t] ELSE x.put[t]]
        /\ cards' = IF x.test = None THEN cards
                    ELSE [cards EXCEPT ![x.test] = [p \in Position |->
                            IF x.paint[p] = Keep THEN @[p] ELSE x.paint[p]]]
        /\ announced' =
                IF x.op = "panel_notify" /\ Announces(w, x.fate)
                THEN [announced EXCEPT ![x.test] = @ + 1] ELSE announced
        /\ door' = IF x.fate # "published" THEN door
                   ELSE [door EXCEPT ![x.test] =
                            IF x.op \in BotPublish THEN "bot" ELSE "panel"]
        /\ stranded' = (stranded \/ /\ x.fate = "refused"
                                    /\ \E t \in Active : x.put[t] = "archived")
        /\ Ended(w)
        /\ UNCHANGED <<fsm, previews, raced, ops, faults>>

\* Rollback: what was inserted is gone, its id with it.
Undone(w) ==
    /\ status' = [t \in Test |->
            IF status[t] = "absent" /\ tx[w].put[t] # Keep
            THEN "deleted" ELSE status[t]]
    /\ Ended(w)

\* The commit fails, of a transaction that has something to lose.
Fail(w) ==
    /\ pc[w] = "commit" /\ faults < MaxFaults
    /\ tx[w].put # NoTx.put \/ tx[w].paint # NoTx.paint
    /\ Undone(w)
    /\ faults' = faults + 1
    /\ UNCHANGED <<cards, chat, door, raced, stranded, ops>>

-----------------------------------------------------------------------------
(* What the handlers write. *)

Handles(w, op) == pc[w] = "handle" /\ tx[w].op = op

\* Variant: the DELETE without its condition on the status.
AnyTest(t) == status[t] \in {"draft", "active", "archived"}
Deletable(t) == status[t] = "draft"

\* Variant: the editor that does not look at the status.
Unchecked(w)  == TRUE
SawDraft(w) == tx[w].status = "draft"

\* Every lock at once: no step between two locks is seen by others.
CancelDraft(w, t) ==
    LET draft == Deletable(t)
    IN  /\ RowFree(w, t) /\ CardsFree(w, t, Position)
        /\ tx' = [tx EXCEPT
                ![w].put[t] = IF draft THEN "deleted" ELSE status[t],
                ![w].paint  = IF draft THEN Blank ELSE @]

\* The rows of a new test and of its questions.
Insert(w, t, questions) ==
    /\ NextId(t)
    /\ tx' = [tx EXCEPT ![w].test = t, ![w].put[t] = "draft",
                        ![w].paint = questions]

\* publish(), which ends in a ValueError, in a PublishConflictError, or well.
PublishEnds(w, t, fate, put) ==
    tx' = [tx EXCEPT ![w].fate = fate,
                     ![w].put = [u \in Test |->
                        IF u \in DOMAIN put THEN put[u] ELSE @[u]]]

Publish(w, t, fate) ==
    LET old     == {tx[w].active} \ {None, t}
        locks   == \A u \in old \cup {t} : RowFree(w, u)
        held    == [u \in old |-> status[u]]
        archive == [u \in old |-> "archived"]
        gone    == \E u \in old : status[u] # "active"
        whole   == Missing(tx[w].cards) = {}
    IN  \/ ~whole /\ fate = "refused" /\ PublishEnds(w, t, fate, <<>>)
        \/ whole /\ locks /\ gone
           /\ fate = "refused" /\ PublishEnds(w, t, fate, held)
        \/ whole /\ locks /\ ~gone /\ status[t] # "draft"
           /\ fate = "refused" /\ PublishEnds(w, t, fate, archive)
        \/ whole /\ locks /\ ~gone /\ status[t] = "draft" /\ IndexFree(w)
           /\ Active \ old # {}
           /\ fate = "conflict" /\ PublishEnds(w, t, fate, archive)
        \/ whole /\ locks /\ ~gone /\ status[t] = "draft" /\ IndexFree(w)
           /\ Active \ old = {}
           /\ fate = "published"
           /\ PublishEnds(w, t, fate, [u \in old \cup {t} |->
                IF u = t THEN "active" ELSE "archived"])

\* The carried questions of a save: a question that keeps its illustration
\* keeps the file it had in the snapshot.
Carried(form, snapshot) ==
    [p \in Position |->
        IF form[p] = "wanted" /\ HasFile(snapshot[p]) THEN snapshot[p] ELSE form[p]]

-----------------------------------------------------------------------------
(* The bot. *)

\* /upload_test: the draft of an unfinished upload is deleted.
Upload(w) ==
    /\ Handles(w, "upload")
    /\ IF tx[w].test = None THEN UNCHANGED tx ELSE CancelDraft(w, tx[w].test)
    /\ fsm' = [NoFlow EXCEPT !.step = "file"]
    /\ Goto(w, "commit")
    /\ UNCHANGED <<db, previews, announced, history>>

\* The panel's upload button, which forgets no draft: no transaction needed.
Tile ==
    /\ "tile" \in Kinds
    /\ fsm' = [fsm EXCEPT !.step = "file"]
    /\ UNCHANGED <<db, previews, announced, pc, tx, history>>

\* Another command or button of the panel: it clears the flow, or asks for
\* input of its own and keeps the data.
Leave ==
    /\ "leave" \in Kinds
    /\ fsm' \in {NoFlow, [fsm EXCEPT !.step = "none"]}
    /\ UNCHANGED <<db, previews, announced, pc, tx, history>>

\* /cancel, and the button under a preview.
Cancel(w) ==
    /\ Handles(w, "cancel") \/ Handles(w, "discard")
    /\ IF tx[w].test = None THEN UNCHANGED tx ELSE CancelDraft(w, tx[w].test)
    /\ fsm' = NoFlow
    /\ Goto(w, "commit")
    /\ UNCHANGED <<db, previews, announced, history>>

\* The preview with its publish buttons, or the request for a photo.
Preview(t) == /\ fsm' = [step |-> "confirm", draft |-> t]
              /\ previews' = previews \cup {t}
AskPhoto(t) == /\ fsm' = [step |-> "images", draft |-> t]
               /\ UNCHANGED previews

File(w) ==
    /\ Handles(w, "file")
    /\ \/ \E t \in Test, sheet \in [Position -> {"text", "wanted"}] :
            /\ Insert(w, t, sheet)
            /\ IF Missing(sheet) = {} THEN Preview(t) ELSE AskPhoto(t)
       \/ UNCHANGED <<tx, fsm, previews>>   \* parse errors
    /\ Goto(w, "commit")
    /\ UNCHANGED <<db, announced, history>>

\* The photo goes to the first position that misses one in the snapshot.
Photo(w) ==
    LET t       == tx[w].test
        pending == Missing(tx[w].cards)
        first   == CHOOSE p \in pending : \A q \in pending : p <= q
        hit     == Flagged(cards[t][first])
    IN  /\ Handles(w, "photo")
        /\ \/ /\ pending = {} /\ tx[w].status \in {"absent", "deleted"}
              /\ fsm' = NoFlow
              /\ UNCHANGED <<tx, previews>>
           \/ /\ pending = {} /\ tx[w].status \notin {"absent", "deleted"}
              /\ Preview(t)
              /\ UNCHANGED tx
           \/ /\ pending # {} /\ CardsFree(w, t, {first})
              /\ tx' = [tx EXCEPT ![w].paint[first] =
                            IF hit THEN WithImage(cards[t][first]) ELSE @]
              /\ IF hit /\ pending = {first} THEN Preview(t) ELSE AskPhoto(t)
        /\ Goto(w, "commit")
        /\ UNCHANGED <<db, announced, history>>

\* A refusal is answered, and then committed; a conflict rolls back.
PublishTap(w) ==
    LET t == tx[w].test
    IN  /\ pc[w] = "handle" /\ tx[w].op \in BotPublish
        /\ \/ /\ \E fate \in {"refused", "published"} :
                   /\ Publish(w, t, fate)
                   /\ announced' =
                        IF Announces(w, fate) THEN [announced EXCEPT ![t] = @ + 1] ELSE announced
              /\ fsm' = NoFlow
              /\ Goto(w, "commit")
           \/ /\ Publish(w, t, "conflict")
              /\ Goto(w, "rollback")
              /\ UNCHANGED <<fsm, announced>>
        /\ UNCHANGED <<db, previews, history>>

-----------------------------------------------------------------------------
(* The panel. *)

New(w) ==
    /\ Handles(w, "new")
    /\ \E t \in Test : Insert(w, t, Blank)
    /\ Goto(w, "commit")
    /\ UNCHANGED <<db, chat, history>>

\* A test that is gone, or no draft, in the snapshot: 404 or 409.
NotDraft(w) ==
    /\ pc[w] = "handle" /\ tx[w].op \in PanelPublish \cup {"save", "image"}
    /\ ~SawDraft(w)
    /\ Ended(w)
    /\ UNCHANGED <<db, chat, history>>

\* The status is checked in the snapshot only.  The foreign keys stop a save
\* of a deleted test, and one of a test with answers.
Save(w) ==
    LET t == tx[w].test
    IN  /\ Handles(w, "save") /\ SawDraft(w)
        /\ RowFree(w, t) /\ CardsFree(w, t, Position)
        /\ \/ /\ status[t] # "deleted"
              /\ \E form \in Forms :
                   tx' = [tx EXCEPT ![w].put[t] = status[t],
                                    ![w].paint = Carried(form, tx[w].cards)]
              /\ Goto(w, "commit")
           \/ /\ status[t] # "draft"
              /\ tx' = tx /\ Goto(w, "rollback")
        /\ UNCHANGED <<db, chat, history>>

PanelPublishPost(w) ==
    /\ pc[w] = "handle" /\ tx[w].op \in PanelPublish /\ SawDraft(w)
    /\ \/ /\ Missing(tx[w].cards) \cup Gaps(tx[w].cards) # {}
          /\ UNCHANGED tx
       \/ /\ Missing(tx[w].cards) \cup Gaps(tx[w].cards) = {}
          /\ \E fate \in {"refused", "conflict", "published"} :
                Publish(w, tx[w].test, fate)
    /\ Goto(w, "commit")
    /\ UNCHANGED <<db, chat, history>>

Delete(w) ==
    /\ Handles(w, "delete")
    /\ CancelDraft(w, tx[w].test)
    /\ Goto(w, "commit")
    /\ UNCHANGED <<db, chat, history>>

Duplicate(w) ==
    /\ Handles(w, "duplicate")
    /\ IF tx[w].status = "deleted" THEN UNCHANGED tx
       ELSE \E t \in Test : Insert(w, t, tx[w].cards)
    /\ Goto(w, "commit")
    /\ UNCHANGED <<db, chat, history>>

\* An image from the editor: the status is checked, Telegram takes the photo,
\* and a second transaction writes the file id.
Image(w) ==
    /\ Handles(w, "image") /\ SawDraft(w)
    /\ Goto(w, "attach")
    /\ UNCHANGED <<db, chat, tx, history>>

Attach(w) ==
    LET t == tx[w].test
    IN  /\ pc[w] = "attach"
        /\ \E p \in Position :
             /\ CardsFree(w, t, {p})
             /\ tx' = [tx EXCEPT ![w].paint[p] =
                        IF Flagged(cards[t][p]) THEN WithImage(cards[t][p]) ELSE @]
        /\ Goto(w, "commit")
        /\ UNCHANGED <<db, chat, history>>

-----------------------------------------------------------------------------
Rollback(w) ==
    /\ pc[w] = "rollback"
    /\ Undone(w)
    /\ UNCHANGED <<cards, chat, history>>

\* A test has been published before, or none has; nothing is under way.
Init ==
    /\ \E first \in {{}, {1}} :
         /\ status = [t \in Test |-> IF t \in first THEN "active" ELSE "absent"]
         /\ cards  = [t \in Test |-> [p \in Position |->
                        IF t \in first THEN "text" ELSE "empty"]]
    /\ fsm       = NoFlow
    /\ previews  = {}
    /\ announced = [t \in Test |-> 0]
    /\ pc        = [w \in Worker |-> "idle"]
    /\ tx        = [w \in Worker |-> NoTx]
    /\ door      = [t \in Test |-> "none"]
    /\ raced     = {}
    /\ stranded  = FALSE
    /\ ops       = 0
    /\ faults    = 0

HandleUpdate(w) ==
    Upload(w) \/ Cancel(w) \/ File(w) \/ Photo(w) \/ PublishTap(w)

HandleRequest(w) ==
    \/ New(w) \/ NotDraft(w) \/ Save(w) \/ PanelPublishPost(w)
    \/ Delete(w) \/ Duplicate(w) \/ Image(w) \/ Attach(w)

Arrive(w) == \E op \in Kinds \ {"tile", "leave"}, t \in Test \cup {None} : Begin(w, op, t)
Finish(w) == Commit(w) \/ Rollback(w)

Next == \/ Tile \/ Leave
        \/ \E w \in Worker :
            Arrive(w) \/ HandleUpdate(w) \/ HandleRequest(w) \/ Finish(w) \/ Fail(w)

Spec == Init /\ [][Next]_vars

-----------------------------------------------------------------------------
(* Properties. *)

TypeOK ==
    /\ status \in [Test -> Status]
    /\ cards \in [Test -> [Position -> Card]]
    /\ fsm \in Flow
    /\ previews \subseteq Test
    /\ announced \in [Test -> Nat]
    /\ pc \in [Worker -> {"idle", "handle", "attach", "commit", "rollback"}]
    /\ tx \in [Worker ->
            [op : BotOp \cup PanelOp \cup {"none"}, test : Test \cup {None},
             active : Test \cup {None}, status : Status,
             cards : [Position -> Card],
             put : [Test -> Status \cup {Keep}],
             paint : [Position -> Card \cup {Keep}],
             fate : {"none", "refused", "conflict", "published"}]]
    /\ door \in [Test -> {"none", "bot", "panel"}]
    /\ raced \subseteq Test /\ stranded \in BOOLEAN
    /\ ops \in 0..MaxOps /\ faults \in 0..MaxFaults

\* No two open transactions hold one row of `tests', and none has archived or
\* activated a test on a status that another has changed since.
RowsHeld ==
    \A w \in Worker, t \in Test :
        /\ \A o \in Worker \ {w} :
             tx[w].put[t] # Keep => tx[o].put[t] = Keep
        /\ tx[w].put[t] = "archived" /\ status[t] # "archived" => status[t] = "active"
        /\ tx[w].put[t] = "active" /\ status[t] # "active" => status[t] = "draft"

\* ux_tests__one_active and archive-then-activate: at most one test is
\* published at any time, from whichever door and in whatever order the
\* transactions of the publishers end.
OneActive == Cardinality(Active) <= 1

PublishInv == TypeOK /\ RowsHeld /\ OneActive

\* What the students take is whole: no question of a published test waits for
\* its illustration, and one published from the panel has a question at every
\* position -- unless the test was edited while it was being published, which
\* the check made in the snapshot of publish() cannot see.
PublishedIsWhole ==
    \A t \in Active \ raced, p \in Position :
        /\ cards[t][p] # "wanted"
        /\ door[t] = "panel" => cards[t][p] # "empty"

\* Once published, a test keeps its questions and illustrations: saves, photos
\* and image uploads stop at the status, unless they overlap the publishing.
QuestionsFrozen ==
    [][\A t \in Test \ raced' :
        status[t] \in {"active", "archived"} => cards'[t] = cards[t]]_vars

Forward == {<<"absent", "draft">>, <<"absent", "deleted">>, <<"draft", "deleted">>,
            <<"draft", "active">>, <<"active", "archived">>}

\* A test goes draft, active, archived and never back; only a draft is
\* deleted; and once students have a test to take they keep having one,
\* unless a refused publish committed its archive without its activation.
ActiveTestStays ==
    [][/\ \A t \in Test :
            status'[t] # status[t] => <<status[t], status'[t]>> \in Forward
       /\ Active # {} => Active' # {} \/ stranded']_vars

\* Students are told of a test once, and of none that is not published or
\* about to be: a refused or beaten publish announces nothing, and only a
\* commit that failed after the announcement leaves one too many.
AnnouncedOnce ==
    \A t \in Test :
        LET out    == status[t] \in {"active", "archived"}
            coming == \E w \in Worker : tx[w].test = t /\ tx[w].fate = "published"
        IN  announced[t] <= faults + (IF out \/ coming THEN 1 ELSE 0)
=============================================================================
