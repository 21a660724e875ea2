-------------------------- MODULE AttemptStart_proofs --------------------------
(***************************************************************************)
(* Theorems about AttemptStart, for any number of taps, attempts, tests and *)
(* concurrent publishers.  What holds of the tests and transactions is the *)
(* inductive invariant of TestPublishing_proofs, which goes on holding.    *)
(***************************************************************************)
EXTENDS AttemptStart, TestPublishing_proofs

Label    == {"idle", "start", "jobs", "commit", "rollback", "done"}
SeenRow  == [test : Test \cup {None}, open : BOOLEAN]
StartRow == [test : Test \cup {None}, seen : SUBSET SeenRow, id : 0..MaxAttempts]

StartTyped ==
    /\ attempts \in [Attempt -> [test : Test \cup {None}, status : RowStatus]]
    /\ jobs \subseteq Attempt
    /\ at \in [Tap -> Label] /\ start \in [Tap -> StartRow]
    /\ crossed \in BOOLEAN

Inserted(k) == at[k] \in {"jobs", "commit", "rollback"}
Writing(k)  == at[k] \in {"jobs", "commit"}

\* The row of a start is its own until it ends; while it will be committed the
\* student has no attempt at its test, which stays published.
TapSound(k) ==
    /\ ~Inserted(k) => start[k].id = 0
    /\ Inserted(k) => start[k].id \in Attempt /\ attempts[start[k].id].status = "absent"
    /\ Writing(k) => /\ start[k].test \in Test /\ ~Existing(k)
                     /\ Of(start[k].test) = {}
    /\ k \in InFlight /\ start[k].test # None => Out(start[k].test)
    /\ at[k] = "commit" => start[k].id \in jobs
    /\ at[k] = "rollback" /\ start[k].id \in jobs => faults > 0

\* No two starts have one row, or insert at one test.
Apart ==
    /\ \A k, o \in Tap : start[k].id = start[o].id /\ start[k].id # 0 => k = o
    /\ \A k, o \in Tap :
          Writing(k) /\ Writing(o) /\ start[k].test = start[o].test => k = o

RowsOut ==
    /\ \A a \in Started : attempts[a].test \in Test /\ Out(attempts[a].test)
    /\ \A a, b \in Started : attempts[a].test = attempts[b].test => a = b

\* While no publish is committed during a start, every start is at the active
\* test; what is open and it has not seen is an attempt at the same test.
Uncrossed ==
    crossed \/
    /\ \A k \in InFlight : start[k].test # None =>
          /\ start[k].test \in Active
          /\ Existing(k) \/ Open \subseteq Of(start[k].test)
    /\ \A a, b \in Open : a = b

\* An attempt with jobs is open, or a start has or had its row.
Clocked ==
    /\ Open \subseteq jobs
    /\ \A a \in jobs \ Open :
          \/ attempts[a].status = "burnt" /\ faults > 0
          \/ \E k \in Tap : Inserted(k) /\ start[k].id = a

\* The inductive invariant.
StartInv ==
    /\ IInv /\ StartTyped
    /\ \A k \in Tap : TapSound(k)
    /\ Apart /\ RowsOut /\ Uncrossed /\ Clocked

-----------------------------------------------------------------------------
(* What the steps of the tests and transactions do that matters here. *)

\* Nothing of them changes, but for a fault that is counted.
Quiet == /\ UNCHANGED <<db, chat, pc, tx, door, raced, stranded, ops>>
         /\ faults' \in {faults, faults + 1} /\ faults' \in 0..MaxFaults

\* What is published stays published, and faults are not forgotten.
Kept == /\ \A t \in Test : Out(t) => Out(t)'
        /\ faults \in Nat /\ faults' \in Nat /\ faults <= faults'

LEMMA QuietStep == ASSUME IInv, Quiet PROVE IInv' /\ Kept /\ Active' = Active
<1> USE BoundsAssumption
<1>1. /\ UNCHANGED <<status, cards, fsm, previews, announced, pc, tx, door, raced,
                     stranded, ops>>
      /\ faults' \in {faults, faults + 1} /\ faults' \in 0..MaxFaults
      /\ faults \in Nat
  BY DEF Quiet, db, chat, IInv, Typed
<1>2. Typed'
  BY <1>1 DEF IInv, Typed
<1>3. ASSUME NEW w \in Worker PROVE Sound(tx[w], pc[w])'
  <2>1. Sound(tx[w], pc[w])
    BY DEF IInv
  <2> QED
    BY <1>1, <2>1, SoundKept
<1>4. RowsExclusive' /\ Overlaps' /\ Targets' /\ RowsKept'
  BY <1>1 DEF IInv, RowsExclusive, Overlaps, Targets, RowsKept, Known, Out, Active
<1>5. ToldOnce'
  <2> SUFFICES ASSUME NEW t \in Test
               PROVE  announced'[t] <= faults' + (IF Out(t)' \/ Told(t)' THEN 1 ELSE 0)
    BY DEF ToldOnce
  <2>1. (Out(t)' <=> Out(t)) /\ (Told(t)' <=> Told(t))
    BY <1>1 DEF Out, Told
  <2>2. announced[t] \in Nat /\ announced[t] <= faults + (IF Out(t) \/ Told(t) THEN 1 ELSE 0)
    BY DEF IInv, ToldOnce, Typed
  <2> QED
    BY <1>1, <2>1, <2>2
<1>6. Kept /\ Active' = Active
  BY <1>1 DEF Kept, Out, Active
<1> QED
  BY <1>2, <1>3, <1>4, <1>5, <1>6 DEF IInv

LEMMA FaultsGrow == ASSUME Next PROVE faults' \in {faults, faults + 1}
<1>1. CASE Tile \/ Leave
  BY <1>1 DEF Tile, Leave, history
<1>2. ASSUME NEW w \in Worker,
             Arrive(w) \/ HandleUpdate(w) \/ HandleRequest(w) \/ Finish(w) \/ Fail(w)
      PROVE  faults' \in {faults, faults + 1}
  <2>1. CASE Arrive(w)
    BY <2>1 DEF Arrive, Begin
  <2>2. CASE HandleUpdate(w)
    BY <2>2 DEF HandleUpdate, Upload, Cancel, File, Photo, PublishTap, history
  <2>3. CASE HandleRequest(w)
    BY <2>3 DEF HandleRequest, New, NotDraft, Save, PanelPublishPost, Delete, Duplicate,
       Image, Attach, history
  <2>4. CASE Finish(w)
    BY <2>4 DEF Finish, Commit, Rollback, history
  <2>5. CASE Fail(w)
    BY <2>5 DEF Fail
  <2> QED
    BY <1>2, <2>1, <2>2, <2>3, <2>4, <2>5
<1> QED
  BY <1>1, <1>2 DEF Next

LEMMA NextKept == ASSUME IInv, Next PROVE IInv' /\ Kept
<1>1. IInv'
  BY NextIInv
<1>2. ASSUME NEW t \in Test, Out(t) PROVE Out(t)'
  <2>1. CASE UNCHANGED db
    BY <1>2, <2>1 DEF db, Out
  <2>2. ASSUME NEW w \in Worker, Commit(w) PROVE Out(t)'
    <3>1. RowsGo(tx[w])
      BY <2>2, CommitRows
    <3> QED
      BY <1>2, <3>1 DEF RowsGo, Out, Forward
  <2>3. ASSUME NEW w \in Worker, Undone(w) PROVE Out(t)'
    BY <1>2, <2>3 DEF Undone, Out
  <2> QED
    BY <2>1, <2>2, <2>3, RowSteps
<1>3. faults \in Nat /\ faults' \in {faults, faults + 1}
  BY FaultsGrow, BoundsAssumption DEF IInv, Typed
<1> QED
  BY <1>1, <1>2, <1>3 DEF Kept

-----------------------------------------------------------------------------
(* The steps of a start. *)

LEMMA StartInit == ASSUME InitStart PROVE StartInv
<1> USE AttemptsAssumption
<1>1. /\ attempts = [a \in Attempt |-> [test |-> None, status |-> "absent"]]
      /\ jobs = {} /\ at = [k \in Tap |-> "idle"]
      /\ start = [k \in Tap |-> NoStart] /\ crossed = FALSE
  BY DEF InitStart
<1>2. IInv
  BY InitIInv DEF InitStart
<1>3. NoStart \in StartRow /\ NoStart.id = 0
  BY DEF NoStart, StartRow
<1>4. StartTyped
  BY <1>1, <1>3 DEF StartTyped, Label, RowStatus
<1>5. Started = {} /\ Open = {} /\ InFlight = {}
  BY <1>1 DEF Started, Open, InFlight
<1>6. \A k \in Tap : TapSound(k)
  BY <1>1, <1>3 DEF TapSound, Inserted, Writing, InFlight
<1>7. Apart
  BY <1>1, <1>3 DEF Apart, Writing
<1>8. RowsOut /\ Uncrossed /\ Clocked
  BY <1>1, <1>5 DEF RowsOut, Uncrossed, Clocked
<1> QED
  BY <1>2, <1>4, <1>6, <1>7, <1>8 DEF StartInv

\* A tap whose handler is elsewhere.
LEMMA TapSoundKept ==
    ASSUME NEW o \in Tap, TapSound(o), start[o] \in StartRow, Kept,
           at'[o] = at[o], start'[o] = start[o],
           Inserted(o) => attempts'[start[o].id].status = attempts[start[o].id].status,
           Writing(o) => Of(start[o].test)' = {},
           at[o] = "commit" => start[o].id \in jobs',
           at[o] = "rollback" /\ start[o].id \in jobs' => start[o].id \in jobs
    PROVE  TapSound(o)'
<1>1. start[o].test # None => start[o].test \in Test
  BY DEF StartRow
<1>2. /\ Inserted(o)' = Inserted(o) /\ Writing(o)' = Writing(o)
      /\ Existing(o)' = Existing(o) /\ ((o \in InFlight)' <=> o \in InFlight)
  BY DEF Inserted, Writing, Existing, InFlight
<1>3. start[o].test # None /\ Out(start[o].test) => Out(start[o].test)'
  BY <1>1 DEF Kept
<1>4. faults > 0 => faults' > 0
  BY DEF Kept
<1> QED
  BY <1>2, <1>3, <1>4 DEF TapSound

\* Steps of one tap that leave the rows of attempts alone.
LEMMA TapKeeps ==
    ASSUME StartInv, IInv', Kept, Active' = Active, UNCHANGED <<attempts, crossed>>,
           NEW k \in Tap, NEW l \in Label, NEW s \in StartRow,
           at' = [at EXCEPT ![k] = l], start' = [start EXCEPT ![k] = s],
           jobs' = jobs \/ (jobs' = jobs \cup {s.id} /\ s.id \in Attempt),
           jobs' # jobs => Inserted(k)' /\ Inserted(k),
           Inserted(k) => Inserted(k)' /\ s.id = start[k].id,
           TapSound(k)',
           \A o \in Tap \ {k} : start[o].id = s.id => s.id = 0,
           Writing(k)' => \A o \in Tap \ {k} : Writing(o) => start[o].test # s.test,
           (k \in InFlight)' /\ s.test # None =>
               \/ crossed
               \/ s.test \in Active /\ (Existing(k)' \/ Open \subseteq Of(s.test))
    PROVE  StartInv'
<1>1. /\ at \in [Tap -> Label] /\ start \in [Tap -> StartRow] /\ jobs \subseteq Attempt
      /\ crossed \in BOOLEAN /\ \A o \in Tap : TapSound(o)
  BY DEF StartInv, StartTyped
<1>2. /\ at'[k] = l /\ start'[k] = s
      /\ \A o \in Tap \ {k} : at'[o] = at[o] /\ start'[o] = start[o]
  BY <1>1
<1>3. /\ Started' = Started /\ Open' = Open
      /\ \A t : Of(t)' = Of(t)
  BY DEF Started, Open, Of
<1>4. StartTyped'
  <2>1. at' \in [Tap -> Label] /\ start' \in [Tap -> StartRow] /\ jobs' \subseteq Attempt
    BY <1>1
  <2> QED
    BY <2>1 DEF StartInv, StartTyped
<1>5. ASSUME NEW o \in Tap \ {k} PROVE TapSound(o)'
  <2>1. start[o] \in StartRow /\ TapSound(o)
    BY <1>1
  <2>2. at[o] = "rollback" /\ start[o].id \in jobs' => start[o].id \in jobs
    <3>1. start[o].id = s.id => s.id = 0
      OBVIOUS
    <3>2. s.id = 0 => s.id \notin Attempt
      BY AttemptsAssumption DEF Attempt
    <3> QED
      BY <3>1, <3>2
  <2>3. at[o] = "commit" => start[o].id \in jobs'
    BY <2>1 DEF TapSound
  <2>4. Writing(o) => Of(start[o].test)' = {}
    <3>1. PICK t : t = start[o].test
      OBVIOUS
    <3> QED
      BY <1>2, <1>3, <2>1, <3>1 DEF TapSound
  <2> QED
    BY <1>2, <2>1, <2>2, <2>3, <2>4, TapSoundKept
<1>6. Apart'
  <2>1. \A o, p \in Tap : start'[o].id = start'[p].id /\ start'[o].id # 0 => o = p
    BY <1>2 DEF StartInv, Apart
  <2>2. \A o \in Tap \ {k} : Writing(o)' <=> Writing(o)
    BY <1>2 DEF Writing
  <2>3. \A o, p \in Tap :
           Writing(o)' /\ Writing(p)' /\ start'[o].test = start'[p].test => o = p
    BY <1>2, <2>2 DEF StartInv, Apart
  <2> QED
    BY <2>1, <2>3 DEF Apart
<1>7. RowsOut'
  BY <1>3 DEF StartInv, RowsOut, Kept
<1>8. Uncrossed'
  <2>1. CASE crossed
    BY <2>1 DEF Uncrossed
  <2>2. CASE ~crossed
    <3>1. ASSUME NEW o \in InFlight', start'[o].test # None
          PROVE  /\ start'[o].test \in Active'
                 /\ Existing(o)' \/ Open' \subseteq Of(start[o].test)'
      <4>1. o \in Tap
        BY <3>1 DEF InFlight
      <4>2. CASE o = k
        <5>1. s.test \in Active /\ (Existing(k)' \/ Open \subseteq Of(s.test))
          BY <1>2, <2>2, <3>1, <4>2
        <5>2. PICK t : t = s.test
          OBVIOUS
        <5>3. Of(start[o].test)' = Of(t)
          BY <1>2, <1>3, <4>2, <5>2
        <5> QED
          BY <1>2, <1>3, <4>2, <5>1, <5>2, <5>3
      <4>3. CASE o # k
        <5>1. o \in InFlight /\ start'[o] = start[o] /\ (Existing(o)' <=> Existing(o))
          BY <1>2, <3>1, <4>1, <4>3 DEF InFlight, Existing
        <5>2. /\ start[o].test \in Active
              /\ Existing(o) \/ Open \subseteq Of(start[o].test)
          BY <2>2, <3>1, <5>1 DEF StartInv, Uncrossed
        <5>3. PICK t : t = start[o].test
          OBVIOUS
        <5>4. Of(start[o].test)' = Of(t)
          BY <1>3, <5>1, <5>3
        <5> QED
          BY <1>3, <5>1, <5>2, <5>3, <5>4
      <4> QED
        BY <4>2, <4>3
    <3>2. \A a, b \in Open' : a = b
      BY <1>3, <2>2 DEF StartInv, Uncrossed
    <3> QED
      BY <3>1, <3>2 DEF Uncrossed
  <2> QED
    BY <2>1, <2>2
<1>9. Clocked'
  <2>1. Open' \subseteq jobs'
    BY <1>3 DEF StartInv, Clocked
  <2>2. \A a \in Attempt, o \in Tap :
           Inserted(o) /\ start[o].id = a => Inserted(o)' /\ start'[o].id = a
    BY <1>2 DEF Inserted
  <2>3. ASSUME NEW a \in jobs' \ Open'
        PROVE  \/ attempts'[a].status = "burnt" /\ faults' > 0
               \/ \E o \in Tap : Inserted(o)' /\ start'[o].id = a
    <3>1. CASE a \in jobs
      <4>1. CASE attempts[a].status = "burnt" /\ faults > 0
        BY <4>1 DEF Kept
      <4>2. CASE \E o \in Tap : Inserted(o) /\ start[o].id = a
        BY <1>1, <2>2, <3>1, <4>2
      <4> QED
        BY <1>3, <3>1, <4>1, <4>2 DEF StartInv, Clocked
    <3>2. CASE a \notin jobs
      BY <1>2, <3>2
    <3> QED
      BY <3>1, <3>2
  <2> QED
    BY <2>1, <2>3 DEF Clocked
<1> QED
  BY <1>4, <1>5, <1>6, <1>7, <1>8, <1>9 DEF StartInv

LEMMA TapTypes ==
    ASSUME StartInv, NEW k \in Tap
    PROVE  /\ start[k] \in StartRow /\ at[k] \in Label /\ TapSound(k)
           /\ attempts \in [Attempt -> [test : Test \cup {None}, status : RowStatus]]
           /\ at \in [Tap -> Label] /\ start \in [Tap -> StartRow]
           /\ jobs \subseteq Attempt /\ crossed \in BOOLEAN /\ 0 \notin Attempt
BY AttemptsAssumption DEF StartInv, StartTyped, Attempt

\* Steps that stop or go on with the row as it is.
LEMMA GoesOn ==
    ASSUME StartInv, IInv', Kept, Active' = Active, UNCHANGED <<attempts, start, crossed>>,
           NEW k \in Tap, NEW l \in Label, at' = [at EXCEPT ![k] = l],
           jobs' \in {jobs, jobs \cup {start[k].id}},
           jobs' # jobs => Inserted(k),
           \/ at[k] = "start" /\ l = "done"
           \/ at[k] = "jobs" /\ l = "commit" /\ start[k].id \in jobs'
           \/ Writing(k) /\ l = "rollback" /\ faults' > 0
    PROVE  StartInv'
<1>1. /\ start[k] \in StartRow /\ TapSound(k) /\ at \in [Tap -> Label]
      /\ start \in [Tap -> StartRow] /\ 0 \notin Attempt
  BY TapTypes
<1>2. PICK s \in StartRow : s = start[k]
  BY <1>1
<1>3. start' = [start EXCEPT ![k] = s] /\ start'[k] = s /\ at'[k] = l
  BY <1>1, <1>2
<1>4. /\ Inserted(k) => Inserted(k)' /\ s.id \in Attempt
      /\ Inserted(k)' => Inserted(k)
      /\ Writing(k)' => Writing(k)
      /\ (k \in InFlight)' => k \in InFlight
  BY <1>1, <1>2, <1>3 DEF Inserted, Writing, InFlight, TapSound
<1>5. TapSound(k)'
  <2>1. ~Inserted(k)' => s.id = 0
    BY <1>1, <1>2, <1>4 DEF TapSound
  <2>2. Inserted(k)' => s.id \in Attempt /\ attempts'[s.id].status = "absent"
    BY <1>1, <1>2, <1>4 DEF TapSound
  <2>3. Writing(k)' => /\ s.test \in Test /\ ~Existing(k)'
                       /\ Of(start[k].test)' = {}
    BY <1>1, <1>2, <1>3, <1>4 DEF TapSound, Existing, Of, Started
  <2>4. (k \in InFlight)' /\ s.test # None => Out(start[k].test)'
    <3>1. s.test # None => s.test \in Test
      BY <1>2 DEF StartRow
    <3>2. k \in InFlight /\ s.test # None => Out(s.test)
      BY <1>1, <1>2 DEF TapSound
    <3>3. s.test # None /\ Out(s.test) => Out(start[k].test)'
      BY <1>2, <1>3, <3>1 DEF Kept
    <3> QED
      BY <1>4, <3>2, <3>3
  <2>5. /\ l = "commit" => s.id \in jobs'
        /\ l = "rollback" /\ s.id \in jobs' => faults' > 0
    BY <1>2
  <2> QED
    BY <1>3, <2>1, <2>2, <2>3, <2>4, <2>5 DEF TapSound
<1>6. /\ \A o \in Tap \ {k} : start[o].id = s.id => s.id = 0
      /\ Writing(k)' => \A o \in Tap \ {k} : Writing(o) => start[o].test # s.test
  BY <1>2, <1>4 DEF StartInv, Apart
<1>7. (k \in InFlight)' /\ s.test # None =>
         \/ crossed
         \/ s.test \in Active /\ (Existing(k)' \/ Open \subseteq Of(s.test))
  <2>1. Existing(k)' <=> Existing(k)
    BY DEF Existing
  <2> QED
    BY <1>2, <1>4, <2>1 DEF StartInv, Uncrossed
<1>8. /\ jobs' = jobs \/ (jobs' = jobs \cup {s.id} /\ s.id \in Attempt)
      /\ jobs' # jobs => Inserted(k)' /\ Inserted(k)
  BY <1>2, <1>4
<1> QED
  BY <1>2, <1>3, <1>4, <1>5, <1>6, <1>7, <1>8, TapKeeps

LEMMA TapStartKeeps ==
    ASSUME StartInv, NEW k \in Tap, TapStart(k), UNCHANGED vars PROVE StartInv'
<1> USE AttemptsAssumption
<1>1. /\ at[k] = "idle" /\ at' = [at EXCEPT ![k] = "start"]
      /\ UNCHANGED <<attempts, jobs, crossed>>
  BY DEF TapStart, At
<1>2. IInv' /\ Kept /\ Active' = Active
  <2>1. Quiet
    BY DEF Quiet, vars, history, StartInv, IInv, Typed
  <2> QED
    BY <2>1, QuietStep DEF StartInv
<1>3. /\ start \in [Tap -> StartRow] /\ at \in [Tap -> Label] /\ TapSound(k)
      /\ attempts \in [Attempt -> [test : Test \cup {None}, status : RowStatus]]
  BY TapTypes
<1>4. PICK t \in Active \cup {None} :
         /\ t = IF Active = {} THEN None ELSE CHOOSE u \in Active : TRUE
         /\ t \in Test \cup {None}
  BY DEF Active
<1>5. PICK s : s = [test |-> t, seen |-> Seen, id |-> 0]
  OBVIOUS
<1>6. s \in StartRow /\ s.id = 0 /\ s.test = t /\ s.seen = Seen
  <2>1. Seen \in SUBSET SeenRow
    <3>1. ASSUME NEW a \in Started
          PROVE  [test |-> attempts[a].test, open |-> a \in Open] \in SeenRow
      <4>1. attempts[a].test \in Test \cup {None}
        BY <1>3 DEF Started
      <4>2. (a \in Open) \in BOOLEAN
        OBVIOUS
      <4>3. \A o \in BOOLEAN : [test |-> attempts[a].test, open |-> o] \in SeenRow
        BY <4>1 DEF SeenRow
      <4> QED
        BY <4>2, <4>3, Zenon
    <3> QED
      BY <3>1, Zenon DEF Seen
  <2> QED
    BY <1>4, <1>5, <2>1 DEF StartRow
<1>7. start' = [start EXCEPT ![k] = s]
  <2>1. PICK n : n = [NoStart EXCEPT !.test = t]
    OBVIOUS
  <2>2. n = [test |-> t, seen |-> {}, id |-> 0]
    BY <2>1 DEF NoStart
  <2>3. s = [n EXCEPT !.seen = Seen]
    BY <1>5, <2>2
  <2> QED
    BY <1>4, <2>1, <2>3 DEF TapStart
<1>8. start'[k] = s /\ at'[k] = "start"
  BY <1>1, <1>3, <1>7
<1>9. ~Inserted(k) /\ ~Inserted(k)' /\ ~Writing(k)'
  BY <1>1, <1>8 DEF Inserted, Writing
<1>10. TapSound(k)'
  <2>1. s.test # None => Out(start[k].test)'
    <3>1. t # None => t \in Test /\ Out(t)
      BY <1>4 DEF Active, Out
    <3> QED
      BY <1>2, <1>6, <1>8, <3>1 DEF Kept
  <2> QED
    BY <1>6, <1>8, <1>9, <2>1 DEF TapSound
<1>11. s.test # None => s.test \in Active /\ (Existing(k)' \/ Open \subseteq Of(s.test))
  <2>1. ASSUME NEW a \in Open PROVE Existing(k)'
    <3>1. a \in Started
      BY <2>1 DEF Open, Started
    <3>2. PICK r \in Seen : r = [test |-> attempts[a].test, open |-> TRUE]
      BY <2>1, <3>1 DEF Seen
    <3>3. r \in start'[k].seen /\ r.open
      BY <1>6, <1>8, <3>2
    <3> QED
      BY <3>3 DEF Existing
  <2> QED
    BY <1>4, <1>6, <2>1
<1> QED
  BY <1>1, <1>2, <1>6, <1>7, <1>9, <1>10, <1>11, TapKeeps DEF Label

LEMMA CreateKeeps ==
    ASSUME StartInv, NEW k \in Tap, Create(k), UNCHANGED vars PROVE StartInv'
<1> USE AttemptsAssumption
<1>1. PICK t : t = start[k].test
  OBVIOUS
<1>2. PICK a \in Attempt :
         /\ at[k] = "start" /\ t # None /\ ~Existing(k) /\ SharedBy(t) = {}
         /\ NextAttempt(a)
         /\ start' = [start EXCEPT ![k].id = a]
         /\ at' = [at EXCEPT ![k] = IF Of(t) = {} THEN "jobs" ELSE "rollback"]
         /\ UNCHANGED <<attempts, jobs, crossed>>
  BY <1>1 DEF Create, At
<1>3. IInv' /\ Kept /\ Active' = Active
  <2>1. Quiet
    BY DEF Quiet, vars, history, StartInv, IInv, Typed
  <2> QED
    BY <2>1, QuietStep DEF StartInv
<1>4. /\ start[k] \in StartRow /\ start \in [Tap -> StartRow] /\ at \in [Tap -> Label]
      /\ TapSound(k) /\ 0 \notin Attempt
  BY TapTypes
<1>5. PICK s : s = [start[k] EXCEPT !.id = a]
  OBVIOUS
<1>6. s \in StartRow /\ s.id = a /\ s.test = t /\ s.seen = start[k].seen /\ t \in Test
  BY <1>1, <1>2, <1>4, <1>5 DEF StartRow, Attempt
<1>7. start' = [start EXCEPT ![k] = s]
  BY <1>2, <1>4, <1>5
<1>8. PICK l \in Label : /\ l = IF Of(t) = {} THEN "jobs" ELSE "rollback"
                         /\ l \in {"jobs", "rollback"}
  BY DEF Label
<1>9. at' = [at EXCEPT ![k] = l] /\ at'[k] = l /\ start'[k] = s
  BY <1>2, <1>4, <1>7, <1>8
<1>10. attempts[a].status = "absent" /\ \A o \in Tap : start[o].id # a
  BY <1>2 DEF NextAttempt, Unused
<1>11. a \notin jobs
  BY <1>10 DEF StartInv, Clocked, Open
<1>12. ~Inserted(k) /\ Inserted(k)' /\ (Writing(k)' => l = "jobs")
  BY <1>2, <1>8, <1>9 DEF Inserted, Writing
<1>13. ~Existing(k)'
  BY <1>2, <1>6, <1>1, <1>9 DEF Existing
<1>14. TapSound(k)'
  <2>1. l = "jobs" => Of(start[k].test)' = {}
    BY <1>2, <1>6, <1>8, <1>9 DEF Of, Started
  <2>2. Out(start[k].test)'
    <3>1. Out(t)
      BY <1>1, <1>2, <1>4 DEF TapSound, InFlight
    <3> QED
      BY <1>3, <1>6, <1>9, <3>1 DEF Kept
  <2>3. Inserted(k)' => a \in Attempt /\ attempts'[a].status = "absent"
    BY <1>2, <1>10
  <2>4. Writing(k)' => t \in Test /\ ~Existing(k)' /\ Of(start[k].test)' = {}
    BY <1>6, <1>12, <1>13, <2>1
  <2>5. a \notin jobs' /\ l # "commit"
    BY <1>2, <1>8, <1>11
  <2> QED
    BY <1>6, <1>9, <1>12, <2>2, <2>3, <2>4, <2>5 DEF TapSound
<1>15. \A o \in Tap \ {k} : Writing(o) => start[o].test # s.test
  BY <1>2, <1>6 DEF SharedBy, Writing
<1>16. crossed \/ (s.test \in Active /\ Open \subseteq Of(s.test))
  <2>1. k \in InFlight
    BY <1>2 DEF InFlight
  <2> QED
    BY <1>1, <1>2, <1>6, <2>1 DEF StartInv, Uncrossed
<1>17. UNCHANGED <<attempts, crossed, jobs>> /\ s \in StartRow /\ l \in Label
  BY <1>2, <1>6, <1>8
<1>18. \A o \in Tap \ {k} : start[o].id # s.id
  BY <1>6, <1>10
<1>19. /\ (k \in InFlight)' /\ s.test # None =>
            \/ crossed
            \/ s.test \in Active /\ (Existing(k)' \/ Open \subseteq Of(s.test))
       /\ Writing(k)' => \A o \in Tap \ {k} : Writing(o) => start[o].test # s.test
  BY <1>15, <1>16
<1> HIDE DEF Attempt
<1> QED
  BY <1>3, <1>7, <1>9, <1>12, <1>14, <1>17, <1>18, <1>19, TapKeeps

LEMMA GoingOnKeeps ==
    ASSUME StartInv, NEW k \in Tap,
           \/ Refused(k) /\ UNCHANGED vars
           \/ /\ ScheduleJobs(k) \/ ScheduleFails(k) \/ CommitFails(k)
              /\ UNCHANGED <<db, chat, pc, tx, door, raced, stranded, ops>>
    PROVE  StartInv'
<1> USE BoundsAssumption
<1>1. faults \in 0..MaxFaults
  BY DEF StartInv, IInv, Typed
<1>2. Quiet
  BY <1>1 DEF Quiet, Refused, ScheduleJobs, ScheduleFails, CommitFails, vars, history
<1>3. IInv' /\ Kept /\ Active' = Active
  BY <1>2, QuietStep DEF StartInv
<1>4. PICK l \in Label :
         /\ at' = [at EXCEPT ![k] = l]
         /\ jobs' \in {jobs, jobs \cup {start[k].id}}
         /\ jobs' # jobs => Inserted(k)
         /\ \/ at[k] = "start" /\ l = "done"
            \/ at[k] = "jobs" /\ l = "commit" /\ start[k].id \in jobs'
            \/ Writing(k) /\ l = "rollback" /\ faults' > 0
  BY <1>1 DEF Refused, ScheduleJobs, ScheduleFails, CommitFails, At, Label, Inserted, Writing
<1>5. UNCHANGED <<attempts, start, crossed>>
  BY DEF Refused, ScheduleJobs, ScheduleFails, CommitFails
<1> QED
  BY <1>3, <1>4, <1>5, GoesOn

\* The end of a start whose row has been inserted.
LEMMA EndsTap ==
    ASSUME StartInv, NEW k \in Tap, Inserted(k),
           at' = [at EXCEPT ![k] = "done"], start' = [start EXCEPT ![k] = NoStart]
    PROVE  /\ at' \in [Tap -> Label] /\ start' \in [Tap -> StartRow]
           /\ at'[k] = "done" /\ start'[k].id = 0
           /\ \A o \in Tap \ {k} : /\ at'[o] = at[o] /\ start'[o] = start[o]
                                   /\ start[o].id # start[k].id
           /\ ~Inserted(k)' /\ ~Writing(k)' /\ ~(k \in InFlight)'
           /\ start[k].id \in Attempt /\ attempts[start[k].id].status = "absent"
           /\ Apart'
<1> USE AttemptsAssumption
<1>1. /\ at \in [Tap -> Label] /\ start \in [Tap -> StartRow] /\ TapSound(k)
      /\ 0 \notin Attempt
  BY TapTypes
<1>2. NoStart \in StartRow /\ NoStart.id = 0
  BY DEF NoStart, StartRow
<1>3. /\ at' \in [Tap -> Label] /\ start' \in [Tap -> StartRow]
      /\ at'[k] = "done" /\ start'[k] = NoStart
      /\ \A o \in Tap \ {k} : at'[o] = at[o] /\ start'[o] = start[o]
  BY <1>1, <1>2 DEF Label
<1>4. start[k].id \in Attempt /\ attempts[start[k].id].status = "absent"
  BY <1>1 DEF TapSound
<1>5. \A o \in Tap \ {k} : start[o].id # start[k].id
  BY <1>1, <1>4 DEF StartInv, Apart
<1>6. ~Inserted(k)' /\ ~Writing(k)' /\ ~(k \in InFlight)'
  BY <1>3 DEF Inserted, Writing, InFlight
<1>7. Apart'
  <2>1. \A o, p \in Tap : start'[o].id = start'[p].id /\ start'[o].id # 0 => o = p
    BY <1>2, <1>3 DEF StartInv, Apart
  <2>2. \A o \in Tap : Writing(o)' => o # k /\ Writing(o)
    BY <1>3, <1>6 DEF Writing
  <2>3. \A o, p \in Tap :
           Writing(o)' /\ Writing(p)' /\ start'[o].test = start'[p].test => o = p
    BY <1>3, <2>2 DEF StartInv, Apart
  <2> QED
    BY <2>1, <2>3 DEF Apart
<1> QED
  BY <1>2, <1>3, <1>4, <1>5, <1>6, <1>7

LEMMA CommitStartKeeps ==
    ASSUME StartInv, NEW k \in Tap, CommitStart(k),
           UNCHANGED <<db, chat, pc, tx, door, raced, stranded, ops>>
    PROVE  StartInv'
<1>1. PICK a, t : a = start[k].id /\ t = start[k].test
  OBVIOUS
<1>2. /\ at[k] = "commit"
      /\ attempts' = [attempts EXCEPT ![a] = [test |-> t, status |-> "in_progress"]]
      /\ start' = [start EXCEPT ![k] = NoStart] /\ at' = [at EXCEPT ![k] = "done"]
      /\ UNCHANGED <<jobs, crossed, faults>>
  BY <1>1 DEF CommitStart, At
<1>3. IInv' /\ Kept /\ Active' = Active
  <2>1. Quiet
    BY <1>2 DEF Quiet, StartInv, IInv, Typed
  <2> QED
    BY <2>1, QuietStep DEF StartInv
<1>4. Inserted(k) /\ Writing(k) /\ k \in InFlight
  BY <1>2 DEF Inserted, Writing, InFlight
<1>5. /\ at' \in [Tap -> Label] /\ start' \in [Tap -> StartRow]
      /\ at'[k] = "done" /\ start'[k].id = 0
      /\ \A o \in Tap \ {k} : /\ at'[o] = at[o] /\ start'[o] = start[o]
                              /\ start[o].id # a
      /\ ~Inserted(k)' /\ ~Writing(k)' /\ ~(k \in InFlight)'
      /\ a \in Attempt /\ attempts[a].status = "absent" /\ Apart'
  BY <1>1, <1>2, <1>4, EndsTap
<1>6. /\ attempts \in [Attempt -> [test : Test \cup {None}, status : RowStatus]]
      /\ start \in [Tap -> StartRow] /\ TapSound(k) /\ jobs \subseteq Attempt
      /\ \A o \in Tap : TapSound(o) /\ start[o] \in StartRow
  BY TapTypes
<1>7. /\ t \in Test /\ ~Existing(k) /\ Of(t) = {} /\ Out(t) /\ a \in jobs
  BY <1>1, <1>2, <1>4, <1>6, Constants DEF TapSound
<1>8. /\ attempts' \in [Attempt -> [test : Test \cup {None}, status : RowStatus]]
      /\ attempts'[a].test = t /\ attempts'[a].status = "in_progress"
      /\ \A b \in Attempt \ {a} : attempts'[b] = attempts[b]
  BY <1>2, <1>5, <1>6, <1>7 DEF RowStatus
<1>9. /\ Started' = Started \cup {a} /\ Open' = Open \cup {a} /\ a \notin Started
      /\ Started \subseteq Attempt /\ Open \subseteq Started
  BY <1>5, <1>8 DEF Started, Open
<1>10. StartTyped'
  BY <1>2, <1>5, <1>6, <1>8 DEF StartInv, StartTyped
<1>11. ASSUME NEW u, u # t PROVE Of(u)' = Of(u)
  BY <1>8, <1>9, <1>11 DEF Of
<1>12. ASSUME NEW o \in Tap \ {k} PROVE TapSound(o)'
  <2>1. start[o] \in StartRow /\ TapSound(o) /\ start[o].id # a
    BY <1>5, <1>6
  <2>2. Inserted(o) => attempts'[start[o].id].status = attempts[start[o].id].status
    BY <1>8, <2>1 DEF TapSound
  <2>3. Writing(o) => Of(start[o].test)' = {}
    <3>1. PICK u : u = start[o].test
      OBVIOUS
    <3>2. Writing(o) => u # t /\ Of(u) = {}
      BY <1>1, <1>4, <2>1, <3>1 DEF StartInv, Apart, TapSound
    <3> QED
      BY <1>5, <1>11, <3>1, <3>2
  <2>4. at[o] = "commit" => start[o].id \in jobs'
    BY <1>2, <2>1 DEF TapSound
  <2> QED
    BY <1>2, <1>3, <1>5, <2>1, <2>2, <2>3, <2>4, TapSoundKept
<1>13. TapSound(k)'
  BY <1>5 DEF TapSound
<1>14. RowsOut'
  <2>1. \A b \in Started : attempts[b].test # t
    BY <1>7, <1>9 DEF Of
  <2>2. \A b \in Started' : attempts'[b].test \in Test /\ Out(attempts[b].test)'
    <3>1. Out(t)'
      BY <1>3, <1>7 DEF Kept
    <3>2. ASSUME NEW b \in Started
          PROVE  attempts'[b].test \in Test /\ Out(attempts[b].test)'
      <4>1. attempts'[b] = attempts[b]
        BY <1>8, <1>9, <3>2
      <4>2. attempts[b].test \in Test /\ Out(attempts[b].test)
        BY <3>2 DEF StartInv, RowsOut
      <4>3. PICK u \in Test : u = attempts[b].test
        BY <4>2
      <4>4. Out(u)'
        BY <1>3, <4>2, <4>3 DEF Kept
      <4> QED
        BY <4>1, <4>3, <4>4 DEF Out
    <3>3. Out(attempts[a].test)'
      BY <1>8, <3>1 DEF Out
    <3> QED
      BY <1>7, <1>8, <1>9, <3>2, <3>3
  <2>3. \A b, c \in Started' : attempts'[b].test = attempts'[c].test => b = c
    BY <1>8, <1>9, <2>1 DEF StartInv, RowsOut
  <2> QED
    BY <2>2, <2>3 DEF RowsOut
<1>15. Uncrossed'
  <2>1. CASE crossed
    BY <1>2, <2>1 DEF Uncrossed
  <2>2. CASE ~crossed
    <3>1. t \in Active /\ Open = {}
      BY <1>1, <1>4, <1>7, <2>2, Constants DEF StartInv, Uncrossed
    <3>2. Open' = {a}
      BY <1>9, <3>1
    <3>3. a \in Of(t)'
      BY <1>8, <1>9 DEF Of
    <3>4. ASSUME NEW o \in InFlight', start'[o].test # None
          PROVE  start'[o].test \in Active' /\ Open' \subseteq Of(start[o].test)'
      <4>1. o \in InFlight /\ o \in Tap /\ start'[o] = start[o]
        BY <1>5, <3>4 DEF InFlight
      <4>2. start[o].test \in Active
        BY <2>2, <3>4, <4>1 DEF StartInv, Uncrossed
      <4>3. start[o].test = t
        BY <3>1, <4>2 DEF StartInv, IInv, RowsKept
      <4> QED
        BY <1>3, <3>2, <3>3, <4>1, <4>2, <4>3
    <3> QED
      BY <3>2, <3>4 DEF Uncrossed
  <2> QED
    BY <2>1, <2>2
<1>16. Clocked'
  <2>1. Open' \subseteq jobs'
    BY <1>2, <1>7, <1>9 DEF StartInv, Clocked
  <2>2. ASSUME NEW b \in jobs' \ Open'
        PROVE  \/ attempts'[b].status = "burnt" /\ faults' > 0
               \/ \E o \in Tap : Inserted(o)' /\ start'[o].id = b
    <3>1. b \in jobs \ Open /\ b # a /\ b \in Attempt
      BY <1>2, <1>6, <1>9, <2>2
    <3>2. CASE attempts[b].status = "burnt" /\ faults > 0
      BY <1>2, <1>8, <3>1, <3>2
    <3>3. ASSUME NEW o \in Tap, Inserted(o), start[o].id = b
          PROVE  Inserted(o)' /\ start'[o].id = b
      BY <1>1, <1>5, <3>1, <3>3 DEF Inserted
    <3> QED
      BY <3>1, <3>2, <3>3 DEF StartInv, Clocked
  <2> QED
    BY <2>1, <2>2 DEF Clocked
<1> QED
  BY <1>3, <1>5, <1>10, <1>12, <1>13, <1>14, <1>15, <1>16 DEF StartInv

LEMMA RollbackStartKeeps ==
    ASSUME StartInv, NEW k \in Tap, RollbackStart(k), UNCHANGED vars PROVE StartInv'
<1>1. PICK a : a = start[k].id
  OBVIOUS
<1>2. /\ at[k] = "rollback"
      /\ attempts' = [attempts EXCEPT ![a].status = "burnt"]
      /\ start' = [start EXCEPT ![k] = NoStart] /\ at' = [at EXCEPT ![k] = "done"]
      /\ UNCHANGED <<jobs, crossed>>
  BY <1>1 DEF RollbackStart, At
<1>3. IInv' /\ Kept /\ Active' = Active /\ faults' = faults
  <2>1. Quiet
    BY DEF Quiet, vars, history, StartInv, IInv, Typed
  <2> QED
    BY <2>1, QuietStep DEF StartInv, vars, history
<1>4. Inserted(k)
  BY <1>2 DEF Inserted
<1>5. /\ at' \in [Tap -> Label] /\ start' \in [Tap -> StartRow]
      /\ at'[k] = "done" /\ start'[k].id = 0
      /\ \A o \in Tap \ {k} : /\ at'[o] = at[o] /\ start'[o] = start[o]
                              /\ start[o].id # a
      /\ ~Inserted(k)' /\ ~Writing(k)' /\ ~(k \in InFlight)'
      /\ a \in Attempt /\ attempts[a].status = "absent" /\ Apart'
  BY <1>1, <1>2, <1>4, EndsTap
<1>6. /\ attempts \in [Attempt -> [test : Test \cup {None}, status : RowStatus]]
      /\ start \in [Tap -> StartRow] /\ TapSound(k) /\ jobs \subseteq Attempt
      /\ \A o \in Tap : TapSound(o) /\ start[o] \in StartRow
  BY TapTypes
<1>7. /\ attempts' \in [Attempt -> [test : Test \cup {None}, status : RowStatus]]
      /\ attempts'[a].status = "burnt"
      /\ \A b \in Attempt \ {a} : attempts'[b] = attempts[b]
  <2>1. PICK r : r = [attempts[a] EXCEPT !.status = "burnt"]
    OBVIOUS
  <2>2. r \in [test : Test \cup {None}, status : RowStatus] /\ r.status = "burnt"
    BY <1>5, <1>6, <2>1 DEF RowStatus
  <2>3. attempts' = [attempts EXCEPT ![a] = r]
    BY <1>2, <2>1
  <2> QED
    BY <1>5, <1>6, <2>2, <2>3
<1>8. /\ Started' = Started /\ Open' = Open /\ a \notin Started
      /\ Started \subseteq Attempt /\ Open \subseteq Started
  BY <1>5, <1>7 DEF Started, Open
<1>9. \A u : Of(u)' = Of(u)
  BY <1>7, <1>8 DEF Of
<1>10. StartTyped'
  BY <1>2, <1>5, <1>6, <1>7 DEF StartInv, StartTyped
<1>11. ASSUME NEW o \in Tap \ {k} PROVE TapSound(o)'
  <2>1. start[o] \in StartRow /\ TapSound(o) /\ start[o].id # a
    BY <1>5, <1>6
  <2>2. Inserted(o) => attempts'[start[o].id].status = attempts[start[o].id].status
    BY <1>7, <2>1 DEF TapSound
  <2>3. Writing(o) => Of(start[o].test)' = {}
    <3>1. PICK u : u = start[o].test
      OBVIOUS
    <3> QED
      BY <1>5, <1>9, <2>1, <3>1 DEF TapSound
  <2>4. at[o] = "commit" => start[o].id \in jobs'
    BY <1>2, <2>1 DEF TapSound
  <2> QED
    BY <1>2, <1>3, <1>5, <2>1, <2>2, <2>3, <2>4, TapSoundKept
<1>12. TapSound(k)'
  BY <1>5 DEF TapSound
<1>13. RowsOut'
  <2>1. \A b \in Started : attempts'[b] = attempts[b]
    BY <1>7, <1>8
  <2>2. ASSUME NEW b \in Started' PROVE attempts'[b].test \in Test /\ Out(attempts[b].test)'
    <3>1. attempts[b].test \in Test /\ Out(attempts[b].test) /\ b \in Started
      BY <1>8, <2>2 DEF StartInv, RowsOut
    <3>2. PICK u \in Test : u = attempts[b].test
      BY <3>1
    <3> QED
      BY <1>3, <2>1, <3>1, <3>2 DEF Kept, Out
  <2> QED
    BY <1>8, <2>1, <2>2 DEF StartInv, RowsOut
<1>14. Uncrossed'
  <2>1. CASE crossed
    BY <1>2, <2>1 DEF Uncrossed
  <2>2. CASE ~crossed
    <3>1. ASSUME NEW o \in InFlight', start'[o].test # None
          PROVE  /\ start'[o].test \in Active'
                 /\ Existing(o)' \/ Open' \subseteq Of(start[o].test)'
      <4>1. o \in InFlight /\ o \in Tap /\ start'[o] = start[o]
        BY <1>5, <3>1 DEF InFlight
      <4>2. PICK u : u = start[o].test
        OBVIOUS
      <4>3. u \in Active /\ (Existing(o) \/ Open \subseteq Of(u))
        BY <2>2, <3>1, <4>1, <4>2 DEF StartInv, Uncrossed
      <4>4. Existing(o)' <=> Existing(o)
        BY <4>1 DEF Existing
      <4> QED
        BY <1>3, <1>8, <1>9, <4>1, <4>2, <4>3, <4>4
    <3> QED
      BY <1>8, <2>2, <3>1 DEF StartInv, Uncrossed
  <2> QED
    BY <2>1, <2>2
<1>15. Clocked'
  <2>1. ASSUME NEW b \in jobs' \ Open'
        PROVE  \/ attempts'[b].status = "burnt" /\ faults' > 0
               \/ \E o \in Tap : Inserted(o)' /\ start'[o].id = b
    <3>1. b \in jobs \ Open /\ b \in Attempt
      BY <1>2, <1>6, <1>8, <2>1
    <3>2. CASE b = a
      BY <1>1, <1>2, <1>3, <1>6, <1>7, <3>1, <3>2 DEF TapSound
    <3>3. CASE b # a /\ attempts[b].status = "burnt" /\ faults > 0
      BY <1>3, <1>7, <3>1, <3>3
    <3>4. ASSUME b # a, NEW o \in Tap, Inserted(o), start[o].id = b
          PROVE  Inserted(o)' /\ start'[o].id = b
      BY <1>1, <1>5, <3>4 DEF Inserted
    <3> QED
      BY <3>1, <3>2, <3>3, <3>4 DEF StartInv, Clocked
  <2> QED
    BY <1>2, <1>8, <2>1 DEF StartInv, Clocked
<1> QED
  BY <1>3, <1>5, <1>10, <1>11, <1>12, <1>13, <1>14, <1>15 DEF StartInv

-----------------------------------------------------------------------------
(* The steps of others. *)

\* An attempt that was committed or rolled back loses its jobs.
LEMMA JobsGone ==
    ASSUME StartInv, UNCHANGED <<at, start, crossed, vars>>, NEW a \in Attempt,
           attempts' \in [Attempt -> [test : Test \cup {None}, status : RowStatus]],
           attempts[a].status # "absent",
           \A b \in Attempt : attempts'[b].test = attempts[b].test,
           \A b \in Attempt \ {a} : attempts'[b] = attempts[b],
           Started' = Started, Open' = Open \ {a}, jobs' = jobs \ {a}
    PROVE  StartInv'
<1>1. IInv' /\ Kept /\ Active' = Active /\ faults' = faults /\ status' = status
  <2>1. Quiet
    BY DEF Quiet, vars, history, StartInv, IInv, Typed
  <2> QED
    BY <2>1, QuietStep DEF StartInv, vars, history, db
<1>2. /\ \A o \in Tap : TapSound(o) /\ start[o] \in StartRow
      /\ Started \subseteq Attempt
  BY TapTypes DEF Started
<1>3. \A u : Of(u)' = Of(u)
  BY <1>2 DEF Of
<1>4. StartTyped'
  BY DEF StartInv, StartTyped
<1>5. ASSUME NEW o \in Tap PROVE TapSound(o)'
  <2>1. Inserted(o) => attempts'[start[o].id].status = attempts[start[o].id].status
    BY <1>2 DEF TapSound
  <2>2. Writing(o) => Of(start[o].test)' = {}
    <3>1. PICK u : u = start[o].test
      OBVIOUS
    <3> QED
      BY <1>2, <1>3, <3>1 DEF TapSound
  <2>3. at[o] = "commit" => start[o].id \in jobs'
    BY <1>2 DEF TapSound, Inserted
  <2> QED
    BY <1>1, <1>2, <2>1, <2>2, <2>3, TapSoundKept
<1>6. Apart'
  BY DEF StartInv, Apart, Writing
<1>7. RowsOut'
  BY <1>1, <1>2 DEF StartInv, RowsOut, Out
<1>8. Uncrossed'
  <2>1. ASSUME NEW o \in InFlight', ~crossed, start'[o].test # None
        PROVE  /\ start'[o].test \in Active'
               /\ Existing(o)' \/ Open' \subseteq Of(start[o].test)'
    <3>1. o \in InFlight /\ (Existing(o)' <=> Existing(o))
      BY <2>1 DEF InFlight, Existing
    <3>2. PICK u : u = start[o].test
      OBVIOUS
    <3>3. u \in Active /\ (Existing(o) \/ Open \subseteq Of(u))
      BY <2>1, <3>1, <3>2 DEF StartInv, Uncrossed
    <3> QED
      BY <1>1, <1>3, <3>1, <3>2, <3>3
  <2> QED
    BY <2>1 DEF StartInv, Uncrossed
<1>9. Clocked'
  <2>1. ASSUME NEW b \in jobs' \ Open'
        PROVE  \/ attempts'[b].status = "burnt" /\ faults' > 0
               \/ \E o \in Tap : Inserted(o)' /\ start'[o].id = b
    <3>1. b \in jobs \ Open /\ b \in Attempt \ {a}
      BY <2>1 DEF StartInv, StartTyped
    <3> QED
      BY <1>1, <3>1 DEF StartInv, Clocked, Inserted
  <2> QED
    BY <2>1 DEF StartInv, Clocked
<1> QED
  BY <1>1, <1>4, <1>5, <1>6, <1>7, <1>8, <1>9 DEF StartInv

LEMMA FinishKeeps ==
    ASSUME StartInv, NEW a \in Attempt, FinishAny(a) \/ FireForNothing(a), UNCHANGED vars
    PROVE  StartInv'
<1>1. attempts \in [Attempt -> [test : Test \cup {None}, status : RowStatus]]
  BY DEF StartInv, StartTyped
<1>2. CASE FinishAny(a)
  <2>1. /\ a \in Open /\ attempts' = [attempts EXCEPT ![a].status = "finished"]
        /\ jobs' = jobs \ {a} /\ UNCHANGED <<at, start, crossed>>
    BY <1>2 DEF FinishAny
  <2>2. /\ attempts' \in [Attempt -> [test : Test \cup {None}, status : RowStatus]]
        /\ attempts'[a].status = "finished" /\ attempts'[a].test = attempts[a].test
        /\ \A b \in Attempt \ {a} : attempts'[b] = attempts[b]
    <3>1. PICK r : r = [attempts[a] EXCEPT !.status = "finished"]
      OBVIOUS
    <3>2. /\ r \in [test : Test \cup {None}, status : RowStatus]
          /\ r.status = "finished" /\ r.test = attempts[a].test
      BY <1>1, <3>1 DEF RowStatus
    <3>3. attempts' = [attempts EXCEPT ![a] = r]
      BY <2>1, <3>1
    <3> QED
      BY <1>1, <3>2, <3>3
  <2>3. /\ Started' = Started /\ Open' = Open \ {a} /\ attempts[a].status # "absent"
        /\ \A b \in Attempt : attempts'[b].test = attempts[b].test
    BY <2>1, <2>2 DEF Started, Open
  <2> QED
    BY <2>1, <2>2, <2>3, JobsGone
<1>3. CASE FireForNothing(a)
  <2>1. /\ attempts[a].status = "burnt" /\ jobs' = jobs \ {a}
        /\ UNCHANGED <<attempts, at, start, crossed>>
    BY <1>3 DEF FireForNothing
  <2>2. Started' = Started /\ Open' = Open \ {a}
    BY <2>1 DEF Started, Open
  <2> QED
    BY <1>1, <2>1, <2>2, JobsGone
<1> QED
  BY <1>2, <1>3

\* The starts keep still while the tests move, or nothing does.
LEMMA TestsMove ==
    ASSUME StartInv, IInv', Kept, UNCHANGED <<attempts, jobs, at, start>>,
           crossed' = (crossed \/ (Active' # Active /\ InFlight # {}))
    PROVE  StartInv'
<1>1. /\ UNCHANGED <<attempts, jobs, at, start>>
      /\ crossed' = (crossed \/ (Active' # Active /\ InFlight # {}))
  OBVIOUS
<1>2. IInv' /\ Kept
  OBVIOUS
<1>3. /\ Started' = Started /\ Open' = Open /\ InFlight' = InFlight
      /\ \A u : Of(u)' = Of(u)
  BY <1>1 DEF Started, Open, InFlight, Of
<1>4. \A o \in Tap : TapSound(o) /\ start[o] \in StartRow
  BY TapTypes
<1>5. StartTyped'
  <2>1. crossed' \in BOOLEAN
    BY <1>1
  <2> QED
    BY <1>1, <2>1 DEF StartInv, StartTyped
<1>6. ASSUME NEW o \in Tap PROVE TapSound(o)'
  <2>1. Writing(o) => Of(start[o].test)' = {}
    <3>1. PICK u : u = start[o].test
      OBVIOUS
    <3> QED
      BY <1>1, <1>3, <1>4, <3>1 DEF TapSound
  <2>2. at[o] = "commit" => start[o].id \in jobs'
    BY <1>1, <1>4 DEF TapSound
  <2> QED
    BY <1>1, <1>2, <1>4, <2>1, <2>2, TapSoundKept
<1>7. Apart'
  BY <1>1 DEF StartInv, Apart, Writing
<1>8. RowsOut'
  <2>1. ASSUME NEW a \in Started PROVE attempts'[a].test \in Test /\ Out(attempts[a].test)'
    <3>1. PICK u \in Test : u = attempts[a].test /\ Out(u)
      BY DEF StartInv, RowsOut
    <3> QED
      BY <1>1, <1>2, <3>1 DEF Kept
  <2> QED
    BY <1>1, <1>3, <2>1 DEF StartInv, RowsOut
<1>9. Uncrossed'
  <2>1. CASE crossed'
    BY <2>1 DEF Uncrossed
  <2>2. CASE ~crossed'
    <3>1. ~crossed /\ (Active' = Active \/ InFlight = {})
      BY <1>1, <2>2
    <3>2. ASSUME NEW o \in InFlight', start'[o].test # None
          PROVE  /\ start'[o].test \in Active'
                 /\ Existing(o)' \/ Open' \subseteq Of(start[o].test)'
      <4>1. o \in InFlight /\ Active' = Active /\ (Existing(o)' <=> Existing(o))
        BY <1>1, <1>3, <3>1, <3>2 DEF Existing
      <4>2. PICK u : u = start[o].test
        OBVIOUS
      <4>3. u \in Active /\ (Existing(o) \/ Open \subseteq Of(u))
        BY <1>1, <3>1, <3>2, <4>1, <4>2 DEF StartInv, Uncrossed
      <4> QED
        BY <1>1, <1>3, <4>1, <4>2, <4>3
    <3> QED
      BY <1>3, <3>1, <3>2 DEF StartInv, Uncrossed
  <2> QED
    BY <2>1, <2>2
<1>10. Clocked'
  BY <1>1, <1>2, <1>3 DEF StartInv, Clocked, Inserted, Kept
<1> QED
  BY <1>2, <1>5, <1>6, <1>7, <1>8, <1>9, <1>10 DEF StartInv

LEMMA NextStartInv == ASSUME StartInv, [NextStart]_startVars PROVE StartInv'
<1>1. CASE Publishing
  BY <1>1, NextKept, TestsMove DEF StartInv, Publishing
<1>2. ASSUME NEW k \in Tap, Start(k) PROVE StartInv'
  <2>1. CASE UNCHANGED vars /\ (TapStart(k) \/ Refused(k) \/ Create(k) \/ RollbackStart(k))
    BY <2>1, TapStartKeeps, GoingOnKeeps, CreateKeeps, RollbackStartKeeps
  <2>2. CASE /\ ScheduleJobs(k) \/ ScheduleFails(k) \/ CommitStart(k) \/ CommitFails(k)
             /\ UNCHANGED <<db, chat, pc, tx, door, raced, stranded, ops>>
    BY <2>2, GoingOnKeeps, CommitStartKeeps
  <2> QED
    BY <1>2, <2>1, <2>2 DEF Start
<1>3. ASSUME NEW a \in Attempt, FinishAny(a) \/ FireForNothing(a), UNCHANGED vars
      PROVE  StartInv'
  BY <1>3, FinishKeeps
<1>4. CASE UNCHANGED startVars
  <2>1. UNCHANGED vars /\ UNCHANGED <<attempts, jobs, at, start, crossed>>
    BY <1>4 DEF startVars, taking
  <2>2. Quiet
    BY <2>1, BoundsAssumption DEF Quiet, vars, history, StartInv, IInv, Typed
  <2>3. crossed \in BOOLEAN
    BY DEF StartInv, StartTyped
  <2> QED
    BY <2>1, <2>2, <2>3, QuietStep, TestsMove DEF StartInv
<1> QED
  BY <1>1, <1>2, <1>3, <1>4 DEF NextStart

\* The inductive invariant holds: what each start has read and inserted fits the
\* rows, the tests and the jobs at every step of the taps and the publishers.
THEOREM StartInvariance == SpecStart => []StartInv
BY StartInit, NextStartInv, PTL DEF SpecStart

LEMMA AtMostOne == ASSUME NEW S, \A a, b \in S : a = b PROVE Cardinality(S) <= 1
<1>1. CASE S = {}
  BY <1>1, FS_EmptySet
<1>2. ASSUME NEW a \in S PROVE Cardinality(S) <= 1
  <2>1. S = {a}
    BY <1>2
  <2> QED
    BY <2>1, FS_Singleton
<1> QED
  BY <1>1, <1>2

\* OneOpenAttempt: however many taps start at once, the student has one attempt
\* at a test, at a test that was published; and one open attempt over all tests
\* unless a publish was committed while a start was under way.
THEOREM OneAttemptEach == SpecStart => []OneOpenAttempt
<1>1. ASSUME StartInv PROVE OneOpenAttempt
  <2>1. ASSUME NEW t \in Test PROVE Cardinality(Of(t)) <= 1
    <3>1. PICK S : S = Of(t)
      OBVIOUS
    <3>2. \A a, b \in S : a = b
      BY <1>1, <3>1 DEF StartInv, RowsOut, Of
    <3> QED
      BY <3>1, <3>2, AtMostOne
  <2>2. \A a \in Started : status[attempts[a].test] \in {"active", "archived"}
    BY <1>1 DEF StartInv, RowsOut, Out
  <2>3. Cardinality(Open) <= 1 \/ crossed
    <3>1. PICK S : S = Open
      OBVIOUS
    <3>2. crossed \/ \A a, b \in S : a = b
      BY <1>1, <3>1 DEF StartInv, Uncrossed
    <3> QED
      BY <3>1, <3>2, AtMostOne
  <2> QED
    BY <2>1, <2>2, <2>3 DEF OneOpenAttempt
<1> QED
  BY <1>1, StartInvariance, PTL

\* JobsMatchAttempts: an open attempt has its jobs, whatever failed on the way,
\* and jobs without an attempt are those of a start that goes on or was undone.
THEOREM ClocksMatch == SpecStart => []JobsMatchAttempts
<1>1. ASSUME StartInv PROVE JobsMatchAttempts
  <2>1. \A k \in Tap : Inserted(k) => k \in InFlight \cup {o \in Tap : at[o] = "rollback"}
    BY DEF Inserted, InFlight
  <2> QED
    BY <1>1, <2>1 DEF StartInv, Clocked, JobsMatchAttempts
<1> QED
  BY <1>1, StartInvariance, PTL

\* A step that is quiet for the tests has nothing to do with their rows.
LEMMA TestsStep ==
    ASSUME StartInv, [NextStart]_startVars
    PROVE  FrozenStep /\ ForwardStep
<1>1. IInv
  BY DEF StartInv
<1>2. CASE Publishing
  BY <1>1, <1>2, QuestionsStep, StatusStep DEF Publishing
<1>3. CASE UNCHANGED db
  BY <1>3 DEF db, Active, FrozenStep, ForwardStep
<1>4. CASE ~Publishing
  BY <1>3, <1>4 DEF NextStart, Start, vars, startVars
<1> QED
  BY <1>2, <1>4

\* What TestPublishing promises of the tests it goes on promising while students
\* start attempts at them: one active test, whole and announced once, with its
\* questions frozen, that only goes forward and is replaced by another.  The
\* locks and failed commits of the starts take nothing of it away.
THEOREM PublishingGoesOn ==
    SpecStart => /\ [](PublishInv /\ PublishedIsWhole /\ AnnouncedOnce)
                 /\ QuestionsFrozen /\ ActiveTestStays
<1>1. StartInv => PublishInv /\ PublishedIsWhole /\ AnnouncedOnce
  BY PublishHolds, WholeHolds, ToldHolds DEF StartInv
<1>2. SpecStart => [](PublishInv /\ PublishedIsWhole /\ AnnouncedOnce)
  BY <1>1, StartInvariance, PTL
<1>3. SpecStart => [][FrozenStep]_vars /\ [][ForwardStep]_vars
  BY TestsStep, StartInvariance, PTL DEF SpecStart
<1> QED
  BY <1>2, <1>3 DEF QuestionsFrozen, ActiveTestStays, FrozenStep, ForwardStep
=============================================================================
