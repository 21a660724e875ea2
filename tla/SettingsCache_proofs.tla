------------------------ MODULE SettingsCache_proofs ------------------------
(***************************************************************************)
(* Theorems about SettingsCache, for any keys and values, any number of    *)
(* handlers and /set commands at once, and any bounds.                     *)
(***************************************************************************)
EXTENDS SettingsCache, TLAPS

Rows == [Setting -> Value]

ReaderRow ==
    [pc : {"idle", "open", "fill"}, key : Setting \cup {None},
     snap : Rows \cup {None}, old : SUBSET Setting]

WriterRow ==
    [pc : {"idle", "upsert", "delete", "commit"},
     key : Setting \cup {None}, value : Value \cup {None}]

\* What TypeOK leaves out: the records of the handlers and of the commands,
\* and what is set in them while they run.
Typed ==
    /\ TypeOK
    /\ reader \in [Reader -> ReaderRow]
    /\ writer \in [Writer -> WriterRow]
    /\ \A r \in Reader : reader[r].pc # "idle" => reader[r].snap \in Rows
    /\ \A r \in Reader : reader[r].pc = "fill" => reader[r].key \in Setting
    /\ \A w \in Writer : writer[w].pc # "idle" =>
            writer[w].key \in Setting /\ writer[w].value \in Value

\* A snapshot was committed, as the table is, and it is behind the table at
\* most at the keys committed since.
SnapshotsAreOld ==
    /\ \A k \in Setting : rows[k] \in past[k]
    /\ \A r \in Reader : reader[r].pc # "idle" =>
          \A k \in Setting : /\ reader[r].snap[k] \in past[k]
                             /\ k \notin reader[r].old => reader[r].snap[k] = rows[k]

\* From the deletion to the commit, only a read that crosses the command can
\* bring the entry back.
DeletedStaysOut ==
    \A w \in Writer : writer[w].pc = "commit" =>
        \/ cache[writer[w].key] = NoEntry
        \/ writer[w].key \in crossed

\* The inductive invariant.
IInv ==
    /\ Typed /\ SnapshotsAreOld /\ DeletedStaysOut
    /\ CachedWasCommitted /\ EditSeenAtOnce

-----------------------------------------------------------------------------
LEMMA InitIInv == Init => IInv
<1> SUFFICES ASSUME Init PROVE IInv
  OBVIOUS
<1> USE ValuesAssumption DEF Init, NoEntry, NoRead, NoWrite
<1>1. TypeOK
  BY DEF TypeOK
<1>2. Typed
  BY <1>1 DEF Typed, ReaderRow, WriterRow, Rows
<1>3. SnapshotsAreOld /\ DeletedStaysOut /\ CachedWasCommitted /\ EditSeenAtOnce
  BY DEF SnapshotsAreOld, DeletedStaysOut, CachedWasCommitted, EditSeenAtOnce
<1> QED
  BY <1>2, <1>3 DEF IInv

\* Of the handlers, only r changes: where it is, and its key.
ReaderMoves(r, pc, k) ==
    /\ reader' \in [Reader -> ReaderRow]
    /\ reader'[r].pc = pc /\ reader'[r].key = k
    /\ \A q \in Reader : /\ reader'[q].snap = reader[q].snap
                         /\ reader'[q].old = reader[q].old
                         /\ q # r => reader'[q] = reader[q]

LEMMA ReaderAt ==
    ASSUME Typed, NEW r \in Reader, NEW pc \in {"idle", "open", "fill"},
           NEW k \in Setting \cup {None},
           reader' = [reader EXCEPT ![r].pc = pc, ![r].key = k]
    PROVE  ReaderMoves(r, pc, k)
<1>1. reader \in [Reader -> ReaderRow] /\ reader[r] \in ReaderRow
  BY DEF Typed
<1>2. reader' = [reader EXCEPT ![r] = [reader[r] EXCEPT !.pc = pc, !.key = k]]
  BY <1>1
<1>3. [reader[r] EXCEPT !.pc = pc, !.key = k] \in ReaderRow
  BY <1>1 DEF ReaderRow
<1> QED
  BY <1>1, <1>2, <1>3 DEF ReaderRow, ReaderMoves

LEMMA BeginKeeps == ASSUME IInv, NEW r \in Reader, Begin(r) PROVE IInv'
<1> USE DEF IInv, Begin, history, NoRead, NoEntry
<1>0. rows \in Rows
  BY DEF Typed, TypeOK, Rows
<1>1. Typed'
  BY <1>0 DEF Typed, TypeOK, ReaderRow, WriterRow
<1>2. SnapshotsAreOld'
  BY DEF SnapshotsAreOld, Typed
<1>3. DeletedStaysOut' /\ CachedWasCommitted' /\ EditSeenAtOnce'
  BY DEF DeletedStaysOut, CachedWasCommitted, EditSeenAtOnce
<1> QED
  BY <1>1, <1>2, <1>3

LEMMA GetKeeps == ASSUME IInv, NEW r \in Reader, Get(r) PROVE IInv'
<1> USE DEF IInv, NoEntry
<1>1. PICK k \in Setting :
        \/ reader' = reader
        \/ reader' = [reader EXCEPT ![r].pc = "fill", ![r].key = k]
  BY DEF Get, Typed
<1> USE DEF Get, history
<1>2. Typed' /\ SnapshotsAreOld'
  <2>1. CASE reader' = reader
    BY <2>1 DEF Typed, TypeOK, SnapshotsAreOld
  <2>2. CASE reader' = [reader EXCEPT ![r].pc = "fill", ![r].key = k]
    <3>1. ReaderMoves(r, "fill", k)
      BY <2>2, ReaderAt
    <3>2. Typed'
      BY <3>1 DEF ReaderMoves, Typed, TypeOK
    <3>3. SnapshotsAreOld'
      BY <3>1 DEF ReaderMoves, Typed, SnapshotsAreOld
    <3> QED
      BY <3>2, <3>3
  <2> QED
    BY <1>1, <2>1, <2>2
<1>3. DeletedStaysOut' /\ CachedWasCommitted' /\ EditSeenAtOnce'
  BY DEF DeletedStaysOut, CachedWasCommitted, EditSeenAtOnce
<1> QED
  BY <1>2, <1>3

LEMMA EndKeeps == ASSUME IInv, NEW r \in Reader, End(r) PROVE IInv'
<1> USE DEF IInv, End, history, NoEntry, NoRead
<1>1. Typed'
  BY DEF Typed, TypeOK, ReaderRow, WriterRow
<1>2. SnapshotsAreOld'
  BY DEF SnapshotsAreOld, Typed
<1>3. DeletedStaysOut' /\ CachedWasCommitted' /\ EditSeenAtOnce'
  BY DEF DeletedStaysOut, CachedWasCommitted, EditSeenAtOnce
<1> QED
  BY <1>1, <1>2, <1>3

LEMMA FillKeeps == ASSUME IInv, NEW r \in Reader, Fill(r) PROVE IInv'
<1> DEFINE k == reader[r].key
<1> USE DEF IInv, NoEntry
<1>1. k \in Setting /\ reader[r].snap \in Rows /\ reader[r].snap[k] \in Value
  BY DEF Typed, Fill, Rows
<1>2. /\ cache' = [cache EXCEPT ![k] = Entry(reader[r].snap[k])]
      /\ UNCHANGED <<rows, writer, past, writes, faults>>
      /\ crossed' \in {crossed \cup {k}, crossed \ {k}}
      /\ k \notin crossed' => ~Writing(k) /\ k \notin reader[r].old
      /\ reader' = [reader EXCEPT ![r].pc = "open", ![r].key = None]
  BY DEF Fill
<1> HIDE DEF k
<1> ReaderMoves(r, "open", None)
  BY <1>2, ReaderAt
<1>3. Typed'
  BY <1>1, <1>2 DEF ReaderMoves, Typed, TypeOK, Entry
<1>4. SnapshotsAreOld'
  BY <1>2 DEF ReaderMoves, SnapshotsAreOld, Typed, Fill
<1>5. \A s \in Setting : s # k => /\ cache'[s] = cache[s]
                                  /\ s \in crossed' <=> s \in crossed
  BY <1>1, <1>2 DEF Typed, TypeOK
<1>6. cache'[k] = Entry(reader[r].snap[k])
  BY <1>1, <1>2 DEF Typed, TypeOK
<1>7. DeletedStaysOut'
  <2> SUFFICES ASSUME NEW w \in Writer, writer[w].pc = "commit"
               PROVE  \/ cache'[writer[w].key] = NoEntry
                      \/ writer[w].key \in crossed'
    BY <1>2 DEF DeletedStaysOut
  <2>1. writer[w].key \in Setting
    BY DEF Typed
  <2>2. CASE writer[w].key = k
    BY <2>2, <1>2 DEF Writing
  <2>3. CASE writer[w].key # k
    BY <2>1, <2>3, <1>5 DEF DeletedStaysOut
  <2> QED
    BY <2>2, <2>3
<1>8. reader[r].pc # "idle"
  BY DEF Fill
<1>9. CachedWasCommitted'
  BY <1>1, <1>2, <1>5, <1>6, <1>8 DEF CachedWasCommitted, SnapshotsAreOld, Entry
<1>10. EditSeenAtOnce'
  <2>1. k \notin crossed' => cache'[k].value = rows[k]
    BY <1>1, <1>2, <1>6, <1>8 DEF SnapshotsAreOld, Entry
  <2> QED
    BY <2>1, <1>2, <1>5 DEF EditSeenAtOnce
<1> QED
  BY <1>3, <1>4, <1>7, <1>9, <1>10

LEMMA ExpireKeeps == ASSUME IInv, NEW k \in Setting, Expire(k) PROVE IInv'
<1> USE DEF IInv, Expire, NoEntry
<1>1. Typed'
  BY DEF Typed, TypeOK
<1>2. SnapshotsAreOld'
  BY DEF SnapshotsAreOld
<1>3. DeletedStaysOut' /\ CachedWasCommitted' /\ EditSeenAtOnce'
  BY DEF DeletedStaysOut, CachedWasCommitted, EditSeenAtOnce, Typed, TypeOK
<1> QED
  BY <1>1, <1>2, <1>3

LEMMA SetCommandKeeps == ASSUME IInv, NEW w \in Writer, SetCommand(w) PROVE IInv'
<1> USE DEF IInv, NoEntry
<1>1. PICK k \in Setting, v \in Value :
        writer' = [writer EXCEPT ![w] = [pc |-> "upsert", key |-> k, value |-> v]]
  BY DEF SetCommand
<1> USE DEF SetCommand, history
<1>2. Typed'
  BY <1>1, ValuesAssumption DEF Typed, TypeOK, WriterRow
<1>3. SnapshotsAreOld'
  BY DEF SnapshotsAreOld
<1>4. DeletedStaysOut' /\ CachedWasCommitted' /\ EditSeenAtOnce'
  BY <1>1 DEF DeletedStaysOut, CachedWasCommitted, EditSeenAtOnce, Typed
<1> QED
  BY <1>2, <1>3, <1>4

LEMMA UpsertKeeps == ASSUME IInv, NEW w \in Writer, Upsert(w) PROVE IInv'
<1> USE DEF IInv, Upsert, WriterAt, history, NoEntry
<1>1. Typed'
  BY DEF Typed, TypeOK, WriterRow
<1>2. SnapshotsAreOld'
  BY DEF SnapshotsAreOld
<1>3. DeletedStaysOut' /\ CachedWasCommitted' /\ EditSeenAtOnce'
  BY DEF DeletedStaysOut, CachedWasCommitted, EditSeenAtOnce, Typed, WriterRow, Locked
<1> QED
  BY <1>1, <1>2, <1>3

LEMMA InvalidateKeeps == ASSUME IInv, NEW w \in Writer, Invalidate(w) PROVE IInv'
<1> USE DEF IInv, Invalidate, WriterAt, NoEntry
<1>1. Typed'
  BY DEF Typed, TypeOK, WriterRow
<1>2. SnapshotsAreOld'
  BY DEF SnapshotsAreOld
<1>3. DeletedStaysOut'
  BY DEF DeletedStaysOut, Typed, TypeOK, WriterRow
<1>4. CachedWasCommitted'
  BY DEF CachedWasCommitted, Typed, TypeOK, WriterRow
<1>5. EditSeenAtOnce'
  BY DEF EditSeenAtOnce, Typed, TypeOK
<1> QED
  BY <1>1, <1>2, <1>3, <1>4, <1>5

LEMMA CommitKeeps == ASSUME IInv, NEW w \in Writer, Commit(w) PROVE IInv'
<1> DEFINE k == writer[w].key
           v == writer[w].value
<1> USE DEF IInv, NoEntry
<1>1. k \in Setting /\ v \in Value
  BY DEF Typed, Commit
<1>2. /\ writer[w].pc = "commit"
      /\ rows' = [rows EXCEPT ![k] = v]
      /\ past' = [past EXCEPT ![k] = @ \cup {v}]
      /\ writer' = [writer EXCEPT ![w] = NoWrite]
      /\ UNCHANGED <<cache, crossed, writes, faults>>
  BY DEF Commit
<1>3. reader' \in [Reader -> ReaderRow]
  BY <1>1 DEF Commit, Typed, ReaderRow, NoRead
<1>4. \A r \in Reader :
        /\ reader'[r].pc = reader[r].pc
        /\ reader[r].pc # "idle" => /\ reader'[r].snap = reader[r].snap
                                    /\ reader'[r].key = reader[r].key
                                    /\ reader'[r].old = reader[r].old \cup {k}
  BY DEF Commit, Typed, ReaderRow, NoRead
<1> HIDE DEF k, v
<1>5. Typed'
  BY <1>1, <1>2, <1>3, <1>4 DEF Typed, TypeOK, WriterRow, NoWrite, ReaderRow
<1>6. SnapshotsAreOld'
  <2>1. /\ rows'[k] = v /\ past'[k] = past[k] \cup {v}
        /\ \A s \in Setting : s # k => rows'[s] = rows[s] /\ past'[s] = past[s]
    BY <1>1, <1>2 DEF Typed, TypeOK
  <2>2. \A s \in Setting : rows'[s] \in past'[s]
    BY <2>1 DEF SnapshotsAreOld
  <2>3. ASSUME NEW r \in Reader, reader'[r].pc # "idle", NEW s \in Setting
        PROVE  /\ reader'[r].snap[s] \in past'[s]
               /\ s \notin reader'[r].old => reader'[r].snap[s] = rows'[s]
    BY <2>1, <2>3, <1>4 DEF SnapshotsAreOld
  <2> QED
    BY <2>2, <2>3 DEF SnapshotsAreOld
<1>7. DeletedStaysOut'
  BY <1>1, <1>2 DEF DeletedStaysOut, Typed, NoWrite
<1>8. CachedWasCommitted'
  BY <1>1, <1>2 DEF CachedWasCommitted, Typed, TypeOK, NoWrite
<1>9. EditSeenAtOnce'
  BY <1>1, <1>2 DEF EditSeenAtOnce, DeletedStaysOut, Typed, TypeOK, k
<1> QED
  BY <1>5, <1>6, <1>7, <1>8, <1>9

LEMMA SetFailsKeeps == ASSUME IInv, NEW w \in Writer, SetFails(w) PROVE IInv'
<1> USE DEF IInv, SetFails, Fault, NoEntry, NoWrite
<1>1. Typed'
  BY ValuesAssumption DEF Typed, TypeOK, WriterRow
<1>2. SnapshotsAreOld'
  BY DEF SnapshotsAreOld
<1>3. DeletedStaysOut' /\ CachedWasCommitted' /\ EditSeenAtOnce'
  BY DEF DeletedStaysOut, CachedWasCommitted, EditSeenAtOnce, Typed
<1> QED
  BY <1>1, <1>2, <1>3

LEMMA CrashKeeps == ASSUME IInv, Crash PROVE IInv'
<1> USE DEF IInv, Crash, Fault, NoEntry, NoWrite, NoRead
<1>1. Typed'
  BY ValuesAssumption DEF Typed, TypeOK, WriterRow, ReaderRow
<1>2. SnapshotsAreOld'
  BY DEF SnapshotsAreOld
<1>3. DeletedStaysOut' /\ CachedWasCommitted' /\ EditSeenAtOnce'
  BY DEF DeletedStaysOut, CachedWasCommitted, EditSeenAtOnce, Typed
<1> QED
  BY <1>1, <1>2, <1>3

LEMMA NextIInv == IInv /\ [Next]_vars => IInv'
<1> SUFFICES ASSUME IInv, [Next]_vars PROVE IInv'
  OBVIOUS
<1>1. ASSUME NEW r \in Reader, Begin(r) \/ Get(r) \/ Fill(r) \/ End(r)
      PROVE  IInv'
  BY <1>1, BeginKeeps, GetKeeps, FillKeeps, EndKeeps
<1>2. ASSUME NEW w \in Writer, SetCommand(w) \/ SetSetting(w) \/ SetFails(w)
      PROVE  IInv'
  BY <1>2, SetCommandKeeps, UpsertKeeps, InvalidateKeeps, CommitKeeps, SetFailsKeeps
     DEF SetSetting
<1>3. ASSUME NEW k \in Setting, Expire(k) PROVE IInv'
  BY <1>3, ExpireKeeps
<1>4. CASE UNCHANGED vars
  BY <1>4 DEF vars, history, IInv, Typed, TypeOK, SnapshotsAreOld, DeletedStaysOut,
              CachedWasCommitted, EditSeenAtOnce, NoEntry
<1> QED
  BY <1>1, <1>2, <1>3, <1>4, CrashKeeps DEF Next

\* In every reachable state the variables have their types, the cache holds a
\* value the row has had or nothing, no two /set commands hold one row, and an
\* entry that is not the row was filled by a read that crossed a command on
\* its key (SettingsService.get and set).
THEOREM SettingsInvariant == Spec => []SettingsInv
<1>1. IInv => SettingsInv
  BY DEF IInv, Typed, SettingsInv
<1> QED
  BY <1>1, InitIInv, NextIInv, PTL DEF Spec
=============================================================================
