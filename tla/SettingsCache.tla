---------------------------- MODULE SettingsCache ----------------------------
(***************************************************************************)
(* The `settings' table behind its cache in Redis.  A read takes the cache *)
(* entry, or the value of its transaction's snapshot, which it caches for  *)
(* a minute.  A write is an upsert, the deletion of the cache entry, and   *)
(* the commit, in this order and in three steps.                           *)
(***************************************************************************)
EXTENDS Integers

CONSTANTS
    Setting,    \* the keys, all of them seeded
    Value,      \* what an admin may set
    Reader,     \* handlers that read settings, at once
    Writer,     \* /set commands, at once
    MaxWrites,  \* bound: /set commands ever
    MaxFaults,  \* bound: crashes, failed calls and failed commits
    Seed,       \* the value of the migration
    None

ASSUME ValuesAssumption ==
    /\ MaxWrites \in Nat /\ MaxFaults \in Nat
    /\ Seed \in Value /\ None \notin Value

VARIABLES
    rows,     \* `settings', as committed
    cache,    \* settings:{key}: the value, and whether it expires
    reader,   \* what a handler does, and its snapshot
    writer,   \* what a /set command does
    past,     \* history: every value each row has had
    crossed,  \* history: entries filled by a read that crossed a write
    writes,   \* history
    faults    \* history

history == <<past, crossed, writes, faults>>
vars    == <<rows, cache, reader, writer, history>>

NoEntry  == [value |-> None, expires |-> FALSE]
NoRead   == [pc |-> "idle", key |-> None, snap |-> None, old |-> {}]
NoWrite  == [pc |-> "idle", key |-> None, value |-> None]

\* Fail, for a bounded number of times.
Fault == faults < MaxFaults /\ faults' = faults + 1

-----------------------------------------------------------------------------
(* Reading. *)

\* A handler's transaction has its snapshot before the handler reads.
Begin(r) ==
    /\ reader[r].pc = "idle"
    /\ reader' = [reader EXCEPT ![r] = [NoRead EXCEPT !.pc = "open", !.snap = rows]]
    /\ UNCHANGED <<rows, cache, writer, history>>

\* A hit is returned; after a miss the row is read.
Get(r) ==
    /\ reader[r].pc = "open"
    /\ \E k \in Setting :
         reader' = [reader EXCEPT ![r] =
            IF cache[k] # NoEntry THEN @ ELSE [@ EXCEPT !.pc = "fill", !.key = k]]
    /\ UNCHANGED <<rows, cache, writer, history>>

\* Variant: no TTL.
EntryForGood(v) == [value |-> v, expires |-> FALSE]

Entry(v) == [value |-> v, expires |-> TRUE]

Writing(k) == \E w \in Writer : writer[w].pc # "idle" /\ writer[w].key = k

\* The value of the snapshot is cached, over whatever is there by now.
Fill(r) ==
    LET k == reader[r].key
    IN  /\ reader[r].pc = "fill"
        /\ cache' = [cache EXCEPT ![k] = Entry(reader[r].snap[k])]
        /\ crossed' = IF Writing(k) \/ k \in reader[r].old
                      THEN crossed \cup {k} ELSE crossed \ {k}
        /\ reader' = [reader EXCEPT ![r].pc = "open", ![r].key = None]
        /\ UNCHANGED <<rows, writer, past, writes, faults>>

\* The handler returns, or fails.
End(r) ==
    /\ reader[r].pc = "open"
    /\ reader' = [reader EXCEPT ![r] = NoRead]
    /\ UNCHANGED <<rows, cache, writer, history>>

Expire(k) ==
    /\ cache[k].expires
    /\ cache' = [cache EXCEPT ![k] = NoEntry]
    /\ crossed' = crossed \ {k}
    /\ UNCHANGED <<rows, reader, writer, past, writes, faults>>

-----------------------------------------------------------------------------
(* Writing. *)

WriterAt(w, pc) == writer' = [writer EXCEPT ![w].pc = pc]

\* The row lock of the upsert is held to the end of the transaction.
Locked(k) == \E w \in Writer : writer[w].pc \in {"delete", "commit"} /\ writer[w].key = k

\* /set <key> <value>, of a key that is in the list.
SetCommand(w) ==
    /\ writer[w].pc = "idle" /\ writes < MaxWrites
    /\ \E k \in Setting, v \in Value :
         writer' = [writer EXCEPT ![w] = [pc |-> "upsert", key |-> k, value |-> v]]
    /\ writes' = writes + 1
    /\ UNCHANGED <<rows, cache, reader, past, crossed, faults>>

Upsert(w) ==
    /\ writer[w].pc = "upsert" /\ ~Locked(writer[w].key)
    /\ WriterAt(w, "delete")
    /\ UNCHANGED <<rows, cache, reader, history>>

\* Variant: the cache is written through.
WriteThrough(w) ==
    /\ writer[w].pc = "delete"
    /\ cache' = [cache EXCEPT ![writer[w].key] = Entry(writer[w].value)]
    /\ crossed' = crossed \ {writer[w].key}
    /\ WriterAt(w, "commit")
    /\ UNCHANGED <<rows, reader, past, writes, faults>>

Invalidate(w) ==
    /\ writer[w].pc = "delete"
    /\ cache' = [cache EXCEPT ![writer[w].key] = NoEntry]
    /\ crossed' = crossed \ {writer[w].key}
    /\ WriterAt(w, "commit")
    /\ UNCHANGED <<rows, reader, past, writes, faults>>

\* The answer was sent; readers with an older snapshot are behind from now on.
Commit(w) ==
    LET k == writer[w].key
        v == writer[w].value
    IN  /\ writer[w].pc = "commit"
        /\ rows' = [rows EXCEPT ![k] = v]
        /\ past' = [past EXCEPT ![k] = @ \cup {v}]
        /\ reader' = [r \in Reader |->
                IF reader[r].pc = "idle" THEN NoRead
                ELSE [reader[r] EXCEPT !.old = @ \cup {k}]]
        /\ writer' = [writer EXCEPT ![w] = NoWrite]
        /\ UNCHANGED <<cache, crossed, writes, faults>>

SetSetting(w) == Upsert(w) \/ Invalidate(w) \/ Commit(w)

\* Redis, Telegram or the commit fails: the upsert is rolled back.
SetFails(w) ==
    /\ writer[w].pc # "idle" /\ Fault
    /\ writer' = [writer EXCEPT ![w] = NoWrite]
    /\ UNCHANGED <<rows, cache, reader, past, crossed, writes>>

Crash ==
    /\ Fault
    /\ reader' = [r \in Reader |-> NoRead]
    /\ writer' = [w \in Writer |-> NoWrite]
    /\ UNCHANGED <<rows, cache, past, crossed, writes>>

Init ==
    /\ rows    = [k \in Setting |-> Seed]
    /\ cache   = [k \in Setting |-> NoEntry]
    /\ reader  = [r \in Reader |-> NoRead]
    /\ writer  = [w \in Writer |-> NoWrite]
    /\ past    = [k \in Setting |-> {Seed}]
    /\ crossed = {}
    /\ writes  = 0
    /\ faults  = 0

Next ==
    \/ \E r \in Reader : Begin(r) \/ Get(r) \/ Fill(r) \/ End(r)
    \/ \E w \in Writer : SetCommand(w) \/ SetSetting(w) \/ SetFails(w)
    \/ \E k \in Setting : Expire(k)
    \/ Crash

\* Handlers come to an end however many settings they read on the way, commands
\* go on, and Redis expires what has a TTL.
Fairness ==
    /\ \A r \in Reader : WF_vars(Fill(r)) /\ SF_vars(End(r))
    /\ \A w \in Writer : WF_vars(SetSetting(w))
    /\ \A k \in Setting : WF_vars(Expire(k))

Spec == Init /\ [][Next]_vars /\ Fairness

-----------------------------------------------------------------------------
(* Properties. *)

TypeOK ==
    /\ rows \in [Setting -> Value]
    /\ cache \in [Setting -> [value : Value \cup {None}, expires : BOOLEAN]]
    /\ \A r \in Reader : reader[r].pc \in {"idle", "open", "fill"}
                         /\ reader[r].old \subseteq Setting
    /\ \A w \in Writer : writer[w].pc \in {"idle", "upsert", "delete", "commit"}
    /\ past \in [Setting -> SUBSET Value] /\ crossed \subseteq Setting
    /\ writes \in 0..MaxWrites /\ faults \in 0..MaxFaults

\* What the cache holds was committed at some time, whatever was rolled back;
\* no two commands hold one row.
CachedWasCommitted ==
    /\ \A k \in Setting : cache[k].value \in past[k] \cup {None}
    /\ \A w, x \in Writer :
         /\ {writer[w].pc, writer[x].pc} \subseteq {"delete", "commit"}
         /\ writer[w].key = writer[x].key
         => w = x

\* The admin's edit is what the next read returns, unless a read of the same
\* setting crossed the command: one between the deletion and the commit, or one
\* whose snapshot is older than the commit.
EditSeenAtOnce ==
    \A k \in Setting :
        cache[k] = NoEntry \/ cache[k].value = rows[k] \/ k \in crossed

\* All of it.
SettingsInv == TypeOK /\ CachedWasCommitted /\ EditSeenAtOnce

\* When the admins are done, the cache agrees with the table for good, through
\* any crash or failure on the way.
Converges ==
    <>[](\A k \in Setting : cache[k] = NoEntry \/ cache[k].value = rows[k])
=============================================================================
