----------------------------- MODULE AttemptStart -----------------------------
(***************************************************************************)
(* A student starts an attempt while admins publish: every tap on the      *)
(* start button is a handler in a transaction of its own, which finds the  *)
(* active test and the student's attempts in its snapshot, inserts a row   *)
(* under the unique key (user, test), registers the timer jobs in Redis    *)
(* and commits.  What becomes of the attempt is AttemptLifecycle's matter: *)
(* here it ends at any time.                                               *)
(***************************************************************************)
EXTENDS TestPublishing

CONSTANTS
    Tap,         \* bound: the taps of the student on the start button
    MaxAttempts  \* bound: the ids of attempts used up

ASSUME AttemptsAssumption == MaxAttempts \in Nat

Attempt == 1..MaxAttempts

VARIABLES
    attempts,  \* the committed rows of `attempts': test and status
    jobs,      \* the attempts with timer jobs in the jobstore
    at,        \* where the handler of each tap is
    start,     \* its snapshot and the row it inserted
    crossed    \* history: a publish was committed during a start

taking    == <<attempts, jobs, at, start, crossed>>
startVars == <<vars, taking>>

RowStatus == {"absent", "in_progress", "finished", "burnt"}
NoStart   == [test |-> None, seen |-> {}, id |-> 0]

Open      == {a \in Attempt : attempts[a].status = "in_progress"}
Started   == {a \in Attempt : attempts[a].status \in {"in_progress", "finished"}}
Of(t)     == {a \in Started : attempts[a].test = t}
InFlight  == {k \in Tap : at[k] \in {"start", "jobs", "commit"}}

At(k, label) == at' = [at EXCEPT ![k] = label]

\* The row of the test is locked: by a start that inserted an attempt at it
\* (shared, for its foreign key), by a publisher (exclusive).
SharedBy(t) == {k \in Tap : at[k] \in {"jobs", "commit"} /\ start[k].test = t}
Exclusive(t) == \E w \in Worker : tx[w].put[t] # Keep

\* Variant: the open attempt on another test is not looked for.
OnlyThisTest(k) == \E r \in start[k].seen : r.test = start[k].test

\* The attempts of the snapshot that stop a start: an open one on any test,
\* and one at this test.  An attempt finished since was open in the snapshot.
Existing(k) == \E r \in start[k].seen : r.open \/ r.test = start[k].test

Seen == {[test |-> attempts[a].test, open |-> a \in Open] : a \in Started}

\* The tap: the first read fixes the snapshot.
TapStart(k) ==
    /\ at[k] = "idle"
    /\ start' = [start EXCEPT ![k] = [NoStart EXCEPT
            !.test = IF Active = {} THEN None ELSE CHOOSE t \in Active : TRUE,
            !.seen = Seen]]
    /\ At(k, "start")
    /\ UNCHANGED <<attempts, jobs, crossed>>

\* No test is published, or the student is sent to the attempt that exists.
Refused(k) ==
    /\ at[k] = "start" /\ (start[k].test = None \/ Existing(k))
    /\ At(k, "done")
    /\ UNCHANGED <<attempts, jobs, start, crossed>>

Unused(a) == attempts[a].status = "absent" /\ \A k \in Tap : start[k].id # a
NextAttempt(a) == Unused(a) /\ \A b \in 1..(a - 1) : ~Unused(b)

\* The INSERT waits for an uncommitted row of the same key and for the lock of
\* an archiving publisher; a committed row of the same key is an error.
Create(k) ==
    LET t == start[k].test
    IN  /\ at[k] = "start" /\ t # None /\ ~Existing(k)
        /\ ~Exclusive(t) /\ SharedBy(t) = {}
        /\ \E a \in Attempt :
             /\ NextAttempt(a)
             /\ start' = [start EXCEPT ![k].id = a]
             /\ At(k, IF Of(t) = {} THEN "jobs" ELSE "rollback")
        /\ UNCHANGED <<attempts, jobs, crossed>>

\* add_job writes to Redis at once, before the row is committed.  It may fail
\* after some of the four jobs, or before the first.
ScheduleJobs(k) ==
    /\ at[k] = "jobs"
    /\ jobs' = jobs \cup {start[k].id}
    /\ At(k, "commit")
    /\ UNCHANGED <<attempts, start, crossed, faults>>

\* Variant: a jobstore write that fails is swallowed.
ScheduleFailsQuietly(k) ==
    /\ at[k] = "jobs" /\ faults < MaxFaults
    /\ At(k, "commit")
    /\ faults' = faults + 1
    /\ UNCHANGED <<attempts, jobs, start, crossed>>

ScheduleFails(k) ==
    /\ at[k] = "jobs" /\ faults < MaxFaults
    /\ jobs' \in {jobs, jobs \cup {start[k].id}}
    /\ At(k, "rollback")
    /\ faults' = faults + 1
    /\ UNCHANGED <<attempts, start, crossed>>

CommitStart(k) ==
    /\ at[k] = "commit"
    /\ attempts' = [attempts EXCEPT ![start[k].id] =
            [test |-> start[k].test, status |-> "in_progress"]]
    /\ start' = [start EXCEPT ![k] = NoStart]
    /\ At(k, "done")
    /\ UNCHANGED <<jobs, crossed, faults>>

CommitFails(k) ==
    /\ at[k] = "commit" /\ faults < MaxFaults
    /\ At(k, "rollback")
    /\ faults' = faults + 1
    /\ UNCHANGED <<attempts, jobs, start, crossed>>

\* What was inserted is gone, the jobs are not.
RollbackStart(k) ==
    /\ at[k] = "rollback"
    /\ attempts' = [attempts EXCEPT ![start[k].id].status = "burnt"]
    /\ start' = [start EXCEPT ![k] = NoStart]
    /\ At(k, "done")
    /\ UNCHANGED <<jobs, crossed>>

\* The attempt is finished by anyone, which removes its jobs.
FinishAny(a) ==
    /\ a \in Open
    /\ attempts' = [attempts EXCEPT ![a].status = "finished"]
    /\ jobs' = jobs \ {a}
    /\ UNCHANGED <<at, start, crossed>>

\* The expire job of an attempt that was rolled back finds no row.
FireForNothing(a) ==
    /\ a \in jobs /\ attempts[a].status = "burnt"
    /\ jobs' = jobs \ {a}
    /\ UNCHANGED <<attempts, at, start, crossed>>

\* A step of the admins: it waits for the shared locks of the starts.
Publishing ==
    /\ Next
    /\ \A t \in Test : SharedBy(t) # {} =>
         \A w \in Worker : tx[w].put[t] = Keep => tx'[w].put[t] = Keep
    /\ crossed' = (crossed \/ (Active' # Active /\ InFlight # {}))
    /\ UNCHANGED <<attempts, jobs, at, start>>

InitStart ==
    /\ Init
    /\ attempts = [a \in Attempt |-> [test |-> None, status |-> "absent"]]
    /\ jobs     = {}
    /\ at       = [k \in Tap |-> "idle"]
    /\ start    = [k \in Tap |-> NoStart]
    /\ crossed  = FALSE

Start(k) ==
    \/ (TapStart(k) \/ Refused(k) \/ Create(k) \/ RollbackStart(k)) /\ UNCHANGED vars
    \/ /\ ScheduleJobs(k) \/ ScheduleFails(k) \/ CommitStart(k) \/ CommitFails(k)
       /\ UNCHANGED <<db, chat, pc, tx, door, raced, stranded, ops>>

NextStart ==
    \/ Publishing
    \/ \E k \in Tap : Start(k)
    \/ \E a \in Attempt : (FinishAny(a) \/ FireForNothing(a)) /\ UNCHANGED vars

SpecStart == InitStart /\ [][NextStart]_startVars

-----------------------------------------------------------------------------
(* Properties. *)

\* One attempt per test and student, at a test that was published; and at most
\* one open attempt over all tests, unless a publish was committed while a
\* start was under way: that start reads the archived test as the active one,
\* or a later start does not see its row.
OneOpenAttempt ==
    /\ \A t \in Test : Cardinality(Of(t)) <= 1
    /\ \A a \in Started : status[attempts[a].test] \in {"active", "archived"}
    /\ Cardinality(Open) <= 1 \/ crossed

\* An open attempt has its timer jobs from the moment others see it: whatever
\* fails on the way, there is no exam without a clock; and the jobs left without
\* an attempt are those of a start that rolled back.
JobsMatchAttempts ==
    /\ Open \subseteq jobs
    /\ \A a \in jobs \ Open :
        \/ attempts[a].status = "burnt" /\ faults > 0
        \/ \E k \in InFlight \cup {k \in Tap : at[k] = "rollback"} : start[k].id = a
=============================================================================
