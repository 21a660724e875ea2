--------------------------- MODULE AttemptContract ---------------------------
(***************************************************************************)
(* What the bot promises about one attempt, whatever runs concurrently and *)
(* whatever fails: the life of the row and what the student is told about  *)
(* it.  It is open until it is finalized, once, with a score; answers and  *)
(* warning claims land only while it is open; every claimed warning is     *)
(* delivered at most once, and the "time is up" notice at most once and    *)
(* only for an attempt that expired.                                       *)
(***************************************************************************)
EXTENDS Integers

CONSTANTS Slot, N, Null

Position == 1..N

VARIABLES
    status,     \* "in_progress", "submitted" or "expired"
    score,      \* the stored score, Null while the attempt is open
    answers,    \* what is stored for each question
    warned,     \* the warning slots that were claimed
    delivered,  \* the warnings the student received
    noticed     \* whether the student was told that the time is up

vars == <<status, score, answers, warned, delivered, noticed>>

Open == status = "in_progress"

Init ==
    /\ status = "in_progress" /\ score = Null
    /\ answers = [q \in Position |-> "none"]
    /\ warned = {} /\ delivered = {} /\ noticed = FALSE

StoreAnswer ==
    /\ Open
    /\ \E q \in Position, v \in {"right", "wrong"} :
          answers' = [answers EXCEPT ![q] = v]
    /\ UNCHANGED <<status, score, warned, delivered, noticed>>

ClaimWarning ==
    /\ Open
    /\ \E s \in Slot \ warned : warned' = warned \cup {s}
    /\ UNCHANGED <<status, score, answers, delivered, noticed>>

DeliverWarning ==
    /\ \E s \in warned \ delivered : delivered' = delivered \cup {s}
    /\ UNCHANGED <<status, score, answers, warned, noticed>>

Finalize ==
    /\ Open
    /\ status' \in {"submitted", "expired"}
    /\ score' \in 0..N
    /\ UNCHANGED <<answers, warned, delivered, noticed>>

NoticeTimeUp ==
    /\ status = "expired" /\ ~noticed
    /\ noticed' = TRUE
    /\ UNCHANGED <<status, score, answers, warned, delivered>>

Next ==
    \/ StoreAnswer \/ ClaimWarning \/ DeliverWarning
    \/ Finalize \/ NoticeTimeUp

Spec == Init /\ [][Next]_vars
=============================================================================
