---------------------------- MODULE AccessContract ----------------------------
(***************************************************************************)
(* What the bot promises about the access of one student, whatever runs    *)
(* concurrently and whatever fails: his status and the verdicts on his     *)
(* receipts change together, a receipt is decided once, and access comes   *)
(* only with the approval of a receipt, or with an unban of who had paid.  *)
(* Promised is not that the status moves in order: the bot checks it in a  *)
(* snapshot, so an update of the student may be as late as it likes.       *)
(***************************************************************************)
CONSTANTS Receipt, Start

VARIABLES
    status,  \* of the student
    paid,    \* whether he has ever been approved
    review   \* each receipt: "absent", "pending", "approved" or "rejected"

vars == <<status, paid, review>>

Init ==
    /\ status = Start /\ paid = FALSE
    /\ review = [r \in Receipt |-> "absent"]

Decide(r, from, to) ==
    review[r] = from /\ review' = [review EXCEPT ![r] = to]

\* The student answers the onboarding.
Register ==
    /\ status' \in {"onboarding_phone", "onboarding_name", "pending_payment"}
    /\ UNCHANGED <<paid, review>>

\* He sends a receipt, and is told that it is under review.
SendReceipt ==
    /\ \E r \in Receipt : Decide(r, "absent", "pending")
    /\ status' \in {status, "pending_approval"}
    /\ UNCHANGED paid

\* Approval gives access, but to who is banned.
Approve ==
    /\ \E r \in Receipt : Decide(r, "pending", "approved")
    /\ IF status = "banned" THEN UNCHANGED <<status, paid>>
       ELSE status' = "approved" /\ paid' = TRUE

Reject ==
    /\ \E r \in Receipt : Decide(r, "pending", "rejected")
    /\ status' = IF status = "banned" THEN "banned" ELSE "rejected"
    /\ UNCHANGED paid

Ban == status' = "banned" /\ UNCHANGED <<paid, review>>

Unban == paid /\ status' = "approved" /\ UNCHANGED <<paid, review>>

Next == Register \/ SendReceipt \/ Approve \/ Reject \/ Ban \/ Unban

Spec == Init /\ [][Next]_vars
===============================================================================
