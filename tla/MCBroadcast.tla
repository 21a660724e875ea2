----------------------------- MODULE MCBroadcast -----------------------------
(* Instances of BroadcastRunner for TLC, from three kinds of initial states: *)
(* one announcement while students come and go, a double tap that makes two  *)
(* announcements to students who stay, and taps that wait until another      *)
(* message is composed.                                                      *)
EXTENDS BroadcastRunner

OneRow  == row[1].status = "completed" /\ row[2].status = "absent"
           /\ changes = 0 /\ approved = User /\ blocking = {2}
           /\ composed = MaxMessages - 1 /\ faults = 0
TwoRows == row[1].status = "absent" /\ composed = MaxMessages - 1 /\ faults = 0
           /\ changes = MaxChanges /\ approved = {1, 2} /\ blocking \in {{}, {1, 2}}
LateTaps == row[1].status = "absent" /\ composed = 0 /\ faults = MaxFaults
            /\ changes = MaxChanges /\ approved = {1} /\ blocking = {}

MCInit == Init /\ (OneRow \/ TwoRows \/ LateTaps)
MCSpec == MCInit /\ [][Next]_vars /\ Fairness
=============================================================================
