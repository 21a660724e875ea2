------------------------------- MODULE MCPanel -------------------------------
(* Instances of PanelAccess for TLC: one code still to be issued, to a      *)
(* browser that is logged out, with one fault to come; or a code to be      *)
(* redeemed by a browser that is logged in, with none.                      *)
EXTENDS PanelAccess

LoggedOut ==
    /\ issued = 1 /\ codes = [c \in Code |-> NoCode]
    /\ cookie = 0 /\ sessions[1] = NoSession /\ faults = 0
LoggedIn ==
    /\ issued = 2 /\ codes # [c \in Code |-> NoCode]
    /\ cookie = 1 /\ sessions[2] = NoSession /\ faults = MaxFaults

MCInit == Init /\ (LoggedOut \/ LoggedIn)
MCSpec == MCInit /\ [][Next]_vars /\ Fairness
=============================================================================
