------------------------------ MODULE MCAttempt ------------------------------
(***************************************************************************)
(* AttemptLifecycle on a small instance: two questions, one warning due    *)
(* one instant before the end of the attempt, no grace time: a job fires   *)
(* at its instant or not at all.  The clock runs one instant past          *)
(* the end, so that every job misfires in some behaviour and the sweep,    *)
(* which wants `expires_at < now', runs.                                   *)
(***************************************************************************)
EXTENDS AttemptLifecycle, TLC

MCSlotAt == [s \in Slot |-> 1]

\* Handler activations differ only in what they are asked.
Symmetry == Permutations(Update)
=============================================================================
