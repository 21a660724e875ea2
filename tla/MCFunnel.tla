------------------------------- MODULE MCFunnel -------------------------------
(***************************************************************************)
(* StudentFunnel with two activations at a time, on small numbers of       *)
(* receipts and reference codes.  The activations are reused, so that      *)
(* behaviours are as long as it takes: only receipts, codes and faults are *)
(* bounded.                                                                *)
(***************************************************************************)
EXTENDS StudentFunnel, TLC

AllKinds == StudentOp \cup AdminOp

\* Nobody is banned.
FunnelKinds == AllKinds \ {"ban", "unban"}

\* Activations differ only in what they handle.
Symmetry == Permutations(Worker)
=============================================================================
