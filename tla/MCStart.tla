------------------------------- MODULE MCStart -------------------------------
(* Instances of AttemptStart for TLC: two drafts and two publishes at most. *)
EXTENDS AttemptStart, TLC

OnePosition == {1}
Copying     == {"leave", "duplicate", "publish_silent", "panel_silent"}
NoForms     == {}
Symmetry    == Permutations(Worker) \cup Permutations(Tap)
=============================================================================
