----------------------------- MODULE MCPublishing -----------------------------
(* Instances of TestPublishing for TLC. *)
EXTENDS TestPublishing, TLC

OnePosition == {1}
Loud        == (BotOp \cup PanelOp) \ {"publish_silent", "panel_silent"}
Symmetry    == Permutations(Worker)
AllForms    == [Position -> {"empty", "text", "wanted"}]
=============================================================================
