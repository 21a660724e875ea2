------------------------------ MODULE MCSettings ------------------------------
(* Instances of SettingsCache for TLC. *)
EXTENDS SettingsCache
=============================================================================
