----------------------------- MODULE MCClearExpired -----------------------------
(* ClearExpired for TLC; its constants are in the configurations. *)
EXTENDS ClearExpired
=============================================================================
