------------------------------ MODULE MCEaSync ------------------------------
(* Small instances of EaSync for TLC. *)
EXTENDS EaSync
=============================================================================
