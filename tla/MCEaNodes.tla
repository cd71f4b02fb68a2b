----------------------------- MODULE MCEaNodes -----------------------------
(* Small instances of EaNodes for TLC. *)
EXTENDS EaNodes
=============================================================================
