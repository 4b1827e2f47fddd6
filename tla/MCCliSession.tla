----------------------------- MODULE MCCliSession -----------------------------
(* Instances of CliSession for TLC. *)
EXTENDS CliSession, TLC
=============================================================================
