--------------------------------- MODULE MCKcp ---------------------------------
(* Instances of Kcp for TLC. *)
EXTENDS Kcp, TLC
=============================================================================
