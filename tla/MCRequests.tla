------------------------------ MODULE MCRequests ------------------------------
(* Instances of Requests for TLC. *)
EXTENDS Requests, TLC

\* All requests have a callback, or the last one has none.
SilentOrNot == {{}, {3}}
=============================================================================
