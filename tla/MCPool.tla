-------------------------------- MODULE MCPool --------------------------------
(* Instances of Pool for TLC. *)
EXTENDS Pool, TLC

\* Outside of any pool, on a thread of another pool, on the first thread of this one.
Everywhere == {Main, Other, 0}
=============================================================================
