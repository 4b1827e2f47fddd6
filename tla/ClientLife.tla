------------------------------ MODULE ClientLife ------------------------------
(***************************************************************************)
(* What a client session promises to the application that bound handlers   *)
(* to event::connect and event::disconnect, over any number of reconnects: *)
(* every connection is opened once and closed once, in that order; the     *)
(* manager holds the session exactly while it is connected; a connection   *)
(* attempt that failed is reported by a disconnect call of its own, and    *)
(* never while a connection is open.                                       *)
(***************************************************************************)
EXTENDS Naturals

VARIABLES
  registered,    \* the manager holds the session
  opened,        \* calls of the connect handler
  closed         \* calls of the disconnect handler that ended a connection

lifeVars == <<registered, opened, closed>>

LifeInit == registered = FALSE /\ opened = 0 /\ closed = 0

Open ==
  /\ ~ registered
  /\ opened = closed
  /\ registered' = TRUE
  /\ opened' = opened + 1
  /\ UNCHANGED closed

Close ==
  /\ registered
  /\ opened = closed + 1
  /\ registered' = FALSE
  /\ closed' = closed + 1
  /\ UNCHANGED opened

LifeSpec == LifeInit /\ [][Open \/ Close]_lifeVars
=============================================================================
