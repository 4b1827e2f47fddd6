----------------------------- MODULE SessionLife -----------------------------
(***************************************************************************)
(* What a server session promises to the application that bound handlers   *)
(* to event::connect and event::disconnect and that iterates over the      *)
(* session manager (server::foreach_session, server::broadcast).           *)
(*                                                                         *)
(*   - the connect handler is called at most once, and never once the      *)
(*     disconnect handler has been called;                                 *)
(*   - the disconnect handler is called at most once, and only when the    *)
(*     manager no longer holds the session;                                *)
(*   - the manager holds a session only between the two, and a session     *)
(*     that left the manager never comes back.                             *)
(*                                                                         *)
(* A session may be closed without ever having been opened: a failed       *)
(* handshake ends in a disconnect call without a connect call.             *)
(***************************************************************************)
EXTENDS Naturals

CONSTANT Session

VARIABLES
  registered,    \* the sessions the manager holds
  connects,      \* calls of the connect handler, per session
  disconnects    \* calls of the disconnect handler, per session

lifeVars == <<registered, connects, disconnects>>

LifeInit ==
  /\ registered = {}
  /\ connects = [s \in Session |-> 0]
  /\ disconnects = [s \in Session |-> 0]

\* The session is published and its connect handler runs.
Open(s) ==
  /\ connects[s] = 0
  /\ disconnects[s] = 0
  /\ registered' = registered \cup {s}
  /\ connects' = [connects EXCEPT ![s] = 1]
  /\ UNCHANGED disconnects

\* The session is withdrawn from the manager.
Withdraw(s) ==
  /\ s \in registered
  /\ registered' = registered \ {s}
  /\ UNCHANGED <<connects, disconnects>>

\* The disconnect handler runs.
Close(s) ==
  /\ s \notin registered
  /\ disconnects[s] = 0
  /\ disconnects' = [disconnects EXCEPT ![s] = 1]
  /\ UNCHANGED <<registered, connects>>

LifeNext == \E s \in Session : Open(s) \/ Withdraw(s) \/ Close(s)

LifeSpec == LifeInit /\ [][LifeNext]_lifeVars
=============================================================================
