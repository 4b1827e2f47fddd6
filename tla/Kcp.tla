---------------------------------- MODULE Kcp ----------------------------------
(***************************************************************************)
(* A kcp client and the server's session for its endpoint (kcp_stream in   *)
(* bnet/base/stream.hpp, the kcp transfer in bnet/base/transfer.hpp), the  *)
(* udp acceptor that makes and feeds the session (bnet/base/acceptor.hpp), *)
(* and the network between them, which loses, doubles and reorders         *)
(* datagrams.                                                              *)
(*                                                                         *)
(* Every session the server makes for a client that asks for a number gets *)
(* the conv 1, for kcp_convs_ counts within one session: the conv tells    *)
(* neither connections nor sessions apart, and is left out but for the     *)
(* session that a datagram other than a syn made, whose conv no client     *)
(* has. A message is its sequence number. A client that connects again     *)
(* from another port is one whose old session and datagrams are gone.      *)
(***************************************************************************)
EXTENDS Integers, FiniteSets

CONSTANTS
  CliMsgs, SrvMsgs,  \* bounds on the messages of a connection, of a session
  DeadLink,          \* transmissions of one message after which the link is dead
  ToSrv, ToCli,      \* bounds on the datagrams in flight to either end
  None

ASSUME KcpAssumption ==
  /\ CliMsgs \in Nat /\ SrvMsgs \in Nat
  /\ DeadLink \in Nat \ {0} /\ ToSrv \in Nat /\ ToCli \in Nat

VARIABLES
  listening,   \* the acceptor's socket is open; the server's sessions share it
  cli,         \* the client: "off", "syn" while it asks for a session, "up"
  asking,      \* the loop that sends the syn is running
  sendFin,     \* send_fin_ of the client
  ckcp,        \* the client's kcp object
  sess,        \* the server has a started session for the client's endpoint
  ghost,       \* that session was not made by a syn
  first,       \* the first datagram, until the posted recv_t hands it to the session
  skcp,        \* the session's kcp object
  net,         \* datagrams in flight
  own,         \* the session's streams begin with a syn of the client's connection
  skewed       \* the streams of the two ends do not belong together

cliVars == <<cli, asking, sendFin, ckcp>>
sessVars == <<sess, ghost, first, skcp>>
kcpVars == <<listening, cliVars, sessVars, net, own, skewed>>

-----------------------------------------------------------------------------
(***************************************************************************)
(* Datagrams. One is stale when what it is about is over: a handshake of a *)
(* connection before, data or an acknowledgement from before the session's *)
(* streams last began. Nothing in it says so, but for a synack, which      *)
(* carries the number the client put into its syn.                         *)
(***************************************************************************)
Datagram(to, kind, stale) == [to |-> to, kind |-> kind, sn |-> 0, una |-> 0, stale |-> stale]
Push(to, sn) == [to |-> to, kind |-> "push", sn |-> sn, una |-> 0, stale |-> FALSE]
Ack(to, sn, una) == [to |-> to, kind |-> "ack", sn |-> sn, una |-> una, stale |-> FALSE]
Segments == {"push", "ack"}
Old(ms, kinds) == {[m EXCEPT !.stale = @ \/ m.kind \in kinds] : m \in ms}

\* What was in flight to the same end is lost when it gets too much.
Sent(flying, new) ==
  LET there == {m \in flying : \E n \in new : m.to = n.to}
      bound == IF \E n \in new : n.to = "srv" THEN ToSrv ELSE ToCli
  IN IF Cardinality(there \cup new) > bound THEN (flying \ there) \cup new
     ELSE flying \cup new

-----------------------------------------------------------------------------
(***************************************************************************)
(* A kcp object: snd_nxt, the messages not acknowledged with how often     *)
(* each was sent, rcv_nxt, and what came before its turn. What the receive *)
(* window and the congestion window hold back is left out.                 *)
(***************************************************************************)
NewKcp == [snd |-> 0, buf |-> <<>>, rcv |-> 0, held |-> {}]

Queued(k) ==
  [snd  |-> k.snd + 1,
   buf  |-> [s \in DOMAIN k.buf \cup {k.snd} |-> IF s = k.snd THEN 0 ELSE k.buf[s]],
   rcv  |-> k.rcv, held |-> k.held]

Received(k, sn) ==
  LET there == k.held \cup ({sn} \ 0 .. k.rcv - 1)
      next == CHOOSE n \in k.rcv .. CliMsgs + SrvMsgs :
                n \notin there /\ k.rcv .. n - 1 \subseteq there
  IN [snd |-> k.snd, buf |-> k.buf, rcv |-> next, held |-> there \ 0 .. next - 1]

Acked(k, sn, una) ==
  [snd  |-> k.snd,
   buf  |-> [s \in {s \in DOMAIN k.buf : s >= una /\ s # sn} |-> k.buf[s]],
   rcv  |-> k.rcv, held |-> k.held]

Unused(k) == k.snd = 0 /\ k.rcv = 0 /\ k.held = {}

-----------------------------------------------------------------------------
KcpInit ==
  /\ listening = TRUE
  /\ cli = "off" /\ asking = FALSE /\ sendFin = TRUE /\ ckcp = NewKcp
  /\ sess = FALSE /\ ghost = FALSE /\ first = None /\ skcp = NewKcp
  /\ net = {}
  /\ own = FALSE /\ skewed = FALSE

(***************************************************************************)
(* The client                                                              *)
(***************************************************************************)
Syn == Datagram("srv", "syn", FALSE)

\* A first or another connection: the socket is opened, the syn sent. The port is the
\* one before, or another.
Connect ==
  /\ cli = "off"
  /\ cli' = "syn" /\ asking' = TRUE /\ ckcp' = NewKcp
  /\ own' = FALSE /\ skewed' = FALSE
  /\ \/ /\ net' = Sent(Old(net, Segments \cup {"syn", "synack"}), {Syn})
        /\ first' = IF first = None THEN None ELSE [first EXCEPT !.stale = TRUE]
        /\ UNCHANGED <<sess, ghost, skcp>>
     \/ /\ net' = {Syn}
        /\ sess' = FALSE /\ ghost' = FALSE /\ first' = None /\ skcp' = NewKcp
  /\ UNCHANGED <<listening, sendFin>>

\* Mutant: the syn is sent once.
AskOnce == {}
AskAgain == {Syn}

\* Every 500 ms until something is received, or longer (CliAnswered). No timeout ends it:
\* conn_timeout covers the resolver and the connect only.
ResendSyn ==
  /\ asking
  /\ net' = Sent(net, AskAgain)
  /\ UNCHANGED <<listening, cliVars, sessVars, own, skewed>>

\* The refusal of an earlier syn is reported to the send of the next one, which ends
\* the loop; co_stop is for started sessions only (and is then as in CliStops).
ResendFails ==
  /\ cli = "syn" /\ asking /\ ~ listening
  /\ asking' = FALSE
  /\ UNCHANGED <<listening, cli, sendFin, ckcp, sessVars, net, own, skewed>>

\* co_stop: the fin, unless the server sent one; the socket is closed.
CliOver(fin, flying) ==
  /\ cli' = "off" /\ asking' = FALSE /\ sendFin' = fin /\ ckcp' = NewKcp
  /\ net' = Sent(flying, IF fin THEN {Datagram("srv", "fin", FALSE)} ELSE {})
  /\ UNCHANGED <<own, skewed>>

\* The answer to the syn is the first datagram that comes, whichever it is. The view
\* that is then examined is one of a string already destroyed, so that even the
\* synack may fail the test. The wait of the loop that sends the syn is cancelled once: had
\* it expired just before, the loop goes on for the whole connection.
CliAnswered(m, flying) ==
  \/ /\ m.kind = "synack" /\ ~ m.stale
     /\ cli' = "up" /\ asking' \in {FALSE, asking} /\ sendFin' = TRUE /\ ckcp' = NewKcp
     /\ net' = flying
     /\ UNCHANGED <<own, skewed>>
  \/ CliOver(sendFin, flying)

\* kcp_handle_recv_t in the client.
CliHandle(m, flying) ==
  \/ /\ m.kind = "synack"
     /\ net' = flying
     /\ UNCHANGED <<cliVars, own, skewed>>
  \/ m.kind = "fin" /\ CliOver(FALSE, flying)
  \/ /\ m.kind \in Segments
     /\ skewed' = (skewed \/ m.stale)
     /\ IF m.kind = "push"
        THEN /\ ckcp' = Received(ckcp, m.sn)
             /\ net' = Sent(flying, {Ack("srv", m.sn, ckcp'.rcv)})
        ELSE ckcp' = Acked(ckcp, m.sn, m.una) /\ net' = flying
     /\ UNCHANGED <<cli, asking, sendFin, own>>

\* A datagram is received, and may come again.
CliReceives(m) ==
  /\ m.to = "cli" /\ cli # "off"
  /\ \E flying \in {net, net \ {m}} :
       IF cli = "syn" THEN CliAnswered(m, flying) ELSE CliHandle(m, flying)
  /\ UNCHANGED <<listening, sessVars>>

\* The application sends: ikcp_send.
CliSends ==
  /\ cli = "up" /\ ckcp.snd < CliMsgs
  /\ ckcp' = Queued(ckcp)
  /\ UNCHANGED <<listening, cli, asking, sendFin, sessVars, net, own, skewed>>

\* Mutant: the timer does not look at the state of the kcp object.
DeadUnseen(times) == FALSE
Dead(times) == times >= DeadLink

Counted(times) == IF times < DeadLink THEN times + 1 ELSE times

\* A message is transmitted, the first time or again; the timer finds the link dead.
CliFlush(s) ==
  /\ cli = "up" /\ s \in DOMAIN ckcp.buf
  /\ LET times == Counted(ckcp.buf[s])
         flying == Sent(net, {Push("srv", s)})
     IN IF Dead(times) THEN CliOver(sendFin, flying)
        ELSE /\ ckcp' = [ckcp EXCEPT !.buf[s] = times]
             /\ net' = flying
             /\ UNCHANGED <<cli, asking, sendFin, own, skewed>>
  /\ UNCHANGED <<listening, sessVars>>

\* The application stops the session, or the socket reports that nobody listens. A stop
\* during the handshake closes the socket that it reads from.
CliStops ==
  /\ cli # "off"
  /\ CliOver(sendFin, net)
  /\ UNCHANGED <<listening, sessVars>>

-----------------------------------------------------------------------------
(***************************************************************************)
(* The server                                                              *)
(***************************************************************************)

\* Mutant: a syn that reaches a running session is only answered.
Streams(k) == k
Reset(k) == NewKcp

\* The session's streams begin, by a syn of this connection or of one before.
StreamsBegin(syn) ==
  /\ own' = ~ syn.stale
  /\ skewed' = \/ syn.stale /\ cli # "off"
               \/ ~ Unused(ckcp)
               \/ own /\ skcp.snd > 0
  /\ skcp' = Reset(skcp)

Synack(syn) == Datagram("cli", "synack", syn.stale)

\* co_stop of the session; the socket is the acceptor's and stays open.
SessOver(fin, flying) ==
  /\ sess' = FALSE /\ ghost' = FALSE /\ first' = None /\ skcp' = NewKcp
  /\ net' = Sent(flying, IF fin THEN {Datagram("cli", "fin", FALSE)} ELSE {})
  /\ own' = FALSE
  /\ UNCHANGED skewed

\* The first datagram of an unknown endpoint, whatever it is, makes a session, which
\* answers it as if it were a syn, and posts recv_t.
MakeSession(m, flying) ==
  /\ sess' = TRUE /\ ghost' = (m.kind # "syn")
  /\ first' = m
  /\ IF m.kind = "syn"
     THEN StreamsBegin(m) /\ net' = Sent(Old(flying, Segments), {Synack(m)})
     ELSE /\ skcp' = NewKcp
          /\ net' = Sent(flying, {Datagram("cli", "synack", TRUE)})
          /\ UNCHANGED <<own, skewed>>

\* ikcp_input, ikcp_recv and ikcp_flush.
SessSegment(m, flying) ==
  /\ skewed' = (skewed \/ (m.stale /\ cli # "off"))
  /\ IF m.kind = "push"
     THEN /\ skcp' = Received(skcp, m.sn)
          /\ net' = Sent(flying, {Ack("cli", m.sn, skcp'.rcv)})
     ELSE skcp' = Acked(skcp, m.sn, m.una) /\ net' = flying
  /\ UNCHANGED <<sess, ghost, own>> /\ first' = None

\* kcp_handle_recv_t in the session. A segment with another conv is an error.
SessHandle(m, flying) ==
  \/ /\ m.kind = "syn"
     /\ StreamsBegin(m)
     /\ net' = Sent(Old(flying, Segments), {Synack(m)})
     /\ UNCHANGED <<sess, ghost>> /\ first' = None
  \/ m.kind = "fin" /\ SessOver(FALSE, flying)
  \/ /\ m.kind \in Segments
     /\ IF ghost THEN SessOver(TRUE, flying) ELSE SessSegment(m, flying)

\* A turn of the acceptor's loop; recv_t was posted before the loop went on.
SrvReceives(m) ==
  /\ listening /\ m.to = "srv" /\ first = None
  /\ \E flying \in {net, net \ {m}} :
       IF sess THEN SessHandle(m, flying) ELSE MakeSession(m, flying)
  /\ UNCHANGED <<listening, cliVars>>

\* recv_t handles the first datagram a second time.
Replay ==
  /\ first # None
  /\ SessHandle(first, net)
  /\ UNCHANGED <<listening, cliVars>>

SrvSends ==
  /\ sess /\ skcp.snd < SrvMsgs
  /\ skcp' = Queued(skcp)
  /\ UNCHANGED <<listening, cliVars, sess, ghost, first, net, own, skewed>>

\* ikcp_flush transmits nothing before the timer's first turn, which comes after recv_t.
SrvFlush(s) ==
  /\ sess /\ first = None /\ s \in DOMAIN skcp.buf
  /\ LET times == Counted(skcp.buf[s])
         flying == Sent(net, {Push("cli", s)})
     IN IF Dead(times) THEN SessOver(TRUE, flying)
        ELSE /\ skcp' = [skcp EXCEPT !.buf[s] = times]
             /\ net' = flying
             /\ UNCHANGED <<sess, ghost, first, own, skewed>>
  /\ UNCHANGED <<listening, cliVars>>

\* The application stops the session; or the acceptor's receive failed, which stops the
\* session of the datagram received before.
SrvStopsSession ==
  /\ sess
  /\ SessOver(TRUE, net)
  /\ UNCHANGED <<listening, cliVars>>

\* server::co_stop closes the socket first: no session can send its fin.
SrvStops ==
  /\ listening
  /\ listening' = FALSE
  /\ SessOver(FALSE, net)
  /\ UNCHANGED cliVars

SrvStarts ==
  /\ ~ listening
  /\ listening' = TRUE
  /\ UNCHANGED <<cliVars, sessVars, net, own, skewed>>

-----------------------------------------------------------------------------
\* A datagram that is in the acceptor's socket while recv_t is posted is lost later.
Lose(m) ==
  /\ m.to = "cli" \/ first = None
  /\ net' = net \ {m}
  /\ UNCHANGED <<listening, cliVars, sessVars, own, skewed>>

KcpNext ==
  \/ Connect \/ ResendSyn \/ ResendFails \/ CliSends \/ CliStops
  \/ Replay \/ SrvSends \/ SrvStopsSession \/ SrvStops \/ SrvStarts
  \/ \E s \in DOMAIN ckcp.buf : CliFlush(s)
  \/ \E s \in DOMAIN skcp.buf : SrvFlush(s)
  \/ \E m \in net : CliReceives(m) \/ SrvReceives(m) \/ Lose(m)

(***************************************************************************)
(* The timers go on, and so does what is posted. The network does not lose *)
(* a datagram for ever that is sent again and again.                       *)
(***************************************************************************)
KcpFairness ==
  /\ WF_kcpVars(ResendSyn)
  /\ WF_kcpVars(Replay)
  /\ WF_kcpVars(\E s \in DOMAIN ckcp.buf : CliFlush(s))
  /\ SF_kcpVars(Syn \in net /\ SrvReceives(Syn))
  /\ SF_kcpVars(\E m \in net : m.kind = "synack" /\ ~ m.stale /\ CliReceives(m))

KcpSpec == KcpInit /\ [][KcpNext]_kcpVars
FairKcpSpec == KcpSpec /\ KcpFairness

-----------------------------------------------------------------------------
\* A kcp object that sends up to msgs messages and is sent up to peers.
KcpObject(msgs, peers) ==
  {k \in [snd  : 0 .. msgs,
          buf  : UNION {[D -> 0 .. DeadLink] : D \in SUBSET (0 .. msgs - 1)},
          rcv  : 0 .. peers,
          held : SUBSET (0 .. peers - 1)] : DOMAIN k.buf \subseteq 0 .. k.snd - 1}

Datagrams ==
  {m \in [to : {"cli", "srv"}, kind : Segments \cup {"syn", "synack", "fin"},
          sn : Nat, una : Nat, stale : BOOLEAN] :
     m.kind = "push" => m.sn < (IF m.to = "srv" THEN CliMsgs ELSE SrvMsgs)}

KcpTypeOK ==
  /\ listening \in BOOLEAN /\ asking \in BOOLEAN /\ sendFin \in BOOLEAN
  /\ sess \in BOOLEAN /\ ghost \in BOOLEAN /\ own \in BOOLEAN /\ skewed \in BOOLEAN
  /\ cli \in {"off", "syn", "up"}
  /\ ckcp \in KcpObject(CliMsgs, SrvMsgs) /\ skcp \in KcpObject(SrvMsgs, CliMsgs)
  /\ \A m \in net \cup ({first} \ {None}) : m \in Datagrams

\* What the receiving end was given was sent, and what is acknowledged to the sending
\* end has reached the other.
Flows(from, to) ==
  /\ to.rcv <= from.snd
  /\ 0 .. from.snd - 1 \subseteq DOMAIN from.buf \cup 0 .. to.rcv - 1 \cup to.held

\* A connected client and the session of its endpoint are in step, both ways: nothing
\* is given to either application that the other did not send in this connection, and
\* nothing is acknowledged that does not arrive. Except when the session's streams
\* began, by the replay of the first datagram or by a syn that came twice or late, after
\* either end had sent or received a message, or when a segment came from before.
InStep ==
  cli = "up" /\ sess /\ ~ ghost /\ ~ skewed => Flows(ckcp, skcp) /\ Flows(skcp, ckcp)

\* A client that asks for a session gets one or gives up, unless the server is not
\* there, or the loop that sends the syn has ended.
HandshakeEnds == cli = "syn" ~> cli # "syn" \/ ~ listening \/ ~ asking

\* A client that waits for an acknowledgement from a server that has dropped its session
\* gets to know: the connection is over, unless an acknowledgement was still on its way
\* or a late syn made another session.
DropNoticed ==
  cli = "up" /\ ckcp.buf # <<>> /\ ~ sess
    ~> cli # "up" \/ ckcp.buf = <<>> \/ (sess /\ ~ ghost)
=============================================================================
