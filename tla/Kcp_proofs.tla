------------------------------- MODULE Kcp_proofs -------------------------------
(* Proofs about kcp: while nothing has put them out of step, the streams flow. *)
EXTENDS Kcp, TLAPS, WellFoundedInduction

\* The messages an end has been sent.
Has(k) == 0 .. k.rcv - 1 \cup k.held

\* One end was sent only what the other sent, which keeps what was not.
Fits(from, to) ==
  /\ Has(to) \subseteq 0 .. from.snd - 1
  /\ 0 .. from.snd - 1 \subseteq DOMAIN from.buf \cup Has(to)

\* A segment in flight carries what its sender sent, or acknowledges what it has.
InFlight(m) ==
  LET from == IF m.to = "srv" THEN ckcp ELSE skcp
  IN /\ m.kind = "push" => m.sn < from.snd
     /\ m.kind = "ack" => m.sn \in Has(from) /\ m.una <= from.rcv

\* The client's kcp object is made anew with every connection.
Fresh == cli # "up" => ckcp = NewKcp

\* Only a session made by a datagram other than a syn is handed a segment by recv_t.
FirstGhost == first # None /\ first.kind \in Segments => ghost

\* The session that answers the client is one whose streams began with its syn.
Asked ==
  cli = "syn" /\ sess /\ ~ ghost /\ ~ own /\ ~ skewed =>
    \A m \in net : m.kind = "synack" => m.stale
Ours == cli = "up" /\ sess /\ ~ ghost /\ ~ skewed => own

Steady ==
  cli # "off" /\ sess /\ ~ ghost /\ own /\ ~ skewed =>
    /\ Fits(ckcp, skcp) /\ Fits(skcp, ckcp)
    /\ \A m \in net : ~ m.stale => InFlight(m)

KcpIInv == KcpTypeOK /\ Fresh /\ FirstGhost /\ Asked /\ Ours /\ Steady

-----------------------------------------------------------------------------
(***************************************************************************)
(* kcp objects and datagrams                                               *)
(***************************************************************************)

\* The buffers of a kcp object are the functions on sets of its messages.
LEMMA Buffers ==
  ASSUME NEW msgs \in Nat, NEW f
  PROVE  f \in UNION {[D -> 0 .. DeadLink] : D \in SUBSET (0 .. msgs - 1)}
           <=> /\ f = [s \in DOMAIN f |-> f[s]]
               /\ DOMAIN f \subseteq 0 .. msgs - 1
               /\ \A s \in DOMAIN f : f[s] \in 0 .. DeadLink
  OBVIOUS

\* And such a function is a buffer.
LEMMA IsBuffer ==
  ASSUME NEW msgs \in Nat, NEW D \in SUBSET (0 .. msgs - 1), NEW f \in [D -> 0 .. DeadLink]
  PROVE  f \in UNION {[E -> 0 .. DeadLink] : E \in SUBSET (0 .. msgs - 1)}
  OBVIOUS

\* A new kcp object.
LEMMA NewKcpType ==
  ASSUME NEW msgs \in Nat, NEW peers \in Nat
  PROVE  NewKcp \in KcpObject(msgs, peers) /\ Has(NewKcp) = {} /\ DOMAIN NewKcp.buf = {}
  <1>1. <<>> \in [{} -> 0 .. DeadLink] /\ DOMAIN <<>> = {}
    OBVIOUS
  <1>2. <<>> \in UNION {[D -> 0 .. DeadLink] : D \in SUBSET (0 .. msgs - 1)}
    BY <1>1
  <1>3. QED
    BY <1>1, <1>2 DEF NewKcp, KcpObject, Has

\* A message given to a kcp object is the next of its stream and not acknowledged.
LEMMA QueuedFacts ==
  ASSUME KcpAssumption, NEW msgs \in Nat, NEW peers \in Nat,
         NEW k \in KcpObject(msgs, peers), k.snd < msgs
  PROVE  /\ Queued(k) \in KcpObject(msgs, peers)
         /\ Queued(k).snd = k.snd + 1 /\ Has(Queued(k)) = Has(k) /\ Queued(k).rcv = k.rcv
         /\ DOMAIN Queued(k).buf = DOMAIN k.buf \cup {k.snd}
  <1> DEFINE b == [s \in DOMAIN k.buf \cup {k.snd} |-> IF s = k.snd THEN 0 ELSE k.buf[s]]
  <1>1. k.buf \in UNION {[D -> 0 .. DeadLink] : D \in SUBSET (0 .. msgs - 1)}
        /\ k.snd \in 0 .. msgs /\ k.rcv \in 0 .. peers /\ k.held \in SUBSET (0 .. peers - 1)
        /\ DOMAIN k.buf \subseteq 0 .. k.snd - 1
    BY DEF KcpObject
  <1>2. DOMAIN b = DOMAIN k.buf \cup {k.snd} /\ DOMAIN b \subseteq 0 .. msgs - 1
    BY <1>1, Buffers
  <1>3. \A s \in DOMAIN b : b[s] \in 0 .. DeadLink
    BY <1>1, Buffers DEF KcpAssumption
  <1>4. b \in UNION {[D -> 0 .. DeadLink] : D \in SUBSET (0 .. msgs - 1)}
    <2>1. b \in [DOMAIN b -> 0 .. DeadLink]
      BY <1>3
    <2> HIDE DEF b
    <2>2. QED
      BY <1>2, <2>1, IsBuffer
  <1>5. Queued(k) = [snd |-> k.snd + 1, buf |-> b, rcv |-> k.rcv, held |-> k.held]
    BY DEF Queued
  <1> HIDE DEF b
  <1>6. QED
    BY <1>1, <1>2, <1>4, <1>5 DEF KcpObject, Has

\* An acknowledgement takes away what it names and what is below its una.
LEMMA AckedFacts ==
  ASSUME KcpAssumption, NEW msgs \in Nat, NEW peers \in Nat,
         NEW k \in KcpObject(msgs, peers), NEW sn, NEW una
  PROVE  /\ Acked(k, sn, una) \in KcpObject(msgs, peers)
         /\ Acked(k, sn, una).snd = k.snd /\ Acked(k, sn, una).rcv = k.rcv
         /\ Has(Acked(k, sn, una)) = Has(k)
         /\ DOMAIN Acked(k, sn, una).buf = {s \in DOMAIN k.buf : s >= una /\ s # sn}
  <1> DEFINE b == [s \in {s \in DOMAIN k.buf : s >= una /\ s # sn} |-> k.buf[s]]
  <1>1. k.buf \in UNION {[D -> 0 .. DeadLink] : D \in SUBSET (0 .. msgs - 1)}
        /\ k.snd \in 0 .. msgs /\ k.rcv \in 0 .. peers /\ k.held \in SUBSET (0 .. peers - 1)
        /\ DOMAIN k.buf \subseteq 0 .. k.snd - 1
    BY DEF KcpObject
  <1>2. DOMAIN b = {s \in DOMAIN k.buf : s >= una /\ s # sn} /\ DOMAIN b \subseteq 0 .. msgs - 1
    BY <1>1, Buffers
  <1>3. \A s \in DOMAIN b : b[s] \in 0 .. DeadLink
    BY <1>1, Buffers
  <1>4. b \in UNION {[D -> 0 .. DeadLink] : D \in SUBSET (0 .. msgs - 1)}
    <2>1. b \in [DOMAIN b -> 0 .. DeadLink]
      BY <1>3
    <2> HIDE DEF b
    <2>2. QED
      BY <1>2, <2>1, IsBuffer
  <1>5. Acked(k, sn, una) = [snd |-> k.snd, buf |-> b, rcv |-> k.rcv, held |-> k.held]
    BY DEF Acked
  <1> HIDE DEF b
  <1>6. QED
    BY <1>1, <1>2, <1>4, <1>5 DEF KcpObject, Has

\* Every set of naturals that has a member has a least one.
LEMMA LeastOf ==
  ASSUME NEW T \in SUBSET Nat, T # {}
  PROVE  \E n \in T : \A m \in T : n <= m
  <1>1. PICK n \in T : \A m \in T : <<m, n>> \notin OpToRel(<, Nat)
    BY NatLessThanWellFounded, WFMin, Zenon
  <1>2. \A m \in T : ~ (m < n)
    BY <1>1, Zenon DEF OpToRel
  <1>3. QED
    BY <1>2

\* A message received is there, once, and whatever is there was received.
LEMMA ReceivedFacts ==
  ASSUME KcpAssumption, NEW msgs \in Nat, NEW peers \in Nat, peers <= CliMsgs + SrvMsgs,
         NEW k \in KcpObject(msgs, peers), NEW sn \in 0 .. peers - 1
  PROVE  /\ Received(k, sn) \in KcpObject(msgs, peers)
         /\ Received(k, sn).snd = k.snd /\ Received(k, sn).buf = k.buf
         /\ Has(Received(k, sn)) = Has(k) \cup {sn}
         /\ Received(k, sn).rcv >= k.rcv
  <1> DEFINE there == k.held \cup ({sn} \ 0 .. k.rcv - 1)
             good(n) == n \notin there /\ k.rcv .. n - 1 \subseteq there
             next == CHOOSE n \in k.rcv .. CliMsgs + SrvMsgs : good(n)
  <1>1. k.buf \in UNION {[D -> 0 .. DeadLink] : D \in SUBSET (0 .. msgs - 1)}
        /\ k.snd \in 0 .. msgs /\ k.rcv \in 0 .. peers /\ k.held \in SUBSET (0 .. peers - 1)
        /\ DOMAIN k.buf \subseteq 0 .. k.snd - 1
    BY DEF KcpObject
  <1>2. there \subseteq 0 .. peers - 1
    BY <1>1
  <1>3. \E n \in k.rcv .. CliMsgs + SrvMsgs : good(n)
    <2> DEFINE T == {n \in k.rcv .. peers : n \notin there}
    <2>1. T \in SUBSET Nat /\ peers \in T
      BY <1>1, <1>2
    <2>2. PICK n \in T : \A m \in T : n <= m
      BY <2>1, LeastOf
    <2>3. good(n)
      BY <2>1, <2>2, <1>1
    <2>4. n \in k.rcv .. CliMsgs + SrvMsgs
      BY <2>1, <1>1 DEF KcpAssumption
    <2>5. QED
      BY <2>3, <2>4
  <1>4. next \in k.rcv .. CliMsgs + SrvMsgs /\ good(next)
    BY <1>3
  <1>5. Received(k, sn) = [snd |-> k.snd, buf |-> k.buf, rcv |-> next,
                           held |-> there \ 0 .. next - 1]
    BY DEF Received
  <1> HIDE DEF next
  <1>6. next \in 0 .. peers
    BY <1>1, <1>2, <1>4 DEF KcpAssumption
  <1>7. Received(k, sn) \in KcpObject(msgs, peers)
    BY <1>1, <1>2, <1>5, <1>6 DEF KcpObject
  <1>8. 0 .. next - 1 \cup (there \ 0 .. next - 1) = (0 .. k.rcv - 1 \cup k.held) \cup {sn}
    BY <1>1, <1>4, <1>6
  <1>9. QED
    BY <1>1, <1>4, <1>5, <1>7, <1>8 DEF Has

\* Transmitting a message again changes the count of its transmissions only.
LEMMA FlushedFacts ==
  ASSUME KcpAssumption, NEW msgs \in Nat, NEW peers \in Nat,
         NEW k \in KcpObject(msgs, peers), NEW s \in DOMAIN k.buf
  PROVE  LET r == [k EXCEPT !.buf[s] = Counted(k.buf[s])]
         IN /\ r \in KcpObject(msgs, peers)
            /\ r.snd = k.snd /\ r.rcv = k.rcv /\ Has(r) = Has(k) /\ DOMAIN r.buf = DOMAIN k.buf
  <1> DEFINE b == [k.buf EXCEPT ![s] = Counted(k.buf[s])]
             r == [k EXCEPT !.buf[s] = Counted(k.buf[s])]
  <1>1. k.buf \in UNION {[D -> 0 .. DeadLink] : D \in SUBSET (0 .. msgs - 1)}
        /\ k.snd \in 0 .. msgs /\ k.rcv \in 0 .. peers /\ k.held \in SUBSET (0 .. peers - 1)
        /\ DOMAIN k.buf \subseteq 0 .. k.snd - 1
        /\ k = [snd |-> k.snd, buf |-> k.buf, rcv |-> k.rcv, held |-> k.held]
    BY DEF KcpObject
  <1>2. DOMAIN b = DOMAIN k.buf /\ DOMAIN b \subseteq 0 .. msgs - 1
    BY <1>1, Buffers
  <1>3. \A x \in DOMAIN b : b[x] \in 0 .. DeadLink
    BY <1>1, Buffers DEF Counted, KcpAssumption
  <1>4. b \in UNION {[D -> 0 .. DeadLink] : D \in SUBSET (0 .. msgs - 1)}
    <2>1. b \in [DOMAIN b -> 0 .. DeadLink]
      BY <1>3
    <2> HIDE DEF b
    <2>2. QED
      BY <1>2, <2>1, IsBuffer
  <1>5. r = [snd |-> k.snd, buf |-> b, rcv |-> k.rcv, held |-> k.held]
    BY <1>1
  <1> HIDE DEF b, r
  <1>6. r \in KcpObject(msgs, peers) /\ r.snd = k.snd /\ r.rcv = k.rcv /\ Has(r) = Has(k)
        /\ DOMAIN r.buf = DOMAIN k.buf
    BY <1>1, <1>2, <1>4, <1>5 DEF KcpObject, Has
  <1>7. QED
    BY <1>6 DEF r

\* What is sent joins what is in flight, some of which may be lost.
LEMMA SentSub ==
  ASSUME NEW flying, NEW new
  PROVE  Sent(flying, new) \subseteq flying \cup new
  BY DEF Sent

\* Datagrams that have become stale are what they were otherwise.
LEMMA OldFacts ==
  ASSUME NEW ms \in SUBSET Datagrams, NEW kinds
  PROVE  /\ Old(ms, kinds) \subseteq Datagrams
         /\ \A m \in Old(ms, kinds) : m.kind \in kinds => m.stale
  BY DEF Old, Datagrams

\* The datagrams the two ends send.
LEMMA Handshakes ==
  ASSUME NEW to \in {"cli", "srv"}, NEW kind \in {"syn", "synack", "fin"}, NEW stale \in BOOLEAN
  PROVE  /\ Datagram(to, kind, stale) \in Datagrams
         /\ Datagram(to, kind, stale).kind = kind /\ Datagram(to, kind, stale).stale = stale
  BY DEF Datagram, Datagrams

LEMMA Pushes ==
  ASSUME NEW to \in {"cli", "srv"}, NEW s \in Nat, s < (IF to = "srv" THEN CliMsgs ELSE SrvMsgs)
  PROVE  Push(to, s) \in Datagrams
  BY DEF Push, Datagrams, Segments

LEMMA Acks ==
  ASSUME NEW to \in {"cli", "srv"}, NEW sn \in Nat, NEW una \in Nat
  PROVE  Ack(to, sn, una) \in Datagrams
  BY DEF Ack, Datagrams, Segments

-----------------------------------------------------------------------------
(***************************************************************************)
(* The invariant holds initially, and the client keeps it                  *)
(***************************************************************************)

\* KcpIInv holds of the initial state.
LEMMA KcpInitIInv == ASSUME KcpAssumption, KcpInit PROVE KcpIInv
  <1>1. KcpTypeOK
    BY NewKcpType DEF KcpInit, KcpTypeOK, KcpAssumption
  <1>2. Fresh /\ FirstGhost /\ Asked /\ Ours /\ Steady
    BY DEF KcpInit, Fresh, FirstGhost, Asked, Ours, Steady
  <1>3. QED
    BY <1>1, <1>2 DEF KcpIInv

\* When the client's connection is over nothing is claimed of the streams.
LEMMA CliOverStep ==
  ASSUME KcpAssumption, KcpIInv, NEW fin \in BOOLEAN, NEW flying \in SUBSET Datagrams,
         CliOver(fin, flying), UNCHANGED <<listening, sessVars>>
  PROVE  KcpIInv'
  <1>1. net' \subseteq Datagrams
    <2>1. Datagram("srv", "fin", FALSE) \in Datagrams
      BY Handshakes
    <2> DEFINE new == IF fin THEN {Datagram("srv", "fin", FALSE)} ELSE {}
    <2>2. net' = Sent(flying, new)
      BY Zenon DEF CliOver
    <2>3. new \subseteq Datagrams
      BY <2>1
    <2> HIDE DEF new
    <2>4. QED
      BY <2>2, <2>3, SentSub
  <1>2. ckcp' = NewKcp /\ cli' = "off" /\ asking' = FALSE /\ sendFin' = fin
        /\ UNCHANGED <<listening, sess, ghost, first, skcp, own, skewed>>
    BY DEF CliOver, sessVars
  <1>3. KcpTypeOK'
    BY <1>1, <1>2, NewKcpType DEF KcpIInv, KcpTypeOK, KcpAssumption
  <1>4. Fresh' /\ FirstGhost' /\ Asked' /\ Ours' /\ Steady'
    BY <1>2 DEF KcpIInv, Fresh, FirstGhost, Asked, Ours, Steady
  <1>5. QED
    BY <1>3, <1>4 DEF KcpIInv

\* A step that leaves the ends alone and adds nothing but a syn to what is in flight.
LEMMA NetStep ==
  ASSUME KcpAssumption, KcpIInv, net' \subseteq net \cup {Syn}, asking' \in BOOLEAN,
         listening' \in BOOLEAN, UNCHANGED <<cli, sendFin, ckcp, sessVars, own, skewed>>
  PROVE  KcpIInv'
  <1>1. Syn \in Datagrams /\ Syn.kind = "syn"
    BY Handshakes DEF Syn
  <1>2. KcpTypeOK'
    BY <1>1 DEF KcpIInv, KcpTypeOK, sessVars
  <1>3. Fresh' /\ FirstGhost' /\ Asked' /\ Ours'
    BY <1>1 DEF KcpIInv, Fresh, FirstGhost, Asked, Ours, sessVars
  <1>4. Steady'
    BY <1>1 DEF KcpIInv, Steady, Fits, InFlight, sessVars
  <1>5. QED
    BY <1>2, <1>3, <1>4 DEF KcpIInv

\* A new connection has not asked yet.
LEMMA ConnectStep == ASSUME KcpAssumption, KcpIInv, Connect PROVE KcpIInv'
  <1>1. Syn \in Datagrams /\ Syn.kind = "syn"
    BY Handshakes DEF Syn
  <1>2. net' \subseteq Datagrams /\ \A m \in net' : m.kind = "synack" => m.stale
    BY <1>1, SentSub, OldFacts DEF Connect, KcpIInv, KcpTypeOK
  <1>3. first # None => first \in Datagrams
    BY DEF KcpIInv, KcpTypeOK
  <1>4. first' # None => first' \in Datagrams /\ first # None /\ first'.kind = first.kind
    BY <1>3 DEF Connect, Datagrams
  <1>5. skcp' \in KcpObject(SrvMsgs, CliMsgs) /\ ckcp' = NewKcp
        /\ ckcp' \in KcpObject(CliMsgs, SrvMsgs)
    BY NewKcpType DEF Connect, KcpIInv, KcpTypeOK, KcpAssumption
  <1>6. KcpTypeOK'
    BY <1>2, <1>4, <1>5 DEF Connect, KcpIInv, KcpTypeOK
  <1>7. Fresh' /\ Asked' /\ Ours' /\ Steady'
    BY <1>2, <1>5 DEF Connect, Fresh, Asked, Ours, Steady
  <1>8. FirstGhost'
    BY <1>4 DEF Connect, KcpIInv, FirstGhost
  <1>9. QED
    BY <1>6, <1>7, <1>8 DEF KcpIInv

\* The client that gets a synack has a session whose streams began with its syn.
LEMMA UpStep ==
  ASSUME KcpAssumption, KcpIInv, cli = "syn",
         NEW m \in net, m.kind = "synack", ~ m.stale,
         cli' = "up", asking' \in BOOLEAN, sendFin' = TRUE, ckcp' = NewKcp, net' \subseteq net,
         UNCHANGED <<own, skewed, listening, sessVars>>
  PROVE  KcpIInv'
  <1>1. ckcp' = ckcp
    BY DEF KcpIInv, Fresh
  <1>2. KcpTypeOK'
    BY <1>1 DEF KcpIInv, KcpTypeOK, sessVars
  <1>3. Fresh' /\ FirstGhost' /\ Asked'
    BY DEF KcpIInv, Fresh, FirstGhost, Asked, sessVars
  <1>4. Ours'
    BY DEF KcpIInv, Asked, Ours, sessVars
  <1>5. Steady'
    BY <1>1 DEF KcpIInv, Steady, Fits, InFlight, sessVars
  <1>6. QED
    BY <1>2, <1>3, <1>4, <1>5 DEF KcpIInv

-----------------------------------------------------------------------------
(***************************************************************************)
(* Steps within a connection                                               *)
(***************************************************************************)

\* An end whose stream goes on.
Grows(k, l) == k.snd <= l.snd /\ k.rcv <= l.rcv /\ Has(k) \subseteq Has(l)

\* What is in flight stays right as the streams go on.
LEMMA InFlightGrows ==
  ASSUME KcpAssumption, NEW m \in Datagrams,
         ckcp \in KcpObject(CliMsgs, SrvMsgs), ckcp' \in KcpObject(CliMsgs, SrvMsgs),
         skcp \in KcpObject(SrvMsgs, CliMsgs), skcp' \in KcpObject(SrvMsgs, CliMsgs),
         Grows(ckcp, ckcp'), Grows(skcp, skcp'), InFlight(m)
  PROVE  InFlight(m)'
  <1>1. m.sn \in Nat /\ m.una \in Nat
    BY DEF Datagrams
  <1>2. ckcp.snd \in Int /\ ckcp'.snd \in Int /\ ckcp.rcv \in Int /\ ckcp'.rcv \in Int
        /\ skcp.snd \in Int /\ skcp'.snd \in Int /\ skcp.rcv \in Int /\ skcp'.rcv \in Int
    BY DEF KcpObject, KcpAssumption
  <1>3. CASE m.to = "srv"
    BY <1>1, <1>2, <1>3 DEF InFlight, Grows
  <1>4. CASE m.to # "srv"
    BY <1>1, <1>2, <1>4 DEF InFlight, Grows
  <1>5. QED
    BY <1>3, <1>4

\* A step in which the streams go on, or become out of step.
LEMMA StreamStep ==
  ASSUME KcpAssumption, KcpIInv,
         UNCHANGED <<listening, cli, asking, sendFin, sess, ghost, own>>,
         first' = first \/ first' = None, skewed' \in BOOLEAN, skewed => skewed',
         NEW new \in SUBSET Datagrams, net' \subseteq net \cup new,
         \A m \in new : m.kind \in Segments,
         ckcp' \in KcpObject(CliMsgs, SrvMsgs), skcp' \in KcpObject(SrvMsgs, CliMsgs),
         cli # "up" => ckcp' = ckcp,
         cli # "off" /\ sess /\ ~ ghost /\ own /\ ~ skewed' =>
           /\ Fits(ckcp', skcp') /\ Fits(skcp', ckcp')
           /\ Grows(ckcp, ckcp') /\ Grows(skcp, skcp')
           /\ \A m \in new : InFlight(m)'
  PROVE  KcpIInv'
  <1>1. KcpTypeOK'
    BY DEF KcpIInv, KcpTypeOK
  <1>2. Fresh' /\ FirstGhost' /\ Ours'
    BY DEF KcpIInv, Fresh, FirstGhost, Ours
  <1>3. Asked'
    BY DEF KcpIInv, Asked, Segments
  <1>4. Steady'
    <2> SUFFICES ASSUME cli # "off", sess, ~ ghost, own, ~ skewed'
                 PROVE  /\ Fits(ckcp', skcp') /\ Fits(skcp', ckcp')
                        /\ \A m \in net' : ~ m.stale => InFlight(m)'
      BY DEF Steady, Fits
    <2>1. \A m \in net : m \in Datagrams /\ (~ m.stale => InFlight(m))
      BY DEF KcpIInv, KcpTypeOK, Steady
    <2>2. \A m \in net : ~ m.stale => InFlight(m)'
      BY <2>1, InFlightGrows DEF KcpIInv, KcpTypeOK
    <2>3. QED
      BY <2>2
  <1>5. QED
    BY <1>1, <1>2, <1>3, <1>4 DEF KcpIInv

\* What the receiver is handed was sent: both directions still fit.
LEMMA ReceivedFits ==
  ASSUME KcpAssumption, NEW msgs \in Nat, NEW peers \in Nat, peers <= CliMsgs + SrvMsgs,
         NEW from \in KcpObject(peers, msgs), NEW to \in KcpObject(msgs, peers),
         NEW sn \in 0 .. peers - 1, sn < from.snd, Fits(from, to), Fits(to, from)
  PROVE  Fits(from, Received(to, sn)) /\ Fits(Received(to, sn), from)
  <1>1. /\ Received(to, sn).snd = to.snd /\ Received(to, sn).buf = to.buf
        /\ Has(Received(to, sn)) = Has(to) \cup {sn}
    BY ReceivedFacts
  <1>2. sn \in 0 .. from.snd - 1
    BY DEF KcpObject
  <1>3. QED
    BY <1>1, <1>2 DEF Fits

\* What is acknowledged has arrived: both directions still fit.
LEMMA AckedFits ==
  ASSUME KcpAssumption, NEW msgs \in Nat, NEW peers \in Nat,
         NEW from \in KcpObject(msgs, peers), NEW to \in KcpObject(peers, msgs),
         NEW sn \in Has(to), NEW una \in Nat, una <= to.rcv, Fits(from, to), Fits(to, from)
  PROVE  Fits(Acked(from, sn, una), to) /\ Fits(to, Acked(from, sn, una))
  <1>1. /\ Acked(from, sn, una).snd = from.snd /\ Has(Acked(from, sn, una)) = Has(from)
        /\ DOMAIN Acked(from, sn, una).buf = {s \in DOMAIN from.buf : s >= una /\ s # sn}
    BY AckedFacts
  <1>2. ASSUME NEW s \in DOMAIN from.buf
        PROVE  s \in DOMAIN Acked(from, sn, una).buf \/ s \in Has(to)
    <2>1. s \in Nat /\ to.rcv \in Nat
      BY DEF KcpObject
    <2>2. s >= una \/ s \in 0 .. to.rcv - 1
      BY <2>1
    <2>3. QED
      BY <1>1, <2>2 DEF Has
  <1>3. QED
    BY <1>1, <1>2 DEF Fits

\* A new message fits.
LEMMA QueuedFits ==
  ASSUME KcpAssumption, NEW msgs \in Nat, NEW peers \in Nat,
         NEW from \in KcpObject(msgs, peers), NEW to \in KcpObject(peers, msgs),
         from.snd < msgs, Fits(from, to), Fits(to, from)
  PROVE  Fits(Queued(from), to) /\ Fits(to, Queued(from))
  <1>1. /\ Queued(from).snd = from.snd + 1 /\ Has(Queued(from)) = Has(from)
        /\ DOMAIN Queued(from).buf = DOMAIN from.buf \cup {from.snd}
    BY QueuedFacts
  <1>2. from.snd \in Nat
    BY DEF KcpObject
  <1>3. 0 .. (from.snd + 1) - 1 = 0 .. from.snd - 1 \cup {from.snd}
    BY <1>2
  <1>4. QED
    BY <1>1, <1>3 DEF Fits

-----------------------------------------------------------------------------
(***************************************************************************)
(* The client's part in a connection                                       *)
(***************************************************************************)

\* A segment is handed to the client's kcp object.
LEMMA CliSegmentStep ==
  ASSUME KcpAssumption, KcpIInv, cli = "up",
         NEW m \in net, m.to = "cli", m.kind \in Segments,
         NEW flying \in SUBSET net, CliHandle(m, flying), UNCHANGED <<listening, sessVars>>
  PROVE  KcpIInv'
  <1>1. /\ m \in Datagrams /\ m.sn \in Nat /\ m.una \in Nat /\ m.stale \in BOOLEAN
        /\ m.kind = "push" => m.sn \in 0 .. SrvMsgs - 1
        /\ ckcp \in KcpObject(CliMsgs, SrvMsgs) /\ skcp \in KcpObject(SrvMsgs, CliMsgs)
        /\ skewed \in BOOLEAN /\ SrvMsgs \in Nat /\ CliMsgs \in Nat
    BY DEF KcpIInv, KcpTypeOK, Datagrams, KcpAssumption
  <1>2. /\ UNCHANGED <<listening, cli, asking, sendFin, sess, ghost, own, first, skcp>>
        /\ skewed' = (skewed \/ m.stale)
    BY DEF CliHandle, Segments, sessVars
  <1>3. cli # "off" /\ sess /\ ~ ghost /\ own /\ ~ skewed' =>
          Fits(ckcp, skcp) /\ Fits(skcp, ckcp) /\ InFlight(m)
    BY <1>2 DEF KcpIInv, Steady
  <1>4. CASE m.kind = "push"
    <2> DEFINE a == Ack("srv", m.sn, ckcp'.rcv)
    <2>1. ckcp' = Received(ckcp, m.sn) /\ net' = Sent(flying, {a})
      BY <1>4 DEF CliHandle, Segments
    <2>2. /\ ckcp' \in KcpObject(CliMsgs, SrvMsgs) /\ Grows(ckcp, ckcp')
          /\ Has(ckcp') = Has(ckcp) \cup {m.sn}
      <3>1. /\ ckcp' \in KcpObject(CliMsgs, SrvMsgs)
            /\ ckcp'.snd = ckcp.snd /\ Has(ckcp') = Has(ckcp) \cup {m.sn}
            /\ ckcp'.rcv >= ckcp.rcv
        BY <1>1, <1>4, <2>1, ReceivedFacts
      <3>2. ckcp.snd \in Int /\ ckcp.rcv \in Int /\ ckcp'.rcv \in Int
        BY <1>1, <3>1 DEF KcpObject
      <3>3. QED
        BY <3>1, <3>2 DEF Grows
    <2>3. ckcp'.rcv \in Nat /\ skcp.snd \in Nat /\ skcp.rcv \in Nat
      BY <1>1, <2>2 DEF KcpObject
    <2>4. a \in Datagrams /\ a.kind = "ack" /\ a.to = "srv" /\ a.sn = m.sn /\ a.una = ckcp'.rcv
      BY <1>1, <2>3, Acks DEF Ack
    <2>5. Grows(skcp, skcp') /\ skcp' = skcp
      BY <1>2, <2>3 DEF Grows
    <2>6. a.sn \in Has(ckcp') /\ a.una <= ckcp'.rcv
      BY <2>2, <2>3, <2>4
    <2> HIDE DEF a
    <2>7. \A x \in {a} : InFlight(x)'
      BY <2>4, <2>6 DEF InFlight
    <2>8. net' \subseteq net \cup {a}
      BY <2>1, SentSub
    <2>9. cli # "off" /\ sess /\ ~ ghost /\ own /\ ~ skewed' =>
            Fits(ckcp', skcp') /\ Fits(skcp', ckcp')
      <3>1. InFlight(m) => m.sn < skcp.snd
        BY <1>4 DEF InFlight
      <3>2. QED
        BY <1>1, <1>3, <1>4, <2>1, <2>5, <3>1, ReceivedFits
    <2>10. PICK x : x = a
      OBVIOUS
    <2>11. {x} \in SUBSET Datagrams /\ net' \subseteq net \cup {x} /\ \A y \in {x} : y.kind \in Segments
      BY <2>4, <2>8, <2>10 DEF Segments
    <2>12. \A y \in {x} : InFlight(y)'
      BY <2>7, <2>10
    <2>13. QED
      BY <1>1, <1>2, <2>2, <2>5, <2>9, <2>11, <2>12, StreamStep
  <1>5. CASE m.kind # "push"
    <2>1. ckcp' = Acked(ckcp, m.sn, m.una) /\ net' = flying
      BY <1>5 DEF CliHandle, Segments
    <2>2. /\ ckcp' \in KcpObject(CliMsgs, SrvMsgs)
          /\ ckcp'.snd = ckcp.snd /\ ckcp'.rcv = ckcp.rcv /\ Has(ckcp') = Has(ckcp)
      BY <1>1, <2>1, AckedFacts
    <2>3. ckcp.snd \in Nat /\ ckcp.rcv \in Nat /\ skcp.snd \in Nat /\ skcp.rcv \in Nat
      BY <1>1 DEF KcpObject
    <2>4. Grows(ckcp, ckcp') /\ Grows(skcp, skcp') /\ skcp' = skcp
      BY <1>2, <2>2, <2>3 DEF Grows
    <2>5. cli # "off" /\ sess /\ ~ ghost /\ own /\ ~ skewed' =>
            Fits(ckcp', skcp') /\ Fits(skcp', ckcp')
      <3>1. InFlight(m) => m.sn \in Has(skcp) /\ m.una <= skcp.rcv
        BY <1>5 DEF InFlight, Segments
      <3>2. QED
        BY <1>1, <1>3, <2>1, <2>4, <3>1, AckedFits
    <2>6. {} \in SUBSET Datagrams /\ net' \subseteq net \cup {}
      BY <2>1
    <2>7. QED
      BY <1>1, <1>2, <2>2, <2>4, <2>5, <2>6, StreamStep
  <1>6. QED
    BY <1>4, <1>5

\* A datagram is received by the client.
LEMMA CliReceivesStep ==
  ASSUME KcpAssumption, KcpIInv, NEW m \in net, CliReceives(m)
  PROVE  KcpIInv'
  <1>1. PICK flying \in {net, net \ {m}} :
          IF cli = "syn" THEN CliAnswered(m, flying) ELSE CliHandle(m, flying)
    BY DEF CliReceives
  <1>2. /\ flying \in SUBSET net /\ flying \in SUBSET Datagrams /\ sendFin \in BOOLEAN
        /\ asking \in BOOLEAN
        /\ cli \in {"syn", "up"} /\ m.to = "cli" /\ UNCHANGED <<listening, sessVars>>
    BY DEF CliReceives, KcpIInv, KcpTypeOK
  <1>3. CASE cli = "syn" /\ CliOver(sendFin, flying)
    BY <1>2, <1>3, CliOverStep
  <1>4. CASE cli = "syn" /\ ~ CliOver(sendFin, flying)
    <2>1. /\ m.kind = "synack" /\ ~ m.stale
          /\ cli' = "up" /\ asking' \in BOOLEAN /\ sendFin' = TRUE /\ ckcp' = NewKcp
          /\ net' = flying /\ UNCHANGED <<own, skewed>>
      BY <1>1, <1>2, <1>4 DEF CliAnswered
    <2>2. net' \subseteq net
      BY <1>2, <2>1
    <2>3. QED
      BY <1>2, <1>4, <2>1, <2>2, UpStep
  <1>5. CASE cli = "up" /\ m.kind \in Segments
    BY <1>1, <1>2, <1>5, CliSegmentStep
  <1>6. CASE cli = "up" /\ m.kind \notin Segments
    <2>1. CASE m.kind = "fin"
      <3>1. CliOver(FALSE, flying)
        BY <1>1, <1>6, <2>1 DEF CliHandle, Segments
      <3>2. QED
        BY <1>2, <3>1, CliOverStep
    <2>2. CASE m.kind # "fin"
      <3>1. net' = flying /\ UNCHANGED <<cliVars, own, skewed>>
        BY <1>1, <1>6, <2>2 DEF CliHandle
      <3>2. QED
        BY <1>2, <3>1, NetStep DEF cliVars, KcpIInv, KcpTypeOK
    <2>3. QED
      BY <2>1, <2>2
  <1>7. QED
    BY <1>2, <1>3, <1>4, <1>5, <1>6

\* The client's application sends.
LEMMA CliSendsStep == ASSUME KcpAssumption, KcpIInv, CliSends PROVE KcpIInv'
  <1>1. /\ cli = "up" /\ ckcp.snd < CliMsgs /\ ckcp' = Queued(ckcp)
        /\ UNCHANGED <<listening, cli, asking, sendFin, sess, ghost, first, skcp, net, own, skewed>>
        /\ ckcp \in KcpObject(CliMsgs, SrvMsgs) /\ skcp \in KcpObject(SrvMsgs, CliMsgs)
        /\ skewed \in BOOLEAN /\ SrvMsgs \in Nat /\ CliMsgs \in Nat
    BY DEF CliSends, sessVars, KcpIInv, KcpTypeOK, KcpAssumption
  <1>2. /\ ckcp' \in KcpObject(CliMsgs, SrvMsgs)
        /\ ckcp'.snd = ckcp.snd + 1 /\ ckcp'.rcv = ckcp.rcv /\ Has(ckcp') = Has(ckcp)
    BY <1>1, QueuedFacts
  <1>3. ckcp.snd \in Nat /\ ckcp.rcv \in Nat /\ skcp.snd \in Nat /\ skcp.rcv \in Nat
    BY <1>1 DEF KcpObject
  <1>4. Grows(ckcp, ckcp') /\ Grows(skcp, skcp') /\ skcp' = skcp
    BY <1>1, <1>2, <1>3 DEF Grows
  <1>5. cli # "off" /\ sess /\ ~ ghost /\ own /\ ~ skewed' =>
          Fits(ckcp', skcp') /\ Fits(skcp', ckcp')
    <2>1. cli # "off" /\ sess /\ ~ ghost /\ own /\ ~ skewed' => Fits(ckcp, skcp) /\ Fits(skcp, ckcp)
      BY <1>1 DEF KcpIInv, Steady
    <2>2. QED
      BY <1>1, <2>1, QueuedFits
  <1>6. {} \in SUBSET Datagrams /\ net' \subseteq net \cup {}
    BY <1>1
  <1>7. QED
    BY <1>1, <1>2, <1>4, <1>5, <1>6, StreamStep

\* The client transmits a message, or finds the link dead.
LEMMA CliFlushStep ==
  ASSUME KcpAssumption, KcpIInv, NEW s \in DOMAIN ckcp.buf, CliFlush(s)
  PROVE  KcpIInv'
  <1> DEFINE p == Push("srv", s)
             times == Counted(ckcp.buf[s])
  <1>1. /\ cli = "up" /\ UNCHANGED <<listening, sessVars>>
        /\ UNCHANGED <<listening, sess, ghost, first, skcp>>
        /\ ckcp \in KcpObject(CliMsgs, SrvMsgs) /\ skcp \in KcpObject(SrvMsgs, CliMsgs)
        /\ skewed \in BOOLEAN /\ SrvMsgs \in Nat /\ CliMsgs \in Nat /\ sendFin \in BOOLEAN
        /\ net \subseteq Datagrams
    BY DEF CliFlush, sessVars, KcpIInv, KcpTypeOK, KcpAssumption
  <1>2. s \in Nat /\ s < ckcp.snd /\ s < CliMsgs
    BY <1>1 DEF KcpObject
  <1>3. p \in Datagrams /\ p.kind = "push" /\ p.to = "srv" /\ p.sn = s
    BY <1>2, Pushes DEF Push
  <1>4. IF Dead(times) THEN CliOver(sendFin, Sent(net, {p}))
        ELSE /\ ckcp' = [ckcp EXCEPT !.buf[s] = times]
             /\ net' = Sent(net, {p})
             /\ UNCHANGED <<cli, asking, sendFin, own, skewed>>
    BY DEF CliFlush
  <1> HIDE DEF p
  <1>5. Sent(net, {p}) \subseteq net \cup {p} /\ Sent(net, {p}) \in SUBSET Datagrams
    BY <1>1, <1>3, SentSub
  <1>6. CASE Dead(times)
    BY <1>1, <1>4, <1>5, <1>6, CliOverStep
  <1>7. CASE ~ Dead(times)
    <2>1. /\ ckcp' = [ckcp EXCEPT !.buf[s] = Counted(ckcp.buf[s])]
          /\ net' = Sent(net, {p})
          /\ UNCHANGED <<cli, asking, sendFin, own, skewed>>
      BY <1>4, <1>7
    <2>2. /\ ckcp' \in KcpObject(CliMsgs, SrvMsgs)
          /\ ckcp'.snd = ckcp.snd /\ ckcp'.rcv = ckcp.rcv /\ Has(ckcp') = Has(ckcp)
          /\ DOMAIN ckcp'.buf = DOMAIN ckcp.buf
      BY <1>1, <2>1, FlushedFacts
    <2>3. ckcp.snd \in Nat /\ ckcp.rcv \in Nat /\ skcp.snd \in Nat /\ skcp.rcv \in Nat
      BY <1>1 DEF KcpObject
    <2>4. Grows(ckcp, ckcp') /\ Grows(skcp, skcp') /\ skcp' = skcp
      BY <1>1, <2>2, <2>3 DEF Grows
    <2>5. InFlight(p)'
      BY <1>2, <1>3, <2>2 DEF InFlight
    <2>6. cli # "off" /\ sess /\ ~ ghost /\ own /\ ~ skewed' =>
            Fits(ckcp', skcp') /\ Fits(skcp', ckcp')
      BY <2>1, <2>2, <2>4 DEF KcpIInv, Steady, Fits
    <2>7. QED
      BY <1>1, <1>3, <1>5, <2>1, <2>2, <2>4, <2>5, <2>6, StreamStep DEF Segments
  <1>8. QED
    BY <1>6, <1>7

-----------------------------------------------------------------------------
(***************************************************************************)
(* The server's part                                                       *)
(***************************************************************************)

\* With the session over nothing is claimed of the streams.
LEMMA SessOverStep ==
  ASSUME KcpAssumption, KcpIInv, NEW fin \in BOOLEAN, NEW flying \in SUBSET Datagrams,
         SessOver(fin, flying), listening' \in BOOLEAN, UNCHANGED cliVars
  PROVE  KcpIInv'
  <1>1. net' \subseteq Datagrams
    <2> DEFINE new == IF fin THEN {Datagram("cli", "fin", FALSE)} ELSE {}
    <2>1. Datagram("cli", "fin", FALSE) \in Datagrams
      BY Handshakes
    <2>2. net' = Sent(flying, new)
      BY Zenon DEF SessOver
    <2>3. new \subseteq Datagrams
      BY <2>1
    <2> HIDE DEF new
    <2>4. QED
      BY <2>2, <2>3, SentSub
  <1>2. /\ sess' = FALSE /\ ghost' = FALSE /\ first' = None /\ skcp' = NewKcp /\ own' = FALSE
        /\ UNCHANGED <<cli, asking, sendFin, ckcp, skewed>>
    BY DEF SessOver, cliVars
  <1>3. KcpTypeOK'
    BY <1>1, <1>2, NewKcpType DEF KcpIInv, KcpTypeOK, KcpAssumption
  <1>4. Fresh' /\ FirstGhost' /\ Asked' /\ Ours' /\ Steady'
    BY <1>2 DEF KcpIInv, Fresh, FirstGhost, Asked, Ours, Steady
  <1>5. QED
    BY <1>3, <1>4 DEF KcpIInv

\* A syn makes the session's streams the client's, or leaves them out of step.
LEMMA StreamsBeginStep ==
  ASSUME KcpAssumption, KcpIInv, NEW m \in Datagrams, m.kind = "syn", StreamsBegin(m),
         NEW flying \in SUBSET Datagrams, net' = Sent(Old(flying, Segments), {Synack(m)}),
         sess' \in BOOLEAN, ghost' \in BOOLEAN, first' = m \/ first' = None,
         UNCHANGED <<listening, cli, asking, sendFin, ckcp>>
  PROVE  KcpIInv'
  <1>1. m.stale \in BOOLEAN
    BY DEF Datagrams
  <1>2. Synack(m) \in Datagrams /\ Synack(m).kind = "synack"
    BY <1>1, Handshakes DEF Synack
  <1>3. /\ Old(flying, Segments) \subseteq Datagrams
        /\ \A x \in Old(flying, Segments) : x.kind \in Segments => x.stale
    BY OldFacts
  <1>4. net' \subseteq Old(flying, Segments) \cup {Synack(m)}
    BY SentSub
  <1>5. /\ net' \subseteq Datagrams
        /\ \A x \in net' : x.kind \in Segments => x.stale
    BY <1>2, <1>3, <1>4 DEF Segments
  <1>6. /\ own' = ~ m.stale /\ skcp' = NewKcp
        /\ skewed' = \/ m.stale /\ cli # "off"
                     \/ ~ Unused(ckcp)
                     \/ own /\ skcp.snd > 0
    BY DEF StreamsBegin, Reset
  <1>7. KcpTypeOK'
    <2>1. own' \in BOOLEAN /\ skewed' \in BOOLEAN
      BY <1>1, <1>6, Zenon
    <2>2. skcp' \in KcpObject(SrvMsgs, CliMsgs)
      BY <1>6, NewKcpType DEF KcpAssumption
    <2>3. QED
      BY <1>5, <2>1, <2>2 DEF KcpIInv, KcpTypeOK
  <1>8. Fresh' /\ FirstGhost' /\ Asked' /\ Ours'
    BY <1>6 DEF KcpIInv, Fresh, FirstGhost, Asked, Ours, Segments
  <1>9. Steady'
    <2> SUFFICES ASSUME ~ skewed'
                 PROVE  /\ Fits(ckcp', skcp') /\ Fits(skcp', ckcp')
                        /\ \A x \in net' : ~ x.stale => InFlight(x)'
      BY DEF Steady
    <2>1. ckcp' = ckcp /\ ckcp.snd = 0 /\ ckcp.rcv = 0 /\ ckcp.held = {}
      BY <1>6 DEF Unused
    <2>2. skcp'.snd = 0 /\ skcp'.rcv = 0 /\ skcp'.held = {}
      BY <1>6 DEF NewKcp
    <2>3. Fits(ckcp', skcp') /\ Fits(skcp', ckcp')
      BY <2>1, <2>2 DEF Fits, Has
    <2>4. \A x \in net' : ~ x.stale => InFlight(x)'
      BY <1>5 DEF InFlight, Segments
    <2>5. QED
      BY <2>3, <2>4
  <1>10. QED
    BY <1>7, <1>8, <1>9 DEF KcpIInv

\* The first datagram of an endpoint makes a session.
LEMMA MakeSessionStep ==
  ASSUME KcpAssumption, KcpIInv, NEW m \in Datagrams, NEW flying \in SUBSET Datagrams,
         MakeSession(m, flying), UNCHANGED <<listening, cliVars>>
  PROVE  KcpIInv'
  <1>1. /\ sess' = TRUE /\ ghost' = (m.kind # "syn") /\ first' = m
        /\ UNCHANGED <<listening, cli, asking, sendFin, ckcp>>
    BY DEF MakeSession, cliVars
  <1>2. CASE m.kind = "syn"
    <2>1. StreamsBegin(m) /\ net' = Sent(Old(flying, Segments), {Synack(m)})
      BY <1>2 DEF MakeSession
    <2>2. QED
      BY <1>1, <1>2, <2>1, StreamsBeginStep
  <1>3. CASE m.kind # "syn"
    <2> DEFINE a == Datagram("cli", "synack", TRUE)
    <2>1. skcp' = NewKcp /\ net' = Sent(flying, {a}) /\ UNCHANGED <<own, skewed>>
      BY <1>3 DEF MakeSession
    <2>2. a \in Datagrams
      BY Handshakes
    <2> HIDE DEF a
    <2>3. net' \subseteq Datagrams
      BY <2>1, <2>2, SentSub
    <2>4. KcpTypeOK'
      BY <1>1, <2>1, <2>3, NewKcpType DEF KcpIInv, KcpTypeOK, KcpAssumption
    <2>5. Fresh' /\ FirstGhost' /\ Asked' /\ Ours' /\ Steady'
      BY <1>1, <1>3 DEF KcpIInv, Fresh, FirstGhost, Asked, Ours, Steady
    <2>6. QED
      BY <2>4, <2>5 DEF KcpIInv
  <1>4. QED
    BY <1>2, <1>3

\* A segment is handed to the session's kcp object.
LEMMA SessSegmentStep ==
  ASSUME KcpAssumption, KcpIInv, ~ ghost,
         NEW m \in net, m.to = "srv", m.kind \in Segments,
         NEW flying \in SUBSET net, SessSegment(m, flying), UNCHANGED <<listening, cliVars>>
  PROVE  KcpIInv'
  <1>1. /\ m \in Datagrams /\ m.sn \in Nat /\ m.una \in Nat /\ m.stale \in BOOLEAN
        /\ m.kind = "push" => m.sn \in 0 .. CliMsgs - 1
        /\ ckcp \in KcpObject(CliMsgs, SrvMsgs) /\ skcp \in KcpObject(SrvMsgs, CliMsgs)
        /\ skewed \in BOOLEAN /\ SrvMsgs \in Nat /\ CliMsgs \in Nat
    BY DEF KcpIInv, KcpTypeOK, Datagrams, KcpAssumption
  <1>2. /\ UNCHANGED <<listening, cli, asking, sendFin, sess, ghost, own, ckcp>>
        /\ first' = None /\ skewed' = (skewed \/ (m.stale /\ cli # "off"))
        /\ skewed' \in BOOLEAN
    BY <1>1, Zenon DEF SessSegment, cliVars
  <1>3. cli # "off" /\ sess /\ ~ ghost /\ own /\ ~ skewed' =>
          Fits(ckcp, skcp) /\ Fits(skcp, ckcp) /\ InFlight(m)
    BY <1>2 DEF KcpIInv, Steady
  <1>4. ckcp.snd \in Nat /\ ckcp.rcv \in Nat /\ skcp.snd \in Nat /\ skcp.rcv \in Nat
    BY <1>1 DEF KcpObject
  <1>5. Grows(ckcp, ckcp') /\ ckcp' = ckcp
    BY <1>2, <1>4 DEF Grows
  <1>6. CASE m.kind = "push"
    <2> DEFINE a == Ack("cli", m.sn, skcp'.rcv)
    <2>1. skcp' = Received(skcp, m.sn) /\ net' = Sent(flying, {a})
      BY <1>6 DEF SessSegment
    <2>2. /\ skcp' \in KcpObject(SrvMsgs, CliMsgs)
          /\ skcp'.snd = skcp.snd /\ Has(skcp') = Has(skcp) \cup {m.sn}
          /\ skcp'.rcv >= skcp.rcv
      BY <1>1, <1>6, <2>1, ReceivedFacts
    <2>3. skcp'.rcv \in Nat
      BY <1>1, <2>2 DEF KcpObject
    <2>4. Grows(skcp, skcp')
      BY <1>4, <2>2, <2>3 DEF Grows
    <2>5. a \in Datagrams /\ a.kind = "ack" /\ a.to = "cli" /\ a.sn = m.sn /\ a.una = skcp'.rcv
      BY <1>1, <2>3, Acks DEF Ack
    <2>6. a.sn \in Has(skcp') /\ a.una <= skcp'.rcv
      BY <2>2, <2>3, <2>5
    <2> HIDE DEF a
    <2>7. PICK x : x = a
      OBVIOUS
    <2>8. \A y \in {x} : InFlight(y)'
      BY <2>5, <2>6, <2>7 DEF InFlight
    <2>9. net' \subseteq net \cup {a}
      BY <2>1, SentSub
    <2>10. {x} \in SUBSET Datagrams /\ net' \subseteq net \cup {x} /\ \A y \in {x} : y.kind \in Segments
      BY <2>5, <2>7, <2>9 DEF Segments
    <2>11. cli # "off" /\ sess /\ ~ ghost /\ own /\ ~ skewed' =>
             Fits(ckcp', skcp') /\ Fits(skcp', ckcp')
      <3>1. InFlight(m) => m.sn < ckcp.snd
        BY <1>6 DEF InFlight
      <3>2. QED
        BY <1>1, <1>3, <1>5, <1>6, <2>1, <3>1, ReceivedFits
    <2>12. QED
      BY <1>1, <1>2, <1>5, <2>2, <2>4, <2>8, <2>10, <2>11, StreamStep
  <1>7. CASE m.kind # "push"
    <2>1. skcp' = Acked(skcp, m.sn, m.una) /\ net' = flying
      BY <1>7 DEF SessSegment
    <2>2. /\ skcp' \in KcpObject(SrvMsgs, CliMsgs)
          /\ skcp'.snd = skcp.snd /\ skcp'.rcv = skcp.rcv /\ Has(skcp') = Has(skcp)
      BY <1>1, <2>1, AckedFacts
    <2>3. Grows(skcp, skcp')
      BY <1>4, <2>2 DEF Grows
    <2>4. cli # "off" /\ sess /\ ~ ghost /\ own /\ ~ skewed' =>
            Fits(ckcp', skcp') /\ Fits(skcp', ckcp')
      <3>1. InFlight(m) => m.sn \in Has(ckcp) /\ m.una <= ckcp.rcv
        BY <1>7 DEF InFlight, Segments
      <3>2. QED
        BY <1>1, <1>3, <1>5, <2>1, <3>1, AckedFits
    <2>5. {} \in SUBSET Datagrams /\ net' \subseteq net \cup {}
      BY <2>1
    <2>6. QED
      BY <1>1, <1>2, <1>5, <2>2, <2>3, <2>4, <2>5, StreamStep
  <1>8. QED
    BY <1>6, <1>7

\* The session handles a datagram that was in flight, or the first one once more.
LEMMA SessHandleStep ==
  ASSUME KcpAssumption, KcpIInv, NEW m \in Datagrams, NEW flying \in SUBSET net,
         (m \in net /\ m.to = "srv") \/ (m.kind \in Segments => ghost),
         SessHandle(m, flying), UNCHANGED <<listening, cliVars>>
  PROVE  KcpIInv'
  <1>1. /\ flying \in SUBSET Datagrams /\ listening \in BOOLEAN
        /\ sess \in BOOLEAN /\ ghost \in BOOLEAN
    BY DEF KcpIInv, KcpTypeOK
  <1>2. CASE m.kind = "syn"
    <2>1. /\ StreamsBegin(m) /\ net' = Sent(Old(flying, Segments), {Synack(m)})
          /\ UNCHANGED <<sess, ghost>> /\ first' = None
      BY <1>2 DEF SessHandle, Segments
    <2>2. QED
      BY <1>1, <1>2, <2>1, StreamsBeginStep DEF cliVars
  <1>3. CASE m.kind = "fin"
    <2>1. SessOver(FALSE, flying)
      BY <1>3 DEF SessHandle, Segments
    <2>2. QED
      BY <1>1, <2>1, SessOverStep
  <1>4. CASE m.kind \in Segments /\ ghost
    <2>1. SessOver(TRUE, flying)
      BY <1>4 DEF SessHandle, Segments
    <2>2. QED
      BY <1>1, <2>1, SessOverStep
  <1>5. CASE m.kind \in Segments /\ ~ ghost
    <2>1. SessSegment(m, flying) /\ m \in net /\ m.to = "srv"
      BY <1>5 DEF SessHandle, Segments
    <2>2. QED
      BY <1>5, <2>1, SessSegmentStep
  <1>6. QED
    BY <1>2, <1>3, <1>4, <1>5 DEF SessHandle

\* The acceptor receives a datagram.
LEMMA SrvReceivesStep ==
  ASSUME KcpAssumption, KcpIInv, NEW m \in net, SrvReceives(m)
  PROVE  KcpIInv'
  <1>1. PICK flying \in {net, net \ {m}} :
          IF sess THEN SessHandle(m, flying) ELSE MakeSession(m, flying)
    BY DEF SrvReceives
  <1>2. /\ flying \in SUBSET net /\ flying \in SUBSET Datagrams /\ m \in Datagrams
        /\ m.to = "srv" /\ UNCHANGED <<listening, cliVars>>
    BY DEF SrvReceives, KcpIInv, KcpTypeOK
  <1>3. CASE sess
    BY <1>1, <1>2, <1>3, SessHandleStep
  <1>4. CASE ~ sess
    BY <1>1, <1>2, <1>4, MakeSessionStep
  <1>5. QED
    BY <1>3, <1>4

\* The session handles the first datagram a second time.
LEMMA ReplayStep == ASSUME KcpAssumption, KcpIInv, Replay PROVE KcpIInv'
  <1>1. first \in Datagrams /\ (first.kind \in Segments => ghost)
    BY DEF Replay, KcpIInv, KcpTypeOK, FirstGhost
  <1>2. SessHandle(first, net) /\ UNCHANGED <<listening, cliVars>> /\ net \in SUBSET net
    BY DEF Replay
  <1>3. QED
    BY <1>1, <1>2, SessHandleStep

\* The session's application sends.
LEMMA SrvSendsStep == ASSUME KcpAssumption, KcpIInv, SrvSends PROVE KcpIInv'
  <1>1. /\ skcp.snd < SrvMsgs /\ skcp' = Queued(skcp)
        /\ UNCHANGED <<listening, cli, asking, sendFin, sess, ghost, first, ckcp, net, own, skewed>>
        /\ ckcp \in KcpObject(CliMsgs, SrvMsgs) /\ skcp \in KcpObject(SrvMsgs, CliMsgs)
        /\ skewed \in BOOLEAN /\ SrvMsgs \in Nat /\ CliMsgs \in Nat
    BY DEF SrvSends, cliVars, KcpIInv, KcpTypeOK, KcpAssumption
  <1>2. /\ skcp' \in KcpObject(SrvMsgs, CliMsgs)
        /\ skcp'.snd = skcp.snd + 1 /\ skcp'.rcv = skcp.rcv /\ Has(skcp') = Has(skcp)
    BY <1>1, QueuedFacts
  <1>3. ckcp.snd \in Nat /\ ckcp.rcv \in Nat /\ skcp.snd \in Nat /\ skcp.rcv \in Nat
    BY <1>1 DEF KcpObject
  <1>4. Grows(ckcp, ckcp') /\ Grows(skcp, skcp') /\ ckcp' = ckcp
    BY <1>1, <1>2, <1>3 DEF Grows
  <1>5. cli # "off" /\ sess /\ ~ ghost /\ own /\ ~ skewed' =>
          Fits(ckcp', skcp') /\ Fits(skcp', ckcp')
    <2>1. cli # "off" /\ sess /\ ~ ghost /\ own /\ ~ skewed' => Fits(ckcp, skcp) /\ Fits(skcp, ckcp)
      BY <1>1 DEF KcpIInv, Steady
    <2>2. QED
      BY <1>1, <2>1, QueuedFits
  <1>6. {} \in SUBSET Datagrams /\ net' \subseteq net \cup {}
    BY <1>1
  <1>7. QED
    BY <1>1, <1>2, <1>4, <1>5, <1>6, StreamStep

\* The session transmits a message, or finds the link dead.
LEMMA SrvFlushStep ==
  ASSUME KcpAssumption, KcpIInv, NEW s \in DOMAIN skcp.buf, SrvFlush(s)
  PROVE  KcpIInv'
  <1> DEFINE p == Push("cli", s)
             times == Counted(skcp.buf[s])
  <1>1. /\ UNCHANGED <<listening, cliVars>> /\ UNCHANGED <<listening, cli, asking, sendFin, ckcp>>
        /\ ckcp \in KcpObject(CliMsgs, SrvMsgs) /\ skcp \in KcpObject(SrvMsgs, CliMsgs)
        /\ skewed \in BOOLEAN /\ SrvMsgs \in Nat /\ CliMsgs \in Nat /\ listening \in BOOLEAN
        /\ net \subseteq Datagrams
    BY DEF SrvFlush, cliVars, KcpIInv, KcpTypeOK, KcpAssumption
  <1>2. s \in Nat /\ s < skcp.snd /\ s < SrvMsgs
    BY <1>1 DEF KcpObject
  <1>3. p \in Datagrams /\ p.kind = "push" /\ p.to = "cli" /\ p.sn = s
    BY <1>2, Pushes DEF Push
  <1>4. IF Dead(times) THEN SessOver(TRUE, Sent(net, {p}))
        ELSE /\ skcp' = [skcp EXCEPT !.buf[s] = times]
             /\ net' = Sent(net, {p})
             /\ UNCHANGED <<sess, ghost, first, own, skewed>>
    BY DEF SrvFlush
  <1> HIDE DEF p
  <1>5. Sent(net, {p}) \subseteq net \cup {p} /\ Sent(net, {p}) \in SUBSET Datagrams
    BY <1>1, <1>3, SentSub
  <1>6. CASE Dead(times)
    BY <1>1, <1>4, <1>5, <1>6, SessOverStep
  <1>7. CASE ~ Dead(times)
    <2>1. /\ skcp' = [skcp EXCEPT !.buf[s] = Counted(skcp.buf[s])]
          /\ net' = Sent(net, {p})
          /\ UNCHANGED <<sess, ghost, first, own, skewed>>
      BY <1>4, <1>7
    <2>2. /\ skcp' \in KcpObject(SrvMsgs, CliMsgs)
          /\ skcp'.snd = skcp.snd /\ skcp'.rcv = skcp.rcv /\ Has(skcp') = Has(skcp)
          /\ DOMAIN skcp'.buf = DOMAIN skcp.buf
      BY <1>1, <2>1, FlushedFacts
    <2>3. ckcp.snd \in Nat /\ ckcp.rcv \in Nat /\ skcp.snd \in Nat /\ skcp.rcv \in Nat
      BY <1>1 DEF KcpObject
    <2>4. Grows(ckcp, ckcp') /\ Grows(skcp, skcp') /\ ckcp' = ckcp
      BY <1>1, <2>2, <2>3 DEF Grows
    <2>5. InFlight(p)'
      BY <1>2, <1>3, <2>2 DEF InFlight
    <2>6. cli # "off" /\ sess /\ ~ ghost /\ own /\ ~ skewed' =>
            Fits(ckcp', skcp') /\ Fits(skcp', ckcp')
      BY <2>1, <2>2, <2>4 DEF KcpIInv, Steady, Fits
    <2>7. QED
      BY <1>1, <1>3, <1>5, <2>1, <2>2, <2>4, <2>5, <2>6, StreamStep DEF Segments
  <1>8. QED
    BY <1>6, <1>7

-----------------------------------------------------------------------------
(***************************************************************************)
(* The theorems                                                            *)
(***************************************************************************)

\* Every step keeps the invariant.
LEMMA KcpStep == ASSUME KcpAssumption, KcpIInv, [KcpNext]_kcpVars PROVE KcpIInv'
  <1>1. /\ sendFin \in BOOLEAN /\ net \in SUBSET Datagrams /\ listening \in BOOLEAN
        /\ asking \in BOOLEAN
    BY DEF KcpIInv, KcpTypeOK
  <1>2. CASE Connect
    BY <1>2, ConnectStep
  <1>3. CASE ResendSyn
    <2>1. AskAgain = {Syn}
      BY DEF AskAgain
    <2>2. net' \subseteq net \cup {Syn}
      BY <1>3, <2>1, SentSub DEF ResendSyn
    <2>3. QED
      BY <1>1, <1>3, <2>2, NetStep DEF ResendSyn, cliVars
  <1>4. CASE ResendFails
    BY <1>1, <1>4, NetStep DEF ResendFails
  <1>5. CASE CliSends
    BY <1>5, CliSendsStep
  <1>6. CASE CliStops
    BY <1>1, <1>6, CliOverStep DEF CliStops
  <1>7. CASE Replay
    BY <1>7, ReplayStep
  <1>8. CASE SrvSends
    BY <1>8, SrvSendsStep
  <1>9. CASE SrvStopsSession
    BY <1>1, <1>9, SessOverStep DEF SrvStopsSession
  <1>10. CASE SrvStops
    BY <1>1, <1>10, SessOverStep DEF SrvStops
  <1>11. CASE SrvStarts
    BY <1>11, NetStep DEF SrvStarts, cliVars, KcpIInv, KcpTypeOK
  <1>12. ASSUME NEW s \in DOMAIN ckcp.buf, CliFlush(s) PROVE KcpIInv'
    BY <1>12, CliFlushStep
  <1>13. ASSUME NEW s \in DOMAIN skcp.buf, SrvFlush(s) PROVE KcpIInv'
    BY <1>13, SrvFlushStep
  <1>14. ASSUME NEW m \in net, CliReceives(m) PROVE KcpIInv'
    BY <1>14, CliReceivesStep
  <1>15. ASSUME NEW m \in net, SrvReceives(m) PROVE KcpIInv'
    BY <1>15, SrvReceivesStep
  <1>16. ASSUME NEW m \in net, Lose(m) PROVE KcpIInv'
    BY <1>1, <1>16, NetStep DEF Lose, cliVars
  <1>17. CASE UNCHANGED kcpVars
    BY <1>1, <1>17, NetStep DEF kcpVars, cliVars, sessVars
  <1>18. QED
    BY <1>2, <1>3, <1>4, <1>5, <1>6, <1>7, <1>8, <1>9, <1>10, <1>11, <1>12, <1>13, <1>14,
       <1>15, <1>16, <1>17 DEF KcpNext

\* The invariant holds in every reachable state.
LEMMA KcpInvariant == KcpSpec => []KcpIInv
  <1>1. KcpAssumption
    BY KcpAssumption
  <1>2. KcpInit => KcpIInv
    BY <1>1, KcpInitIInv
  <1>3. KcpIInv /\ [KcpNext]_kcpVars => KcpIInv'
    BY <1>1, KcpStep
  <1>4. QED
    BY <1>2, <1>3, PTL DEF KcpSpec

\* The ends and what is in flight between them are always of their types: no message
\* is acknowledged, held or handed on that is beyond what its sender may send.
THEOREM KcpTypes == KcpSpec => []KcpTypeOK
  <1>1. KcpIInv => KcpTypeOK
    BY DEF KcpIInv
  <1>2. QED
    BY <1>1, KcpInvariant, PTL

\* For any number of messages and datagrams, loss, doubling and reordering: a connected
\* client and the session made by its syn are given nothing the other did not send, and
\* nothing is acknowledged that has not arrived, as long as the streams of the session
\* began once, before either end used them, and no segment came from before.
THEOREM StreamsInStep == KcpSpec => []InStep
  <1>1. ASSUME KcpIInv PROVE InStep
    <2> SUFFICES ASSUME cli = "up", sess, ~ ghost, ~ skewed
                 PROVE  Flows(ckcp, skcp) /\ Flows(skcp, ckcp)
      BY DEF InStep
    <2>1. Fits(ckcp, skcp) /\ Fits(skcp, ckcp)
      BY <1>1 DEF KcpIInv, Ours, Steady
    <2>2. ckcp.snd \in Nat /\ ckcp.rcv \in Nat /\ skcp.snd \in Nat /\ skcp.rcv \in Nat
      BY <1>1 DEF KcpIInv, KcpTypeOK, KcpObject, KcpAssumption
    <2>3. 0 .. skcp.rcv - 1 \subseteq 0 .. ckcp.snd - 1 /\ 0 .. ckcp.rcv - 1 \subseteq 0 .. skcp.snd - 1
      BY <2>1 DEF Fits, Has
    <2>4. skcp.rcv <= ckcp.snd /\ ckcp.rcv <= skcp.snd
      <3>1. skcp.rcv = 0 \/ skcp.rcv - 1 \in 0 .. skcp.rcv - 1
        BY <2>2
      <3>2. ckcp.rcv = 0 \/ ckcp.rcv - 1 \in 0 .. ckcp.rcv - 1
        BY <2>2
      <3>3. QED
        BY <2>2, <2>3, <3>1, <3>2
    <2>5. QED
      BY <2>1, <2>4 DEF Flows, Fits, Has
  <1>2. QED
    BY <1>1, KcpInvariant, PTL
=============================================================================
