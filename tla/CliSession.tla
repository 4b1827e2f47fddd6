------------------------------ MODULE CliSession ------------------------------
(***************************************************************************)
(* A tcp client session (bnet/base/csession.hpp), its send queue           *)
(* (bnet/base/queue.hpp) and its two loops (bnet/base/transfer.hpp):       *)
(* connecting, stopping, reconnecting, and what becomes of the messages.   *)
(*                                                                         *)
(* All its coroutines (fibers) run on the thread of its io_context. For a  *)
(* binary stream without a protocol co_stop does not suspend before its    *)
(* reconnect, nor co_start after its connect: each is one step here, from  *)
(* one suspension to the next.                                             *)
(*                                                                         *)
(* co_reconnect runs inside the co_stop of whichever fiber brought the     *)
(* connection down; that fiber is then the one that sleeps, connects and,  *)
(* when an attempt fails, tries again, one call deeper. When the chain     *)
(* ends, it returns to where the fiber was: out of recv_t, but back into   *)
(* the loop of send_t.                                                     *)
(***************************************************************************)
EXTENDS Integers, Sequences, FiniteSets

CONSTANTS
  IsReconn,      \* cli_cfg::is_reconn
  RetryNum,      \* cli_cfg::retry_num
  PlainStop,     \* the calls of stop(), which pass no error
  ErrorStop,     \* the calls of stop(ec) with an error
  MaxConn,       \* bound on the connections made
  MaxMsg         \* bound on the messages sent

ASSUME CliAssumption ==
  /\ IsReconn \in BOOLEAN
  /\ RetryNum \in Nat /\ MaxConn \in Nat /\ MaxMsg \in Nat
  /\ PlainStop \cap ErrorStop = {}

VARIABLES
  state,         \* csession::state_ ("stopping" is never left across a step)
  socketOpen,    \* the socket is open
  registered,    \* session_mgr::sessions_ holds the session
  is_canceled,   \* buffer_queue::is_canceled_
  reconn_num,    \* csession::reconn_num_
  queue,         \* buffer_queue::queue_; messages are numbered as they are sent
  sent,          \* messages enqueued so far
  wire,          \* messages written, in the order their writes completed
  corrupt,       \* pop_front was called on an empty deque
  pc,            \* where each fiber is
  opened,        \* calls of event::connect
  closed,        \* calls of event::disconnect for a connection
  failed,        \* consecutive calls of event::disconnect for an attempt
  revived,       \* send loops that went on after a reconnect they made themselves
  halted,        \* a stop() without error took the session down
  leaked         \* a socket was opened for a session that had been stopped

cliVars == <<state, socketOpen, registered, is_canceled, reconn_num, queue, sent,
             wire, corrupt, pc, opened, closed, failed, revived, halted, leaked>>

Conn == 1 .. MaxConn

\* co_start, one send_t and one recv_t per connection, one co_stop per stop.
Fiber == {<<"start", 0>>} \cup ({"send", "recv"} \X Conn)
           \cup ({"stop"} \X (PlainStop \cup ErrorStop))

\* The waits of co_reconnect and co_connect. "connectOver", like "writeOver" and
\* "readOver": the socket was closed under the operation, which is therefore over,
\* aborted or done just before; the fiber has not resumed yet.
Chain == {"sleep", "resolving", "connecting", "connectOver"}

Loc == {"idle", "posted", "writing", "writeOver", "timer", "woken", "reading",
        "readOver", "done"} \cup Chain

\* Mutant: uninit does not cancel the timer.
OverButTimer(loc) == CASE loc = "writing"    -> "writeOver"
                       [] loc = "reading"    -> "readOver"
                       [] loc = "connecting" -> "connectOver"
                       [] OTHER              -> loc

\* What the close of the socket and the cancel of the queue's timer make of a wait.
Over(loc) == CASE loc = "timer"      -> "woken"
               [] loc = "writing"    -> "writeOver"
               [] loc = "reading"    -> "readOver"
               [] loc = "connecting" -> "connectOver"
               [] OTHER              -> loc

CliInit ==
  /\ state = "stopped"
  /\ socketOpen = FALSE /\ registered = FALSE /\ is_canceled = FALSE
  /\ reconn_num = 0
  /\ queue = <<>> /\ sent = 0 /\ wire = <<>> /\ corrupt = FALSE
  /\ pc = [f \in Fiber |-> "idle"]
  /\ opened = 0 /\ closed = 0 /\ failed = 0 /\ revived = 0
  /\ halted = FALSE /\ leaked = FALSE

connVars == <<state, socketOpen, registered, is_canceled, reconn_num, opened, closed,
              failed, revived, halted, leaked>>
dataVars == <<queue, sent, wire, corrupt>>

Goto(f, loc) == pc' = [pc EXCEPT ![f] = loc]

is_started == state = "started" /\ socketOpen

IsPlainStop(f) == f[1] = "stop" /\ f[2] \in PlainStop

\* The error code co_stop is given is not zero. Mutant: it never is.
WithErrorAlways(f) == TRUE
WithError(f) == ~ IsPlainStop(f)

\* Where a fiber goes when its call of co_stop returns while the queue's cancel
\* flag is c: send_t goes on with its loop, in dequeue, the others end.
Return(f, c) == IF f[1] = "send" /\ ~ c THEN "timer" ELSE "done"

-----------------------------------------------------------------------------
(***************************************************************************)
(* co_stop and co_reconnect                                                *)
(***************************************************************************)
\* Mutant: the counter is compared before it was counted up for this attempt.
RetriesOnceMore(f) == WithError(f) /\ IsReconn /\ reconn_num <= RetryNum
Retries(f) == WithError(f) /\ IsReconn /\ reconn_num < RetryNum

\* stream_stop. Mutant: it does not close the socket.
KeepSocket == UNCHANGED socketOpen
CloseSocket == socketOpen' = FALSE

\* stopping -> stopped. Mutant: the last compare-exchange is missing.
StayStopping == state' = "stopping"
BecomeStopped == state' = "stopped"

\* co_stop of a session that is starting or started, with the beginning of
\* co_reconnect. reconn_num_ is counted up even when it says no.
Teardown(f) ==
  /\ state \in {"starting", "started"}
  /\ is_canceled' = TRUE
  /\ registered' = FALSE
  /\ CloseSocket
  /\ BecomeStopped
  /\ IF state = "started" THEN closed' = closed + 1 /\ UNCHANGED failed
                          ELSE failed' = failed + 1 /\ UNCHANGED closed
  /\ reconn_num' = IF WithError(f) /\ IsReconn THEN reconn_num + 1 ELSE reconn_num
  /\ halted' = (halted \/ IsPlainStop(f))
  /\ pc' = [g \in Fiber |->
              IF g = f THEN (IF Retries(f) THEN "sleep" ELSE Return(f, TRUE))
              ELSE Over(pc[g])]
  /\ UNCHANGED <<opened, revived, leaked>>

\* Mutant: a second caller of co_stop reconnects as well.
CoStopTwice(f) ==
  \/ Teardown(f)
  \/ /\ state = "stopped"
     /\ Goto(f, IF Retries(f) THEN "sleep" ELSE Return(f, is_canceled))
     /\ UNCHANGED connVars

CoStop(f) ==
  \/ Teardown(f)
  \/ /\ state = "stopped"
     /\ Goto(f, Return(f, is_canceled))
     /\ UNCHANGED connVars

-----------------------------------------------------------------------------
(***************************************************************************)
(* co_start                                                                *)
(***************************************************************************)

\* client::add, once for a session.
PostStart ==
  /\ pc[<<"start", 0>>] = "idle"
  /\ Goto(<<"start", 0>>, "posted")
  /\ UNCHANGED <<connVars, dataVars>>

\* Up to the resolver. A session that is not stopped is stopped: already_started.
CoStart(f) ==
  \/ /\ state = "stopped"
     /\ state' = "starting"
     /\ Goto(f, "resolving")
     /\ UNCHANGED <<socketOpen, registered, is_canceled, reconn_num, opened, closed,
                    failed, revived, halted, leaked>>
  \/ state # "stopped" /\ Teardown(f)

StartBegin(f) ==
  /\ f = <<"start", 0>>
  /\ pc[f] = "posted"
  /\ CoStart(f)
  /\ UNCHANGED dataVars

\* A fiber at one of these has a completion to run.
Ready == {"posted", "woken", "writeOver", "readOver", "connectOver"}

\* The wait of reconn_interval seconds ends: what was ready when it began has run.
SleepEnds(f) ==
  /\ pc[f] = "sleep"
  /\ \A g \in Fiber : pc[g] \notin Ready
  /\ CoStart(f)
  /\ UNCHANGED dataVars

\* The resolver answers, and the socket is opened for the first endpoint, whatever
\* became of the session meanwhile.
Resolved(f) ==
  /\ pc[f] = "resolving"
  /\ Goto(f, "connecting")
  /\ socketOpen' = TRUE
  /\ leaked' = (leaked \/ state = "stopped")
  /\ UNCHANGED <<state, registered, is_canceled, reconn_num, opened, closed, failed,
                 revived, halted, dataVars>>

\* An endpoint had refused before a stop closed the socket: the socket is opened
\* again for the next one.
NextEndpoint(f) ==
  /\ pc[f] = "connectOver"
  /\ Goto(f, "connecting")
  /\ socketOpen' = TRUE
  /\ leaked' = (leaked \/ state = "stopped")
  /\ UNCHANGED <<state, registered, is_canceled, reconn_num, opened, closed,
                 failed, revived, halted, dataVars>>

Spawned(f) ==
  pc' = [pc EXCEPT ![f] = Return(f, FALSE),
                   ![<<"send", opened'>>] = "posted",
                   ![<<"recv", opened'>>] = "posted"]

\* Mutant: the state is stored, not compared.
CommitBlind(f) ==
  /\ opened < MaxConn
  /\ state' = "started" /\ registered' = TRUE /\ is_canceled' = FALSE
  /\ reconn_num' = 0 /\ opened' = opened + 1 /\ failed' = 0
  /\ Spawned(f)
  /\ UNCHANGED <<socketOpen, closed, revived, halted, leaked>>

\* buffer_queue::init. Mutant: the flag of the last connection is kept.
KeepCancel == UNCHANGED is_canceled
ClearCancel == is_canceled' = FALSE

\* co_start after a successful connect: starting -> started, the manager, the
\* connect event, and a new send_t and recv_t. co_reconnect then resets its
\* counter (a first start finds it 0).
Commit(f) ==
  /\ state = "starting"
  /\ opened < MaxConn
  /\ state' = "started"
  /\ registered' = TRUE
  /\ ClearCancel
  /\ reconn_num' = 0
  /\ opened' = opened + 1
  /\ failed' = 0
  /\ revived' = revived + (IF f[1] = "send" THEN 1 ELSE 0)
  /\ Spawned(f)
  /\ UNCHANGED <<socketOpen, closed, halted, leaked>>

\* The connect succeeds. When the session was stopped meanwhile, co_start gives up
\* (operation_aborted) and its co_stop finds nothing to do.
Connected(f) ==
  /\ pc[f] \in {"connecting", "connectOver"}
  /\ \/ Commit(f)
     \/ state # "starting" /\ CoStop(f)
  /\ UNCHANGED dataVars

\* Mutant: a failed attempt begins again by itself, and nobody counts.
ConnectFailsAgain(f) ==
  /\ pc[f] \in {"resolving", "connecting", "connectOver"}
  /\ Goto(f, "resolving")
  /\ UNCHANGED <<connVars, dataVars>>

\* The resolver, every endpoint or the connection timer fails the attempt.
ConnectFails(f) ==
  /\ pc[f] \in {"resolving", "connecting", "connectOver"}
  /\ CoStop(f)
  /\ UNCHANGED dataVars

-----------------------------------------------------------------------------
(***************************************************************************)
(* stop                                                                    *)
(***************************************************************************)
PostStop(f) ==
  /\ f[1] = "stop"
  /\ pc[f] = "idle"
  /\ opened > 0 \/ failed > 0     \* the application has seen the session
  /\ Goto(f, "posted")
  /\ UNCHANGED <<connVars, dataVars>>

StopBegin(f) ==
  /\ f[1] = "stop"
  /\ pc[f] = "posted"
  /\ CoStop(f)
  /\ UNCHANGED dataVars

-----------------------------------------------------------------------------
(***************************************************************************)
(* The send queue and send_t                                               *)
(***************************************************************************)

\* Mutant: enqueue wakes nobody.
EnqueueSilent ==
  /\ opened > 0
  /\ sent < MaxMsg
  /\ sent' = sent + 1
  /\ queue' = Append(queue, sent')
  /\ UNCHANGED <<pc, wire, corrupt, connVars>>

\* enqueue and cancel_one: one of the waiting fibers is woken. The application
\* has a session to send on once it was connected; nothing empties the queue of
\* a session that is down.
Enqueue ==
  /\ opened > 0
  /\ sent < MaxMsg
  /\ sent' = sent + 1
  /\ queue' = Append(queue, sent')
  /\ \/ \E f \in Fiber : pc[f] = "timer" /\ Goto(f, "woken")
     \/ /\ \A f \in Fiber : pc[f] # "timer"
        /\ UNCHANGED pc
  /\ UNCHANGED <<wire, corrupt, connVars>>

\* Where dequeue suspends when q is queued.
Dequeue(q) ==
  IF q # <<>> /\ is_started THEN "writing" ELSE IF is_canceled THEN "done" ELSE "timer"

\* f goes on to loc. Two writes at a time are undefined: asio does not allow them,
\* and the first to end pops the buffer the other one is reading.
SendGoto(f, loc) ==
  /\ Goto(f, loc)
  /\ corrupt' = (loc = "writing" /\ \E g \in Fiber \ {f} : pc[g] = "writing")

SendLoop(f) ==
  /\ f[1] = "send"
  /\ pc[f] \in {"posted", "woken"}
  /\ SendGoto(f, IF is_started THEN Dequeue(queue) ELSE "done")
  /\ UNCHANGED <<connVars, queue, sent, wire>>

\* The write of the front succeeded: pop it and try the next one.
Written(f) ==
  /\ pc[f] \in {"writing", "writeOver"}
  /\ wire' = Append(wire, Head(queue))
  /\ queue' = Tail(queue)
  /\ SendGoto(f, Dequeue(queue'))
  /\ UNCHANGED <<sent, connVars>>

\* Mutant: the message is popped although its write failed.
WriteFailsPops(f) ==
  /\ pc[f] \in {"writing", "writeOver"}
  /\ CoStop(f)
  /\ queue' = Tail(queue)
  /\ UNCHANGED <<sent, wire, corrupt>>

\* It failed: the message stays in the queue, and co_send stops the session.
WriteFails(f) ==
  /\ pc[f] \in {"writing", "writeOver"}
  /\ CoStop(f)
  /\ UNCHANGED dataVars

RecvLoop(f) ==
  /\ f[1] = "recv"
  /\ pc[f] = "posted"
  /\ Goto(f, IF is_started THEN "reading" ELSE "done")
  /\ UNCHANGED <<connVars, dataVars>>

\* A read that brings data changes nothing while the session is started; the read
\* that ends recv_t failed, or found the session stopped.
ReadFails(f) ==
  /\ pc[f] \in {"reading", "readOver"}
  /\ CoStop(f)
  /\ UNCHANGED dataVars

-----------------------------------------------------------------------------
CliNext ==
  /\ ~ corrupt
  /\ \/ PostStart \/ Enqueue
     \/ \E f \in Fiber :
          \/ StartBegin(f) \/ SleepEnds(f) \/ Resolved(f) \/ NextEndpoint(f)
          \/ Connected(f) \/ ConnectFails(f)
          \/ PostStop(f) \/ StopBegin(f)
          \/ SendLoop(f) \/ Written(f) \/ WriteFails(f) \/ RecvLoop(f) \/ ReadFails(f)

(***************************************************************************)
(* The io_context runs what is ready; a sleep ends; a connection attempt   *)
(* ends within conn_timeout, given that the resolver answers; a write on a *)
(* closed socket is aborted. A peer that neither reads nor closes may hold *)
(* a write for ever.                                                       *)
(***************************************************************************)
Ended(f) == Connected(f) \/ ConnectFails(f)
CliFairness ==
  \A f \in Fiber :
    /\ WF_cliVars(~ corrupt /\ (StartBegin(f) \/ StopBegin(f) \/ SendLoop(f) \/ RecvLoop(f)))
    /\ WF_cliVars(~ corrupt /\ SleepEnds(f))
    /\ WF_cliVars(~ corrupt /\ pc[f] = "resolving" /\ (Resolved(f) \/ ConnectFails(f)))
    /\ WF_cliVars(~ corrupt /\ pc[f] \in {"connecting", "connectOver"} /\ Ended(f))
    /\ WF_cliVars(~ corrupt /\ pc[f] = "writeOver" /\ (Written(f) \/ WriteFails(f)))
    /\ WF_cliVars(~ corrupt /\ pc[f] = "readOver" /\ ReadFails(f))

CliSpec == CliInit /\ [][CliNext]_cliVars
FairCliSpec == CliSpec /\ CliFairness

-----------------------------------------------------------------------------
CliTypeOK ==
  /\ state \in {"stopped", "starting", "started"}
  /\ {socketOpen, registered, is_canceled, corrupt, halted, leaked} \subseteq BOOLEAN
  /\ reconn_num \in Nat
  /\ sent \in 0 .. MaxMsg
  /\ queue \in Seq(1 .. sent) /\ wire \in Seq(1 .. sent)
  /\ pc \in [Fiber -> Loc]
  /\ opened \in 0 .. MaxConn /\ closed \in 0 .. MaxConn
  /\ failed \in Nat /\ revived \in 0 .. MaxConn

Chains == {f \in Fiber : pc[f] \in Chain}
Consumers == {f \in Fiber : f[1] = "send" /\ pc[f] \in {"posted", "writing", "writeOver", "timer", "woken"}}

\* While no stop passes an error, one fiber at a time tries to connect, and only for
\* a session that is not connected; a sleeping one finds the session stopped.
OneChain ==
  ErrorStop = {} =>
    /\ Cardinality(Chains) <= 1
    /\ \A f \in Chains : IF pc[f] = "sleep" THEN state = "stopped" ELSE state # "started"

\* The retries: an outage ends after retry_num attempts at most (and one more when
\* there was no connection before), and a client that gave up made them all.
Retried ==
  ErrorStop = {} =>
    /\ failed <= RetryNum + 1
    /\ /\ IsReconn /\ ~ halted /\ opened + failed > 0
       /\ state = "stopped" /\ Chains = {}
       => failed = RetryNum + (IF opened = 0 THEN 1 ELSE 0)

\* A connection that stop() took down stays down, whatever failed at the same time.
StopSticks ==
  [][halted /\ ErrorStop = {} => opened' = opened]_cliVars

\* A send loop survives its connection only by reconnecting inside its own co_send;
\* then the new connection has two loops on one queue.
ConsumersCounted ==
  state = "started" => Cardinality(Consumers) <= 1 + revived

\* While the session is started its socket is open and the send_t of its connection is
\* on the queue, and a queued message has a send loop that will look at the queue again
\* or is writing: dequeue's test and its wait let no message slip between them, also
\* when two loops share the queue and cancel_one wakes the one or the other.
Awake == {"posted", "woken", "writing"}
Attended ==
  state = "started" =>
    /\ socketOpen
    /\ pc[<<"send", opened>>] \in Awake \cup {"timer"}
    /\ queue # <<>> => \E f \in Fiber : f[1] = "send" /\ pc[f] \in Awake

\* Until that happens every message is written once, in the order of the sends,
\* over any number of connections; what is not yet written is still queued.
NothingLostOrDoubled ==
  revived = 0 => ~ corrupt /\ wire \o queue = [i \in 1 .. sent |-> i]

\* A session that ended holds no socket, unless a stop met the resolver or the change
\* of endpoints: co_connect opens a socket whatever the state is.
SocketReleased ==
  state = "stopped" /\ Chains = {} /\ ~ leaked => ~ socketOpen

Life == INSTANCE ClientLife
\* What the application sees of its connections.
ClientLifeSpec == Life!LifeSpec

\* An outage ends: in a new connection, or in a client that stopped trying.
OutageEnds == Chains # {} ~> state = "started" \/ Chains = {}

\* A message queued on a connection that lasts is taken up: no wake-up is lost
\* between the test of the queue and the wait on its timer.
TakenUp ==
  queue # <<>> /\ state = "started" ~>
    state # "started" \/ corrupt \/ \E f \in Fiber : pc[f] = "writing"
=============================================================================
