------------------------------- MODULE Session -------------------------------
(***************************************************************************)
(* The server session (bnet/base/session.hpp): its state machine           *)
(* stopped -> starting -> started -> stopping -> stopped, the coroutines   *)
(* that drive it, and its entry in the session manager.                    *)
(*                                                                         *)
(* Every coroutine of a session (a fiber below) runs on the one thread of  *)
(* the session's io_context, so two fibers of a session interleave only    *)
(* where one of them suspends. Fibers of different sessions, and the       *)
(* server's, run on other threads: they meet a session only in the         *)
(* manager, under its mutex, and in posted work. A step is the code        *)
(* between two suspension points, cut again where it touches the manager.  *)
(*                                                                         *)
(* StreamType and ProtoType are the template parameters of session<>: they *)
(* say which of the awaits really suspend. co_spawn is a post.             *)
(***************************************************************************)
EXTENDS Naturals

CONSTANTS
  Session,      \* the session objects (each is accepted at most once)
  Stopper,      \* the calls of session::stop, per session
  StreamType,   \* "binary" (tcp) or "ssl"
  ProtoType,    \* "none" or "ws"
  MaxQueue      \* bound on the messages waiting in one session's send queue

ASSUME SessionAssumption ==
  /\ Stopper \cap {"start", "send", "recv"} = {}
  /\ StreamType \in {"binary", "ssl"}
  /\ ProtoType \in {"none", "ws"}
  /\ MaxQueue \in Nat

VARIABLES
  state,         \* session::state_
  socketOpen,    \* the sessions whose socket is open
  sessions,      \* session_mgr::sessions_; a tcp session's key is the session
  is_canceled,   \* buffer_queue::is_canceled_
  queued,        \* number of messages in buffer_queue::queue_
  pc,            \* where each fiber of each session is
  connects,      \* calls of event::connect
  disconnects,   \* calls of event::disconnect
  lateRecv       \* calls of event::recv after the session left "started"

sessVars == <<state, socketOpen, sessions, is_canceled, queued, pc, connects,
              disconnects, lateRecv>>

estate == {"stopped", "stopping", "starting", "started"}

\* co_start, send_t, recv_t, and one co_stop per call of stop().
Fiber == {"start", "send", "recv"} \cup Stopper

\* The awaits of co_start; "emplace" is the point where the manager is entered.
StartLoc == {"stream_start", "proto_start", "emplace"}

\* The awaits of co_stop once its compare-exchange succeeded; "erase" is the
\* point where the manager is left.
StopLoc == {"erase", "proto_stop", "stream_stop"}

\* "posted": spawned, not yet run. "timer": waiting in dequeue. "woken": that
\* wait was cancelled, the fiber has not resumed yet.
Loc == {"idle", "posted", "writing", "timer", "woken", "reading", "done"}
         \cup StartLoc \cup StopLoc

\* A fiber at one of these has not suspended: it still holds the thread.
\* async_close is awaited only on a websocket whose upgrade was done, which is
\* when the session got as far as its connect event.
Running(s) ==
  {"emplace", "erase"}
    \cup (IF StreamType = "binary" THEN {"stream_start", "stream_stop"} ELSE {})
    \cup (IF ProtoType = "none" THEN {"proto_start"} ELSE {})
    \cup (IF ProtoType = "none" \/ connects[s] = 0 THEN {"proto_stop"} ELSE {})

\* Fiber f may take a step: no other fiber of s holds the thread.
CanRun(s, f) == \A g \in Fiber \ {f} : pc[s][g] \notin Running(s)

Suspended(s) == \A g \in Fiber : pc[s][g] \notin Running(s)

-----------------------------------------------------------------------------
SessInit ==
  /\ state = [s \in Session |-> "stopped"]
  /\ socketOpen = {}
  /\ sessions = {}
  /\ is_canceled = [s \in Session |-> FALSE]
  /\ queued = [s \in Session |-> 0]
  /\ pc = [s \in Session |-> [f \in Fiber |-> "idle"]]
  /\ connects = [s \in Session |-> 0]
  /\ disconnects = [s \in Session |-> 0]
  /\ lateRecv = [s \in Session |-> 0]

Goto(s, f, loc) == pc' = [pc EXCEPT ![s][f] = loc]

\* Mutant: the socket alone decides.
IsStartedBySocket(s) == s \in socketOpen

is_started(s) == state[s] = "started" /\ s \in socketOpen

-----------------------------------------------------------------------------
(***************************************************************************)
(* The send queue, as far as the life cycle sees it: its length, the fiber *)
(* waiting on the queue's timer, and the cancel flag.                      *)
(***************************************************************************)

\* enqueue: push, then cancel_one wakes a waiting fiber.
Enqueue(s) ==
  /\ connects[s] = 1
  /\ queued[s] < MaxQueue
  /\ Suspended(s)
  /\ queued' = [queued EXCEPT ![s] = @ + 1]
  /\ pc' = [pc EXCEPT ![s]["send"] = IF @ = "timer" THEN "woken" ELSE @]
  /\ UNCHANGED <<state, socketOpen, sessions, is_canceled, connects,
                 disconnects, lateRecv>>

\* Where dequeue suspends when n messages wait. co_send refuses a session that
\* is not started; dequeue then leaves its loop, as it does on an empty queue,
\* and waits unless the queue was cancelled; send_t ends at its next test of
\* is_started.
Dequeue(s, n) ==
  IF n > 0 /\ is_started(s) THEN "writing"
  ELSE IF is_canceled[s] THEN "done" ELSE "timer"

\* Where fiber f goes when its call of co_stop returns. Only send_t goes on: its
\* co_send returned 0, so dequeue waits unless the queue was cancelled.
AfterStop(s, f) == IF f = "send" /\ ~ is_canceled[s] THEN "timer" ELSE "done"

\* Mutant: uninit cancels the timer but does not set the flag.
UninitTimerOnly(s) == UNCHANGED is_canceled

\* transfer_stop (uninit): set the flag and cancel the waits of the timer.
Uninit(s) ==
  is_canceled' = [is_canceled EXCEPT ![s] = TRUE]

Wake(loc) == IF loc = "timer" THEN "woken" ELSE loc

\* The winner of the compare-exchanges.
OwnTeardown(s, f) ==
  /\ state' = [state EXCEPT ![s] = "stopping"]
  /\ Uninit(s)
  /\ pc' = [pc EXCEPT ![s] = [g \in Fiber |-> IF g = f THEN "erase"
                               ELSE IF g = "send" THEN Wake(@[g]) ELSE @[g]]]

\* Mutants: co_stop does not compare the state; it lets a second caller in while
\* the first is still closing.
EnterStopUnguarded(s, f) == OwnTeardown(s, f)
EnterStopTwice(s, f) ==
  \/ state[s] # "stopped" /\ OwnTeardown(s, f)
  \/ /\ state[s] = "stopped"
     /\ Goto(s, f, AfterStop(s, f))
     /\ UNCHANGED <<state, is_canceled>>

\* co_stop by fiber f, up to the manager: one of the compare-exchanges
\* succeeds and f owns the teardown, or both fail and co_stop returns.
EnterStop(s, f) ==
  \/ state[s] \in {"starting", "started"} /\ OwnTeardown(s, f)
  \/ /\ state[s] \in {"stopping", "stopped"}
     /\ Goto(s, f, AfterStop(s, f))
     /\ UNCHANGED <<state, is_canceled>>
-----------------------------------------------------------------------------
(***************************************************************************)
(* co_start                                                                *)
(***************************************************************************)

\* session::start, called by the accept loop with the accepted socket.
PostStart(s) ==
  /\ pc[s]["start"] = "idle"
  /\ Goto(s, "start", "posted")
  /\ socketOpen' = socketOpen \cup {s}
  /\ UNCHANGED <<state, sessions, is_canceled, queued, connects, disconnects,
                 lateRecv>>

\* The compare-exchange that opens co_start. A session is started once, by the
\* accept loop, so it finds the session stopped.
StartBegin(s) ==
  /\ pc[s]["start"] = "posted"
  /\ CanRun(s, "start")
  /\ state[s] = "stopped"
  /\ state' = [state EXCEPT ![s] = "starting"]
  /\ Goto(s, "start", "stream_start")
  /\ UNCHANGED <<socketOpen, sessions, is_canceled, queued, connects,
                 disconnects, lateRecv>>

\* stream_start returns: a binary stream has nothing to do, a TLS handshake may
\* fail, and co_start then stops the session.
StreamStarted(s) ==
  /\ pc[s]["start"] = "stream_start"
  /\ CanRun(s, "start")
  /\ \/ /\ Goto(s, "start", "proto_start")
        /\ UNCHANGED <<state, is_canceled>>
     \/ /\ StreamType = "ssl"
        /\ EnterStop(s, "start")
  /\ UNCHANGED <<socketOpen, sessions, queued, connects, disconnects, lateRecv>>

\* Mutant: a plain store instead of the compare-exchange.
CommitStartBlind(s) ==
  /\ state' = [state EXCEPT ![s] = "started"]
  /\ Goto(s, "start", "emplace")
  /\ UNCHANGED is_canceled

\* The compare-exchange starting -> started: it fails when a stop came first.
CommitStart(s) ==
  /\ state[s] = "starting"
  /\ state' = [state EXCEPT ![s] = "started"]
  /\ Goto(s, "start", "emplace")
  /\ UNCHANGED is_canceled

\* proto_start returns: a websocket upgrade may fail. On success co_start
\* commits; when it cannot, it calls co_stop like any failed start.
ProtoStarted(s) ==
  /\ pc[s]["start"] = "proto_start"
  /\ CanRun(s, "start")
  /\ \/ CommitStart(s)
     \/ /\ ProtoType = "ws" \/ state[s] # "starting"
        /\ EnterStop(s, "start")
  /\ UNCHANGED <<socketOpen, sessions, queued, connects, disconnects, lateRecv>>

\* The rest of co_start: enter the manager, call event::connect, and spawn
\* send_t and recv_t on a queue that is no longer cancelled (transfer_start).
Emplace(s) ==
  /\ pc[s]["start"] = "emplace"
  /\ sessions' = sessions \cup {s}
  /\ connects' = [connects EXCEPT ![s] = @ + 1]
  /\ is_canceled' = [is_canceled EXCEPT ![s] = FALSE]
  /\ pc' = [pc EXCEPT ![s] = [f \in Fiber |->
              IF f = "start" THEN "done"
              ELSE IF f \in {"send", "recv"} THEN "posted" ELSE @[f]]]
  /\ UNCHANGED <<state, socketOpen, queued, disconnects, lateRecv>>

-----------------------------------------------------------------------------
(***************************************************************************)
(* co_stop                                                                 *)
(***************************************************************************)

\* session::stop: from any thread, once per stopper.
PostStop(s, f) ==
  /\ pc[s][f] = "idle"
  /\ Goto(s, f, "posted")
  /\ UNCHANGED <<state, socketOpen, sessions, is_canceled, queued, connects,
                 disconnects, lateRecv>>

\* The application has seen the session: event::handshake, event::upgrade or
\* event::connect passed it the pointer.
Known(s) == pc[s]["start"] \notin {"idle", "posted", "stream_start"}

StopBegin(s, f) ==
  /\ pc[s][f] = "posted"
  /\ CanRun(s, f)
  /\ EnterStop(s, f)
  /\ UNCHANGED <<socketOpen, sessions, queued, connects, disconnects, lateRecv>>

\* Mutant: the teardown leaves the manager's entry in place.
EraseForgotten(s, f) ==
  /\ pc[s][f] = "erase"
  /\ Goto(s, f, "proto_stop")
  /\ UNCHANGED <<state, socketOpen, sessions, is_canceled, queued, connects,
                 disconnects, lateRecv>>

\* sessions_.erase
Erase(s, f) ==
  /\ pc[s][f] = "erase"
  /\ sessions' = sessions \ {s}
  /\ Goto(s, f, "proto_stop")
  /\ UNCHANGED <<state, socketOpen, is_canceled, queued, connects, disconnects,
                 lateRecv>>

\* proto_stop returns. When async_close fails, co_stop leaves by its handler:
\* the session stays in "stopping" with its socket open.
ProtoStopped(s, f) ==
  /\ pc[s][f] = "proto_stop"
  /\ CanRun(s, f)
  /\ \/ Goto(s, f, "stream_stop")
     \/ /\ ProtoType = "ws" /\ connects[s] = 1
        /\ Goto(s, f, AfterStop(s, f))
  /\ UNCHANGED <<state, socketOpen, sessions, is_canceled, queued, connects,
                 disconnects, lateRecv>>

\* Mutant: stream_stop shuts the socket down but does not close it.
StreamStoppedOpen(s, f) ==
  /\ pc[s][f] = "stream_stop"
  /\ CanRun(s, f)
  /\ state[s] = "stopping"
  /\ state' = [state EXCEPT ![s] = "stopped"]
  /\ disconnects' = [disconnects EXCEPT ![s] = @ + 1]
  /\ Goto(s, f, AfterStop(s, f))
  /\ UNCHANGED <<socketOpen, sessions, is_canceled, queued, connects, lateRecv>>

\* stream_stop returns with the socket closed: stopping -> stopped, and
\* event::disconnect is called.
StreamStopped(s, f) ==
  /\ pc[s][f] = "stream_stop"
  /\ CanRun(s, f)
  /\ socketOpen' = socketOpen \ {s}
  /\ state[s] = "stopping"
  /\ state' = [state EXCEPT ![s] = "stopped"]
  /\ disconnects' = [disconnects EXCEPT ![s] = @ + 1]
  /\ Goto(s, f, AfterStop(s, f))
  /\ UNCHANGED <<sessions, is_canceled, queued, connects, lateRecv>>

\* async_shutdown failed: as for a failed async_close.
ShutdownFailed(s, f) ==
  /\ StreamType = "ssl"
  /\ pc[s][f] = "stream_stop"
  /\ CanRun(s, f)
  /\ Goto(s, f, AfterStop(s, f))
  /\ UNCHANGED <<state, socketOpen, sessions, is_canceled, queued, connects,
                 disconnects, lateRecv>>

-----------------------------------------------------------------------------
(***************************************************************************)
(* send_t and recv_t                                                       *)
(***************************************************************************)

\* send_t at its loop test, when it first runs or when its wait ended.
SendLoop(s) ==
  /\ pc[s]["send"] \in {"posted", "woken"}
  /\ CanRun(s, "send")
  /\ Goto(s, "send", IF is_started(s) THEN Dequeue(s, queued[s]) ELSE "done")
  /\ UNCHANGED <<state, socketOpen, sessions, is_canceled, queued, connects,
                 disconnects, lateRecv>>

\* async_write returns: the message is popped and the next one is tried, or
\* co_send stops the session.
Written(s) ==
  /\ pc[s]["send"] = "writing"
  /\ CanRun(s, "send")
  /\ \/ /\ queued' = [queued EXCEPT ![s] = @ - 1]
        /\ Goto(s, "send", Dequeue(s, queued[s] - 1))
        /\ UNCHANGED <<state, is_canceled>>
     \/ /\ EnterStop(s, "send")
        /\ UNCHANGED queued
  /\ UNCHANGED <<socketOpen, sessions, connects, disconnects, lateRecv>>

ReadNext(s) == IF is_started(s) THEN "reading" ELSE "done"

RecvLoop(s) ==
  /\ pc[s]["recv"] = "posted"
  /\ CanRun(s, "recv")
  /\ Goto(s, "recv", ReadNext(s))
  /\ UNCHANGED <<state, socketOpen, sessions, is_canceled, queued, connects,
                 disconnects, lateRecv>>

\* async_read returns. Data goes to event::recv before the loop tests
\* is_started again: a read that completed before the socket was closed is
\* delivered although the session is already stopping or stopped.
Received(s) ==
  /\ pc[s]["recv"] = "reading"
  /\ CanRun(s, "recv")
  /\ \/ /\ lateRecv' = [lateRecv EXCEPT ![s] =
                          IF state[s] = "started" THEN @ ELSE @ + 1]
        /\ Goto(s, "recv", ReadNext(s))
        /\ UNCHANGED <<state, is_canceled>>
     \/ /\ EnterStop(s, "recv")
        /\ UNCHANGED lateRecv
  /\ UNCHANGED <<socketOpen, sessions, queued, connects, disconnects>>

-----------------------------------------------------------------------------
\* The steps a fiber takes by itself once the io_context runs it.
Progress(s, f) ==
  \/ f = "start" /\ (StartBegin(s) \/ Emplace(s))
  \/ f = "start" /\ pc[s][f] \in Running(s) /\ (StreamStarted(s) \/ ProtoStarted(s))
  \/ f = "send" /\ SendLoop(s)
  \/ f = "recv" /\ RecvLoop(s)
  \/ f \in Stopper /\ StopBegin(s, f)
  \/ Erase(s, f)
  \/ ProtoStopped(s, f)
  \/ pc[s][f] \in Running(s) /\ StreamStopped(s, f)

\* The steps of a coroutine of session s, whatever they wait for.
SessionStep(s) ==
  \/ StartBegin(s) \/ StreamStarted(s) \/ ProtoStarted(s) \/ Emplace(s)
  \/ \E f \in Stopper : StopBegin(s, f)
  \/ \E f \in Fiber : \/ Erase(s, f) \/ ProtoStopped(s, f)
                      \/ StreamStopped(s, f) \/ ShutdownFailed(s, f)
  \/ SendLoop(s) \/ Written(s) \/ RecvLoop(s) \/ Received(s)
  \/ Enqueue(s)

SessNext ==
  \E s \in Session :
    \/ PostStart(s)
    \/ Known(s) /\ \E f \in Stopper : PostStop(s, f)
    \/ SessionStep(s)

(***************************************************************************)
(* An io_context runs every fiber that is ready. A read or a write ends at *)
(* the peer's will, unless the socket is closed: then the pending          *)
(* operation is aborted. async_close ends within disconnect_timeout_.      *)
(* Nothing bounds a TLS handshake or async_shutdown.                       *)
(***************************************************************************)
SessFairness ==
  \A s \in Session :
    /\ \A f \in Fiber : WF_sessVars(Progress(s, f))
    /\ WF_sessVars(s \notin socketOpen /\ Written(s))
    /\ WF_sessVars(s \notin socketOpen /\ Received(s))
    /\ WF_sessVars(s \notin socketOpen /\ ProtoStarted(s))

SessSpec == SessInit /\ [][SessNext]_sessVars
FairSessSpec == SessSpec /\ SessFairness

-----------------------------------------------------------------------------
TypeOK ==
  /\ state \in [Session -> estate]
  /\ socketOpen \subseteq Session
  /\ sessions \subseteq Session
  /\ is_canceled \in [Session -> BOOLEAN]
  /\ queued \in [Session -> 0 .. MaxQueue]
  /\ pc \in [Session -> [Fiber -> Loc]]
  /\ connects \in [Session -> Nat]
  /\ disconnects \in [Session -> Nat]
  /\ lateRecv \in [Session -> Nat]

Quiet(s) == \A f \in Fiber : pc[s][f] \in {"idle", "done"}

\* However many of stop(), a failed start, a failed read and a failed write race
\* to end a session, one fiber at a time owns the teardown, and nobody moves the
\* state away from "stopping" under it: co_stop's NET_ASSERT(false) is not
\* reached.
OneTeardown ==
  \A s \in Session : \A f \in Fiber :
    pc[s][f] \in StopLoc =>
      /\ state[s] = "stopping"
      /\ \A g \in Fiber : pc[s][g] \in StopLoc => g = f

\* The manager and the state machine agree: a started session is in the manager
\* from its connect event on, and what the manager holds is a session whose
\* connect event was called, whose disconnect event was not, and which is started
\* or about to be erased.
ManagerAgrees ==
  \A s \in Session :
    /\ s \in sessions =>
         /\ connects[s] = 1 /\ disconnects[s] = 0
         /\ state[s] = "started" \/ \E f \in Fiber : pc[s][f] = "erase"
    /\ state[s] = "started" => s \in sessions \/ pc[s]["start"] = "emplace"

\* recv_t does not look at the state between the end of its read and the call of
\* event::recv, so data may be handed over after the teardown began, even after
\* event::disconnect; but that happens once at most.
OneLateRecv == \A s \in Session : lateRecv[s] <= 1

\* A stopped session that ran leaves nothing behind once its fibers ended: no open
\* socket, no entry in the manager; and a session left in "stopping" without an
\* owner is one whose close or shutdown failed.
NothingLeft ==
  \A s \in Session :
    /\ Quiet(s) /\ disconnects[s] > 0 =>
         state[s] = "stopped" /\ s \notin socketOpen /\ s \notin sessions
    /\ Quiet(s) /\ state[s] = "stopping" =>
         s \notin sessions /\ (StreamType = "ssl" \/ ProtoType = "ws")

(***************************************************************************)
(* The inductive invariant behind the four: what each place of co_start    *)
(* and co_stop knows of the session.                                       *)
(***************************************************************************)

\* Who owns which state, and the order of the events.
OwnerInv(s) ==
  /\ pc[s]["start"] \in {"idle", "posted"} => state[s] = "stopped" /\ disconnects[s] = 0
  /\ pc[s]["start"] \in {"idle", "posted", "stream_start", "proto_start", "emplace"} =>
       connects[s] = 0
  /\ connects[s] = 0 => pc[s]["send"] = "idle" /\ pc[s]["recv"] = "idle"
  /\ pc[s]["start"] = "emplace" => state[s] = "started"
  /\ state[s] = "starting" => pc[s]["start"] \in {"stream_start", "proto_start"}
  /\ state[s] = "started" => s \in sessions \/ pc[s]["start"] = "emplace"
  /\ state[s] # "stopped" => disconnects[s] = 0
  /\ connects[s] \in {0, 1} /\ disconnects[s] \in {0, 1}
  /\ \A f \in Fiber : pc[s][f] \in StopLoc => state[s] = "stopping"
  /\ \A f, g \in Fiber : pc[s][f] \in StopLoc /\ pc[s][g] \in StopLoc => f = g

\* The manager's entry, and the owner of a teardown that cannot fail.
EntryInv(s) ==
  /\ s \in sessions =>
       /\ connects[s] = 1
       /\ state[s] = "started" \/ (state[s] = "stopping" /\ \E f \in Fiber : pc[s][f] = "erase")
  /\ disconnects[s] = 1 => s \notin socketOpen
  /\ state[s] = "stopping" /\ StreamType = "binary" /\ ProtoType = "none" =>
       \E f \in Fiber : pc[s][f] \in StopLoc

\* The two loops.
LoopInv(s) ==
  /\ pc[s]["send"] = "writing" => queued[s] > 0
  /\ lateRecv[s] \in {0, 1}
  /\ lateRecv[s] = 1 => connects[s] = 1 /\ pc[s]["recv"] = "done"

IInv ==
  /\ TypeOK
  /\ \A s \in Session : OwnerInv(s) /\ EntryInv(s) /\ LoopInv(s)

Life == INSTANCE SessionLife WITH registered <- sessions

\* The session keeps what SessionLife promises to the application.
SessionLifeSpec == Life!LifeSpec

\* A tcp session that begins to stop is closed, forgotten by the manager, reported
\* to the disconnect handler, and all its coroutines end, so that the session
\* object they keep alive is released: no fiber sleeps for ever on the queue's
\* timer or on a dead socket.
StopReleases ==
  \A s \in Session :
    state[s] = "stopping" ~>
      Quiet(s) /\ disconnects[s] = 1 /\ s \notin socketOpen /\ s \notin sessions
=============================================================================
