-------------------------------- MODULE Server --------------------------------
(***************************************************************************)
(* The tcp server (bnet/base/server.hpp) and its accept loop               *)
(* (bnet/base/acceptor.hpp), composed with the sessions of module Session. *)
(*                                                                         *)
(* co_start, co_stop and the accept loops run on the accept io_context.    *)
(* co_stop does not suspend: from its first compare-exchange to its last   *)
(* the accept thread is busy, so the server is "stopping" exactly while    *)
(* co_stop walks over the sessions it found in the manager. The sessions'  *)
(* own threads go on meanwhile.                                            *)
(*                                                                         *)
(* A start that follows a stop reopens the same acceptor. The loop of the  *)
(* earlier start may still have its last completion to run then, so loops  *)
(* are numbered by the start that spawned them.                            *)
(***************************************************************************)
EXTENDS Session

CONSTANTS
  SvStopper,     \* the stoppers the server uses; the others are the application's
  MaxStart,      \* bound on the calls of server::start
  MaxUserStop    \* bound on the calls of server::stop by the application

ASSUME ServerAssumption ==
  /\ SvStopper \subseteq Stopper
  /\ MaxStart \in Nat
  /\ MaxUserStop \in Nat

VARIABLES
  svState,       \* server::state_
  acceptOpen,    \* acceptor_ is open
  loop,          \* where each accept loop is
  startsPosted,  \* calls of start
  startsRun,     \* co_starts that ran
  userStops,     \* calls of stop by the application
  stopReq,       \* co_stops that are posted, each named by its caller
  svTodo         \* co_stop: sessions of its snapshot not yet told to stop

svVars == <<svState, acceptOpen, loop, startsPosted, startsRun, userStops,
            stopReq, svTodo>>
vars == <<sessVars, svVars>>

Start == 1 .. MaxStart

\* Callers of server::stop: the application, a co_start that failed, a loop
\* whose wait was aborted.
Caller == ({"user"} \X (1 .. MaxUserStop)) \cup ({"start", "loop"} \X Start)

\* "accepted", "failed", "aborted": the wait is over, the loop has not resumed.
LoopLoc == {"idle", "posted", "accepting", "accepted", "failed", "timer",
            "aborted", "done"}

\* The accept thread is not inside co_stop.
AcceptFree == svState # "stopping"

SvInit ==
  /\ SessInit
  /\ svState = "stopped"
  /\ acceptOpen = FALSE
  /\ loop = [i \in Start |-> "idle"]
  /\ startsPosted = 0
  /\ startsRun = 0
  /\ userStops = 0
  /\ stopReq = {}
  /\ svTodo = {}

-----------------------------------------------------------------------------
(***************************************************************************)
(* The application's calls.                                                *)
(***************************************************************************)
PostSvStart ==
  /\ startsPosted < MaxStart
  /\ startsPosted' = startsPosted + 1
  /\ UNCHANGED <<svState, acceptOpen, loop, startsRun, userStops, stopReq, svTodo>>
  /\ UNCHANGED sessVars

PostSvStop ==
  /\ userStops < MaxUserStop
  /\ userStops' = userStops + 1
  /\ stopReq' = stopReq \cup {<<"user", userStops'>>}
  /\ UNCHANGED <<svState, acceptOpen, loop, startsPosted, startsRun, svTodo>>
  /\ UNCHANGED sessVars

-----------------------------------------------------------------------------
(***************************************************************************)
(* server::co_start                                                        *)
(***************************************************************************)

\* The server was not stopped (already_started), or the acceptor could not be
\* opened, bound or made to listen: co_start posts a stop. That stop finds a
\* server that runs in the first case, a half-open acceptor in the second.
SvStartFails ==
  /\ startsRun < startsPosted
  /\ AcceptFree
  /\ startsRun' = startsRun + 1
  /\ stopReq' = stopReq \cup {<<"start", startsRun'>>}
  /\ \/ /\ svState # "stopped"
        /\ UNCHANGED <<svState, acceptOpen>>
     \/ /\ svState = "stopped"
        /\ svState' = "starting"
        /\ acceptOpen' \in BOOLEAN
  /\ UNCHANGED <<loop, startsPosted, userStops, svTodo>>
  /\ UNCHANGED sessVars

SvStart ==
  /\ startsRun < startsPosted
  /\ svState = "stopped"
  /\ startsRun' = startsRun + 1
  /\ svState' = "started"
  /\ acceptOpen' = TRUE
  /\ loop' = [loop EXCEPT ![startsRun'] = "posted"]
  /\ UNCHANGED <<startsPosted, userStops, stopReq, svTodo>>
  /\ UNCHANGED sessVars

-----------------------------------------------------------------------------
(***************************************************************************)
(* server::co_stop                                                         *)
(***************************************************************************)

\* Mutant: acceptor_stop cancels the timer only.
AbortTimer == [i \in Start |-> IF loop[i] = "timer" THEN "aborted" ELSE loop[i]]

\* acceptor_stop: pending accepts and timer waits end with operation_aborted.
AbortLoops == [i \in Start |-> IF loop[i] \in {"accepting", "timer"}
                               THEN "aborted" ELSE loop[i]]

\* A posted co_stop runs. Only one that finds the server starting or started
\* closes the acceptor and takes the snapshot of the manager.
SvStopBegin(c) ==
  /\ c \in stopReq
  /\ AcceptFree
  /\ stopReq' = stopReq \ {c}
  /\ \/ /\ svState \in {"starting", "started"}
        /\ svState' = "stopping"
        /\ acceptOpen' = FALSE
        /\ loop' = AbortLoops
        /\ svTodo' = sessions
     \/ /\ svState = "stopped"
        /\ UNCHANGED <<svState, acceptOpen, loop, svTodo>>
  /\ UNCHANGED <<startsPosted, startsRun, userStops>>
  /\ UNCHANGED sessVars

\* Mutants: a session of the snapshot is passed over; co_stop of the session runs
\* on the accept thread instead of being posted to the session's.
SvStopNobody(s) ==
  /\ svState = "stopping"
  /\ s \in svTodo
  /\ svTodo' = svTodo \ {s}
  /\ UNCHANGED <<svState, acceptOpen, loop, startsPosted, startsRun, userStops,
                 stopReq, sessVars>>
SvStopInline(s) ==
  /\ svState = "stopping"
  /\ s \in svTodo
  /\ svTodo' = svTodo \ {s}
  /\ \E f \in SvStopper : pc[s][f] = "idle" /\ EnterStop(s, f)
  /\ UNCHANGED <<socketOpen, sessions, queued, connects, disconnects, lateRecv>>
  /\ UNCHANGED <<svState, acceptOpen, loop, startsPosted, startsRun, userStops,
                 stopReq>>

\* foreach: session_ptr->stop(ec) on a session of the snapshot.
SvStopSession(s) ==
  /\ svState = "stopping"
  /\ s \in svTodo
  /\ svTodo' = svTodo \ {s}
  /\ \E f \in SvStopper : PostStop(s, f)
  /\ UNCHANGED <<svState, acceptOpen, loop, startsPosted, startsRun, userStops,
                 stopReq>>

SvStopEnd ==
  /\ svState = "stopping"
  /\ svTodo = {}
  /\ svState' = "stopped"
  /\ UNCHANGED <<acceptOpen, loop, startsPosted, startsRun, userStops, stopReq, svTodo>>
  /\ UNCHANGED sessVars

-----------------------------------------------------------------------------
(***************************************************************************)
(* acceptor_start_t                                                        *)
(***************************************************************************)
LoopOnly(i, loc) ==
  /\ loop' = [loop EXCEPT ![i] = loc]
  /\ UNCHANGED <<svState, acceptOpen, startsPosted, startsRun, userStops, svTodo>>

\* while (is_open()) { make_session(); async_accept(); ... }
LoopTest == IF acceptOpen THEN "accepting" ELSE "done"

\* The loop first runs, or its 100 ms wait after an error expired.
LoopResume(i) ==
  /\ loop[i] \in {"posted", "timer"}
  /\ AcceptFree
  /\ LoopOnly(i, LoopTest)
  /\ UNCHANGED <<stopReq, sessVars>>

\* async_accept ends: a connection is there (bound: one waits for its loop at a
\* time, and there is a session object left), or the accept failed.
AcceptEnds(i) ==
  /\ loop[i] = "accepting"
  /\ \/ /\ \E s \in Session : pc[s]["start"] = "idle"
        /\ \A j \in Start : loop[j] # "accepted"
        /\ LoopOnly(i, "accepted")
     \/ LoopOnly(i, "failed")
  /\ UNCHANGED <<stopReq, sessVars>>

\* The loop starts a session on the accepted socket, even when the server was
\* stopped since the accept ended.
LoopAccepted(i) ==
  /\ loop[i] = "accepted"
  /\ AcceptFree
  /\ \E s \in Session : PostStart(s)
  /\ LoopOnly(i, LoopTest)
  /\ UNCHANGED stopReq

\* Mutant: every failed accept leaves the loop, as operation_aborted does.
LoopFailedThrows(i) ==
  /\ loop[i] = "failed"
  /\ AcceptFree
  /\ stopReq' = stopReq \cup {<<"loop", i>>}
  /\ LoopOnly(i, "done")
  /\ UNCHANGED sessVars

\* Another error: wait on acceptor_timer_. The timer is shared: setting it aborts
\* the wait of a loop left from an earlier start.
LoopFailed(i) ==
  /\ loop[i] = "failed"
  /\ AcceptFree
  /\ loop' = [j \in Start |-> IF j = i THEN "timer"
                              ELSE IF loop[j] = "timer" THEN "aborted" ELSE loop[j]]
  /\ UNCHANGED <<svState, acceptOpen, startsPosted, startsRun, userStops, stopReq,
                 svTodo, sessVars>>

\* operation_aborted is thrown out of the loop: server_.stop(ec).
LoopAborted(i) ==
  /\ loop[i] = "aborted"
  /\ AcceptFree
  /\ stopReq' = stopReq \cup {<<"loop", i>>}
  /\ LoopOnly(i, "done")
  /\ UNCHANGED sessVars

-----------------------------------------------------------------------------
SvNext ==
  \/ PostSvStart \/ PostSvStop
  \/ SvStart \/ SvStartFails
  \/ \E c \in Caller : SvStopBegin(c)
  \/ \E s \in Session : SvStopSession(s)
  \/ SvStopEnd
  \/ \E i \in Start : \/ LoopResume(i) \/ AcceptEnds(i) \/ LoopAccepted(i)
                      \/ LoopFailed(i) \/ LoopAborted(i)

\* The sessions by themselves, and the application's calls of session::stop.
SvSessions ==
  /\ \E s \in Session :
       \/ SessionStep(s)
       \/ Known(s) /\ \E f \in Stopper \ SvStopper : PostStop(s, f)
  /\ UNCHANGED svVars

Next == SvNext \/ SvSessions

\* The accept thread runs what is posted to it and resumes its loops; a wait of
\* 100 ms ends. Connections need not arrive and the application need not call.
SvFairness ==
  /\ WF_vars(SvStart \/ SvStartFails)
  /\ \A c \in Caller : WF_vars(SvStopBegin(c))
  /\ WF_vars(\E s \in Session : SvStopSession(s))
  /\ WF_vars(SvStopEnd)
  /\ \A i \in Start : WF_vars(\/ LoopResume(i) \/ LoopAccepted(i) \/ LoopFailed(i)
                              \/ LoopAborted(i))

Spec == SvInit /\ [][Next]_vars
FairSpec == Spec /\ SvFairness /\ SessFairness

-----------------------------------------------------------------------------
SvTypeOK ==
  /\ svState \in estate
  /\ acceptOpen \in BOOLEAN
  /\ loop \in [Start -> LoopLoc]
  /\ startsPosted \in 0 .. MaxStart
  /\ startsRun \in 0 .. startsPosted
  /\ userStops \in 0 .. MaxUserStop
  /\ stopReq \subseteq Caller
  /\ svTodo \subseteq Session

\* The acceptor follows the server's state over any sequence of starts, failed
\* starts and stops: a started server has an open acceptor, a stopped one has a
\* closed one, and no loop waits for a connection on a closed acceptor.
AcceptorAgrees ==
  /\ svState = "started" => acceptOpen
  /\ svState \in {"stopping", "stopped"} => ~ acceptOpen
  /\ ~ acceptOpen => \A i \in Start : loop[i] # "accepting"

\* What may take a started server down: the application; a second start, which
\* fails because the server runs; or an accept loop, but only after a restart, when
\* loops of two starts meet on one acceptor and one timer. The loop of a server
\* that was started once never does: after a failed accept it waits and goes on.
UnaskedStop ==
  [][\A c \in Caller :
       svState = "started" /\ svState' = "stopping" /\ c \in stopReq \ stopReq' =>
         \/ c[1] = "user"
         \/ c[1] = "loop" /\ \E j \in Start \ {c[2]} : loop[j] # "idle"
         \/ c[1] = "start" /\ loop[c[2]] = "idle"]_vars

(***************************************************************************)
(* The inductive invariant behind the two: loops and stop requests bear    *)
(* the number of a start that ran, and a loop is aborted while the server  *)
(* runs only by another loop.                                              *)
(***************************************************************************)
SvIInv ==
  /\ SvTypeOK
  /\ AcceptorAgrees
  /\ svState # "stopping" => svTodo = {}
  /\ \A s \in svTodo : Known(s)
  /\ \A i \in Start : loop[i] # "idle" => i <= startsRun
  /\ \A i \in Start : <<"start", i>> \in stopReq => i <= startsRun /\ loop[i] = "idle"
  /\ \A i \in Start :
       /\ <<"loop", i>> \in stopReq => loop[i] = "done"
       /\ loop[i] = "aborted" \/ <<"loop", i>> \in stopReq =>
            svState # "started" \/ \E j \in Start \ {i} : loop[j] # "idle"

\* The server drives its sessions through start and stop only: its behaviours are
\* behaviours of the sessions, so what holds of Session holds here.
ServerUsesSessions == SessSpec

\* Every session the manager holds when the server begins to stop is closed and
\* reported, although it may be about to fail, to stop by itself or still be in
\* its transfer_start at that moment. (A session that enters the manager after
\* the snapshot is not covered: nothing stops it.)
ServerStopDrains ==
  \A s \in Session :
    s \in svTodo ~> disconnects[s] = 1 /\ s \notin sessions /\ s \notin socketOpen

\* The accept loops of a stopped server end, unless the server is started again.
LoopsEnd ==
  svState = "stopped" ~>
    svState # "stopped" \/ \A i \in Start : loop[i] \in {"idle", "done"}
=============================================================================
