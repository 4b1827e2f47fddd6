----------------------------- MODULE Server_proofs -----------------------------
(***************************************************************************)
(* Proofs about module Server, for any sessions, any number of stoppers,   *)
(* starts and stops. The server's steps are steps of its sessions, so what *)
(* Session_proofs establishes holds of the sessions inside a server.       *)
(***************************************************************************)
EXTENDS Server, Session_proofs

\* What the server does to its sessions is a step of module Session, given that
\* the sessions it stops have shown themselves to the application.
LEMMA SessionsStep ==
  ASSUME \A s \in svTodo : Known(s), [Next]_vars
  PROVE  [SessNext]_sessVars
<1>1. CASE UNCHANGED vars
  BY <1>1 DEF vars
<1>2. CASE SvSessions
  BY <1>2 DEF SvSessions, SessNext, ServerAssumption
<1>3. ASSUME NEW s \in Session, SvStopSession(s)
      PROVE  SessNext
  BY <1>3, ServerAssumption DEF SvStopSession, ServerAssumption, SessNext
<1>4. ASSUME NEW i \in Start, LoopAccepted(i)
      PROVE  SessNext
  BY <1>4 DEF LoopAccepted, SessNext
<1>5. CASE PostSvStart \/ PostSvStop \/ SvStart \/ SvStartFails \/ SvStopEnd
  BY <1>5 DEF PostSvStart, PostSvStop, SvStart, SvStartFails, SvStopEnd
<1>6. ASSUME NEW c \in Caller, SvStopBegin(c)
      PROVE  UNCHANGED sessVars
  BY <1>6 DEF SvStopBegin
<1>7. ASSUME NEW i \in Start,
             LoopResume(i) \/ AcceptEnds(i) \/ LoopFailed(i) \/ LoopAborted(i)
      PROVE  UNCHANGED sessVars
  BY <1>7 DEF LoopResume, AcceptEnds, LoopFailed, LoopAborted, sessVars
<1> QED BY <1>1, <1>2, <1>3, <1>4, <1>5, <1>6, <1>7 DEF Next, SvNext

\* A session that is known stays known.
LEMMA KnownStable ==
  ASSUME TypeOK, NEW s \in Session, Known(s), [SessNext]_sessVars
  PROVE  Known(s)'
<1> USE SessionAssumption DEF Fiber
<1> DEFINE Unseen == {"idle", "posted", "stream_start"}
<1>1. SUFFICES ASSUME pc'[s]["start"] # pc[s]["start"]
               PROVE  pc'[s]["start"] \notin Unseen
  BY DEF Known
<1>2. CASE UNCHANGED sessVars
  BY <1>1, <1>2 DEF sessVars
<1>3. ASSUME NEW t \in Session,
             \/ PostStart(t) \/ StartBegin(t) \/ SendLoop(t) \/ RecvLoop(t)
             \/ \E f \in Stopper : PostStop(t, f)
      PROVE  pc'[s]["start"] \notin Unseen
  BY <1>1, <1>3 DEF TypeOK, Known, PostStart, StartBegin, SendLoop, RecvLoop, PostStop, Goto
<1>4. ASSUME NEW t \in Session, NEW f \in Fiber, EnterStop(t, f)
      PROVE  pc'[s]["start"] \notin Unseen
  BY <1>1, <1>4, EnterStopFacts DEF StopOutcome
<1>5. ASSUME NEW t \in Session, Enqueue(t)
      PROVE  pc'[s]["start"] \notin Unseen
  BY <1>1, <1>5 DEF Enqueue, TypeOK
<1>6. ASSUME NEW t \in Session, Emplace(t)
      PROVE  pc'[s]["start"] \notin Unseen
  BY <1>1, <1>6 DEF Emplace, TypeOK
<1>7. ASSUME NEW t \in Session, NEW f \in Fiber, NEW loc,
             loc \in {"proto_start", "emplace", "proto_stop", "stream_stop", "timer", "done",
                      "writing", "reading"},
             Goto(t, f, loc)
      PROVE  pc'[s]["start"] \notin Unseen
  BY <1>1, <1>7 DEF Goto, TypeOK
<1>8. ASSUME NEW t \in Session, StreamStarted(t) \/ ProtoStarted(t)
      PROVE  pc'[s]["start"] \notin Unseen
  BY <1>4, <1>7, <1>8 DEF StreamStarted, ProtoStarted, CommitStart
<1>9. ASSUME NEW t \in Session, NEW f \in Stopper, StopBegin(t, f)
      PROVE  pc'[s]["start"] \notin Unseen
  BY <1>4, <1>9 DEF StopBegin
<1>10. ASSUME NEW t \in Session, NEW f \in Fiber,
              Erase(t, f) \/ ProtoStopped(t, f) \/ StreamStopped(t, f) \/ ShutdownFailed(t, f)
       PROVE  pc'[s]["start"] \notin Unseen
  BY <1>7, <1>10, AfterStopFacts DEF Erase, ProtoStopped, StreamStopped, ShutdownFailed
<1>11. ASSUME NEW t \in Session, Written(t)
       PROVE  pc'[s]["start"] \notin Unseen
  BY <1>4, <1>7, <1>11, DequeueFacts DEF Written
<1>12. ASSUME NEW t \in Session, Received(t)
       PROVE  pc'[s]["start"] \notin Unseen
  BY <1>4, <1>7, <1>12 DEF Received, ReadNext
<1> QED BY <1>2, <1>3, <1>5, <1>6, <1>8, <1>9, <1>10, <1>11, <1>12 DEF SessNext, SessionStep

\* What the manager holds is known to the application.
LEMMA RegisteredKnown ==
  ASSUME IInv, NEW s \in sessions
  PROVE  s \in Session /\ Known(s)
<1>1. s \in Session
  BY DEF IInv, TypeOK
<1>2. connects[s] = 1
  BY <1>1 DEF IInv, EntryInv
<1> QED BY <1>1, <1>2 DEF IInv, OwnerInv, Known

-----------------------------------------------------------------------------
(***************************************************************************)
(* The server's own invariant, one lemma per group of actions.             *)
(***************************************************************************)
SvTodoKnown == \A s \in svTodo : Known(s)

LEMMA TodoStep ==
  ASSUME IInv, SvIInv, [Next]_vars
  PROVE  /\ svTodo' \subseteq Session
         /\ SvTodoKnown'
         /\ svState' # "stopping" => svTodo' = {}
<1>1. [SessNext]_sessVars
  BY SessionsStep DEF SvIInv
<1>2. \A s \in Session : Known(s) => Known(s)'
  BY <1>1, KnownStable DEF IInv
<1>3. svTodo \subseteq Session /\ SvTodoKnown
  BY DEF SvIInv, SvTypeOK, SvTodoKnown
<1>4. CASE /\ svTodo' \subseteq svTodo
           /\ svState' # "stopping" => svTodo' = {}
  BY <1>2, <1>3, <1>4 DEF SvTodoKnown
<1>5. ASSUME NEW c \in Caller, SvStopBegin(c)
      PROVE  /\ svTodo' \subseteq Session
             /\ SvTodoKnown'
             /\ svState' # "stopping" => svTodo' = {}
  <2>1. CASE svState' = "stopping" /\ svTodo' = sessions
    BY <1>2, <2>1, RegisteredKnown DEF SvTodoKnown
  <2>2. CASE svState = "stopped" /\ UNCHANGED <<svState, acceptOpen, loop, svTodo>>
    BY <1>4, <2>2 DEF SvIInv
  <2> QED BY <1>5, <2>1, <2>2 DEF SvStopBegin
<1>6. CASE UNCHANGED vars
  BY <1>4, <1>6 DEF vars, svVars, SvIInv
<1>7. CASE SvSessions
  BY <1>4, <1>7 DEF SvSessions, svVars, SvIInv
<1>8. CASE PostSvStart \/ PostSvStop \/ SvStart \/ SvStartFails \/ SvStopEnd
  BY <1>4, <1>8 DEF PostSvStart, PostSvStop, SvStart, SvStartFails, SvStopEnd, SvIInv
<1>9. ASSUME NEW s \in Session, SvStopSession(s)
      PROVE  svTodo' \subseteq svTodo /\ svState' = "stopping"
  BY <1>9 DEF SvStopSession
<1>10. ASSUME NEW i \in Start, \/ LoopResume(i) \/ AcceptEnds(i) \/ LoopAccepted(i)
                               \/ LoopFailed(i) \/ LoopAborted(i)
       PROVE  UNCHANGED <<svTodo, svState>>
  BY <1>10 DEF LoopResume, AcceptEnds, LoopAccepted, LoopFailed, LoopAborted, LoopOnly
<1> QED BY <1>4, <1>5, <1>6, <1>7, <1>8, <1>9, <1>10 DEF Next, SvNext, SvIInv

\* The part of SvIInv that speaks of the acceptor, the loops and the requests.
SvLoopInv ==
  /\ svState \in estate
  /\ acceptOpen \in BOOLEAN
  /\ loop \in [Start -> LoopLoc]
  /\ startsPosted \in 0 .. MaxStart
  /\ startsRun \in 0 .. startsPosted
  /\ userStops \in 0 .. MaxUserStop
  /\ stopReq \subseteq Caller
  /\ AcceptorAgrees
  /\ \A i \in Start : loop[i] # "idle" => i <= startsRun
  /\ \A i \in Start : <<"start", i>> \in stopReq => i <= startsRun /\ loop[i] = "idle"
  /\ \A i \in Start :
       /\ <<"loop", i>> \in stopReq => loop[i] = "done"
       /\ loop[i] = "aborted" \/ <<"loop", i>> \in stopReq =>
            svState # "started" \/ \E j \in Start \ {i} : loop[j] # "idle"

LEMMA SvIInvParts ==
  SvIInv <=> /\ SvLoopInv
             /\ svTodo \subseteq Session
             /\ SvTodoKnown
             /\ svState # "stopping" => svTodo = {}
BY DEF SvIInv, SvLoopInv, SvTypeOK, SvTodoKnown

LEMMA PostStep ==
  ASSUME SvLoopInv, PostSvStart \/ PostSvStop
  PROVE  SvLoopInv'
<1> USE ServerAssumption DEF SvLoopInv, AcceptorAgrees, Start
<1>1. CASE PostSvStart
  BY <1>1 DEF PostSvStart
<1>2. CASE PostSvStop
  <2>1. /\ stopReq' = stopReq \cup {<<"user", userStops'>>}
        /\ userStops' \in 0 .. MaxUserStop
        /\ UNCHANGED <<svState, acceptOpen, loop, startsPosted, startsRun>>
    BY <1>2 DEF PostSvStop
  <2>2. <<"user", userStops'>> \in Caller
    BY <1>2 DEF PostSvStop, Caller
  <2>3. \A i : <<"start", i>> \in stopReq' => <<"start", i>> \in stopReq
    BY <2>1
  <2>4. \A i : <<"loop", i>> \in stopReq' => <<"loop", i>> \in stopReq
    BY <2>1
  <2> QED BY <2>1, <2>2, <2>3, <2>4
<1> QED BY <1>1, <1>2

LEMMA SvStartStep ==
  ASSUME SvLoopInv, SvStart
  PROVE  SvLoopInv'
<1> USE ServerAssumption DEF SvLoopInv, AcceptorAgrees, Start
<1> DEFINE n == startsRun + 1
<1>1. /\ n \in Start /\ startsRun' = n /\ startsRun' \in 0 .. startsPosted
      /\ svState' = "started" /\ acceptOpen' = TRUE
      /\ loop' = [loop EXCEPT ![n] = "posted"]
      /\ UNCHANGED <<startsPosted, userStops, stopReq, svTodo>>
  BY DEF SvStart
<1>2. \A i \in Start : i # n => loop'[i] = loop[i]
  BY <1>1
<1>3. loop' \in [Start -> LoopLoc] /\ loop'[n] = "posted"
  BY <1>1 DEF LoopLoc
<1>4. loop[n] = "idle" /\ <<"start", n>> \notin stopReq /\ <<"loop", n>> \notin stopReq
  BY <1>1
<1>5. \A i \in Start : loop'[i] # "idle" => i <= startsRun'
  BY <1>1, <1>2
<1>6. \A i \in Start : <<"start", i>> \in stopReq' => i <= startsRun' /\ loop'[i] = "idle"
  BY <1>1, <1>2, <1>4
<1>7. \A i \in Start :
       /\ <<"loop", i>> \in stopReq' => loop'[i] = "done"
       /\ loop'[i] = "aborted" \/ <<"loop", i>> \in stopReq' =>
            svState' # "started" \/ \E j \in Start \ {i} : loop'[j] # "idle"
  BY <1>1, <1>2, <1>3, <1>4
<1> QED BY <1>1, <1>3, <1>5, <1>6, <1>7 DEF estate

LEMMA SvStartFailsStep ==
  ASSUME SvLoopInv, SvStartFails
  PROVE  SvLoopInv'
<1> USE ServerAssumption DEF SvLoopInv, AcceptorAgrees, Start
<1> DEFINE n == startsRun + 1
<1>1. /\ n \in Start /\ startsRun' = n /\ startsRun' \in 0 .. startsPosted
      /\ stopReq' = stopReq \cup {<<"start", n>>}
      /\ \/ svState # "stopped" /\ UNCHANGED <<svState, acceptOpen>>
         \/ svState = "stopped" /\ svState' = "starting" /\ acceptOpen' \in BOOLEAN
      /\ UNCHANGED <<loop, startsPosted, userStops>>
  BY DEF SvStartFails
<1>2. <<"start", n>> \in Caller
  BY <1>1 DEF Caller
<1>3. loop[n] = "idle"
  BY <1>1
<1>4. \A i \in Start : <<"start", i>> \in stopReq' => i <= startsRun' /\ loop'[i] = "idle"
  BY <1>1, <1>3
<1>5. \A i \in Start :
       /\ <<"loop", i>> \in stopReq' => loop'[i] = "done"
       /\ loop'[i] = "aborted" \/ <<"loop", i>> \in stopReq' =>
            svState' # "started" \/ \E j \in Start \ {i} : loop'[j] # "idle"
  BY <1>1
<1>6. \A i \in Start : loop'[i] # "idle" => i <= startsRun'
  BY <1>1
<1>7. AcceptorAgrees'
  BY <1>1
<1> QED BY <1>1, <1>2, <1>4, <1>5, <1>6, <1>7 DEF estate

LEMMA SvStopBeginStep ==
  ASSUME SvLoopInv, NEW c \in Caller, SvStopBegin(c)
  PROVE  SvLoopInv'
<1> USE ServerAssumption DEF SvLoopInv, Start
<1>1. /\ stopReq' = stopReq \ {c}
      /\ UNCHANGED <<startsPosted, startsRun, userStops>>
  BY DEF SvStopBegin
<1>2. CASE svState = "stopped" /\ UNCHANGED <<svState, acceptOpen, loop, svTodo>>
  BY <1>1, <1>2 DEF AcceptorAgrees
<1>3. CASE /\ svState' = "stopping"
           /\ acceptOpen' = FALSE
           /\ loop' = AbortLoops
  <2>1. \A i \in Start : loop'[i] = IF loop[i] \in {"accepting", "timer"}
                                   THEN "aborted" ELSE loop[i]
    BY <1>3 DEF AbortLoops
  <2>2. loop' \in [Start -> LoopLoc]
    BY <1>3 DEF AbortLoops, LoopLoc
  <2>3. AcceptorAgrees'
    BY <1>3, <2>1 DEF AcceptorAgrees
  <2> QED BY <1>1, <1>3, <2>1, <2>2, <2>3 DEF estate
<1> QED BY <1>2, <1>3 DEF SvStopBegin

LEMMA SvStopRestStep ==
  ASSUME SvLoopInv,
         \/ SvStopEnd \/ UNCHANGED svVars
         \/ \E s \in Session : SvStopSession(s)
  PROVE  SvLoopInv'
<1> USE ServerAssumption DEF SvLoopInv, AcceptorAgrees, Start
<1>1. CASE SvStopEnd
  BY <1>1 DEF SvStopEnd, estate
<1>2. CASE UNCHANGED svVars
  BY <1>2 DEF svVars
<1>3. ASSUME NEW s \in Session, SvStopSession(s) PROVE SvLoopInv'
  BY <1>3 DEF SvStopSession
<1> QED BY <1>1, <1>2, <1>3

\* An accept loop moves by itself, without touching the other loops.
LEMMA LoopMoveStep ==
  ASSUME SvLoopInv, NEW i \in Start, NEW loc \in LoopLoc \ {"idle", "aborted"},
         loop[i] \notin {"idle", "done", "aborted"},
         loc = "accepting" => acceptOpen,
         LoopOnly(i, loc), UNCHANGED stopReq
  PROVE  SvLoopInv'
<1> USE DEF SvLoopInv, Start
<1>1. /\ loop' = [loop EXCEPT ![i] = loc]
      /\ UNCHANGED <<svState, acceptOpen, startsPosted, startsRun, userStops, svTodo>>
  BY DEF LoopOnly
<1>2. loop' \in [Start -> LoopLoc] /\ \A j \in Start : loop'[j] = IF j = i THEN loc ELSE loop[j]
  BY <1>1
<1>3. AcceptorAgrees'
  BY <1>1, <1>2 DEF AcceptorAgrees
<1>4. \A j \in Start : <<"start", j>> \in stopReq' => j <= startsRun' /\ loop'[j] = "idle"
  BY <1>1, <1>2
<1>5. \A j \in Start :
       /\ <<"loop", j>> \in stopReq' => loop'[j] = "done"
       /\ loop'[j] = "aborted" \/ <<"loop", j>> \in stopReq' =>
            svState' # "started" \/ \E k \in Start \ {j} : loop'[k] # "idle"
  BY <1>1, <1>2
<1>6. \A j \in Start : loop'[j] # "idle" => j <= startsRun'
  BY <1>1, <1>2
<1> QED BY <1>1, <1>2, <1>3, <1>4, <1>5, <1>6

LEMMA LoopStep ==
  ASSUME SvLoopInv, NEW i \in Start,
         \/ LoopResume(i) \/ AcceptEnds(i) \/ LoopAccepted(i)
         \/ LoopFailed(i) \/ LoopAborted(i)
  PROVE  SvLoopInv'
<1> USE DEF Start
<1>1. /\ LoopTest \in LoopLoc \ {"idle", "aborted"}
      /\ LoopTest = "accepting" => acceptOpen
  BY DEF LoopTest, LoopLoc
<1>2. CASE LoopResume(i) \/ LoopAccepted(i)
  BY <1>1, <1>2, LoopMoveStep DEF LoopResume, LoopAccepted
<1>3. CASE AcceptEnds(i)
  BY <1>3, LoopMoveStep DEF AcceptEnds, LoopLoc
<1>4. CASE LoopFailed(i)
  <2> USE DEF SvLoopInv
  <2>1. \A j \in Start : loop'[j] = IF j = i THEN "timer"
                              ELSE IF loop[j] = "timer" THEN "aborted" ELSE loop[j]
    BY <1>4 DEF LoopFailed
  <2>2. loop' \in [Start -> LoopLoc]
    BY <1>4 DEF LoopFailed, LoopLoc
  <2>3. /\ loop[i] = "failed"
        /\ UNCHANGED <<svState, acceptOpen, startsPosted, startsRun, userStops, stopReq>>
    BY <1>4 DEF LoopFailed
  <2>4. AcceptorAgrees'
    BY <2>1, <2>3 DEF AcceptorAgrees
  <2>5. \A j \in Start :
         /\ <<"loop", j>> \in stopReq' => loop'[j] = "done"
         /\ loop'[j] = "aborted" \/ <<"loop", j>> \in stopReq' =>
              svState' # "started" \/ \E k \in Start \ {j} : loop'[k] # "idle"
    BY <2>1, <2>3
  <2> QED BY <2>1, <2>2, <2>3, <2>4, <2>5
<1>5. CASE LoopAborted(i)
  <2> USE DEF SvLoopInv
  <2>1. /\ loop[i] = "aborted" /\ loop' = [loop EXCEPT ![i] = "done"]
        /\ stopReq' = stopReq \cup {<<"loop", i>>}
        /\ UNCHANGED <<svState, acceptOpen, startsPosted, startsRun, userStops, svTodo>>
    BY <1>5 DEF LoopAborted, LoopOnly
  <2>2. /\ loop' \in [Start -> LoopLoc]
        /\ \A j \in Start : loop'[j] = IF j = i THEN "done" ELSE loop[j]
    BY <2>1 DEF LoopLoc
  <2>3. <<"loop", i>> \in Caller
    BY DEF Caller
  <2>4. AcceptorAgrees'
    BY <2>1, <2>2 DEF AcceptorAgrees
  <2>5. \A j \in Start : <<"start", j>> \in stopReq' => j <= startsRun' /\ loop'[j] = "idle"
    BY <2>1, <2>2
  <2>6. \A j \in Start :
         /\ <<"loop", j>> \in stopReq' => loop'[j] = "done"
         /\ loop'[j] = "aborted" \/ <<"loop", j>> \in stopReq' =>
              svState' # "started" \/ \E k \in Start \ {j} : loop'[k] # "idle"
    BY <2>1, <2>2
  <2> QED BY <2>1, <2>2, <2>3, <2>4, <2>5, <2>6
<1> QED BY <1>2, <1>3, <1>4, <1>5

LEMMA SvNextInv ==
  ASSUME IInv, SvIInv, [Next]_vars
  PROVE  SvIInv'
<1>1. SvLoopInv'
  <2>1. SvLoopInv
    BY SvIInvParts
  <2>2. CASE SvNext
    BY <2>1, <2>2, PostStep, SvStartStep, SvStartFailsStep, SvStopBeginStep,
       SvStopRestStep, LoopStep
    DEF SvNext
  <2>3. CASE SvSessions \/ UNCHANGED vars
    BY <2>1, <2>3, SvStopRestStep DEF SvSessions, vars
  <2> QED BY <2>2, <2>3 DEF Next
<1>2. /\ svTodo' \subseteq Session
      /\ SvTodoKnown'
      /\ svState' # "stopping" => svTodo' = {}
  BY TodoStep
<1> QED BY <1>1, <1>2 DEF SvIInv, SvLoopInv, SvTypeOK, SvTodoKnown

LEMMA SvInitInv == SvInit => IInv /\ SvIInv
<1>1. SvInit => IInv
  BY InitIInv DEF SvInit
<1>2. SvInit => SvIInv
  <2> SUFFICES ASSUME SvInit PROVE SvIInv
    OBVIOUS
  <2>1. loop = [i \in Start |-> "idle"] /\ "idle" \in LoopLoc
    BY DEF SvInit, LoopLoc
  <2>2. loop \in [Start -> LoopLoc] /\ \A i \in Start : loop[i] = "idle"
    BY <2>1
  <2>3. /\ svState = "stopped" /\ acceptOpen = FALSE /\ svTodo = {} /\ stopReq = {}
        /\ startsPosted = 0 /\ startsRun = 0 /\ userStops = 0
    BY DEF SvInit
  <2>4. SvTypeOK
    <3>1. svState \in estate /\ acceptOpen \in BOOLEAN
      BY <2>3 DEF estate
    <3>2. /\ startsPosted \in 0 .. MaxStart /\ startsRun \in 0 .. startsPosted
          /\ userStops \in 0 .. MaxUserStop
      BY <2>3, ServerAssumption DEF ServerAssumption
    <3>3. stopReq \subseteq Caller /\ svTodo \subseteq Session
      BY <2>3
    <3> QED BY <2>2, <3>1, <3>2, <3>3 DEF SvTypeOK
  <2> QED BY <2>2, <2>3, <2>4 DEF SvIInv, AcceptorAgrees
<1> QED BY <1>1, <1>2

\* The two inductive invariants hold together: the sessions' lets the server stop
\* what it finds in the manager, the server's keeps its steps within the sessions'.
LEMMA BothInvariants == Spec => [](IInv /\ SvIInv)
<1>1. IInv /\ SvIInv /\ [Next]_vars => (IInv /\ SvIInv)'
  <2> SUFFICES ASSUME IInv, SvIInv, [Next]_vars PROVE IInv' /\ SvIInv'
    OBVIOUS
  <2>1. [SessNext]_sessVars
    BY SessionsStep DEF SvIInv
  <2> QED BY <2>1, NextIInv, SvNextInv
<1> QED BY <1>1, SvInitInv, PTL DEF Spec

\* The server's variables keep their types.
THEOREM SvTypeCorrect == Spec => []SvTypeOK
<1>1. SvIInv => SvTypeOK
  BY DEF SvIInv
<1> QED BY <1>1, BothInvariants, PTL

\* Over any sequence of starts, failed starts and stops the acceptor is open while
\* the server is started and closed once it is stopped.
THEOREM AcceptorAgreesHolds == Spec => []AcceptorAgrees
<1>1. SvIInv => AcceptorAgrees
  BY DEF SvIInv
<1> QED BY <1>1, BothInvariants, PTL

\* The behaviours of a server, seen at its sessions, are behaviours of Session:
\* every theorem of Session_proofs holds inside a server.
THEOREM ServerUsesSessionsHolds == Spec => ServerUsesSessions
<1>1. SvInit => SessInit
  BY DEF SvInit
<1>2. SvIInv /\ [Next]_vars => [SessNext]_sessVars
  BY SessionsStep DEF SvIInv
<1> QED BY <1>1, <1>2, BothInvariants, PTL DEF Spec, ServerUsesSessions, SessSpec

\* So the application of a server sees each session opened and closed as
\* SessionLife promises.
THEOREM ServerKeepsLife == Spec => SessionLifeSpec
BY ServerUsesSessionsHolds, SessionImplementsLife, PTL DEF ServerUsesSessions

\* A started server goes down only when it is asked to, when a start is repeated
\* while it runs, or when loops of two starts met.
THEOREM UnaskedStopHolds == Spec => UnaskedStop
<1> DEFINE Legit == \A c \in Caller :
       svState = "started" /\ svState' = "stopping" /\ c \in stopReq \ stopReq' =>
         \/ c[1] = "user"
         \/ c[1] = "loop" /\ \E j \in Start \ {c[2]} : loop[j] # "idle"
         \/ c[1] = "start" /\ loop[c[2]] = "idle"
<1>1. SvIInv => Legit
  <2> SUFFICES ASSUME SvIInv, NEW c \in Caller, svState = "started", c \in stopReq
               PROVE  \/ c[1] = "user"
                      \/ c[1] = "loop" /\ \E j \in Start \ {c[2]} : loop[j] # "idle"
                      \/ c[1] = "start" /\ loop[c[2]] = "idle"
    OBVIOUS
  <2>1. CASE c \in {"user"} \X (1 .. MaxUserStop)
    BY <2>1
  <2>2. CASE c \in {"start", "loop"} \X Start
    <3>1. PICK k \in {"start", "loop"}, i \in Start : c = <<k, i>>
      BY <2>2
    <3>2. CASE k = "start"
      BY <3>1, <3>2 DEF SvIInv
    <3>3. CASE k = "loop"
      BY <3>1, <3>3 DEF SvIInv
    <3> QED BY <3>1, <3>2, <3>3
  <2> QED BY <2>1, <2>2 DEF Caller
<1>2. SvIInv /\ [Next]_vars => [Legit]_vars
  BY <1>1
<1> QED BY <1>2, BothInvariants, PTL DEF Spec, UnaskedStop
=============================================================================
