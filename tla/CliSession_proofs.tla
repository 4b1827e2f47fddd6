--------------------------- MODULE CliSession_proofs ---------------------------
(***************************************************************************)
(* Proofs about the tcp client session, for any number of connections,     *)
(* messages, retries and stops: what the application sees of its           *)
(* connections, the one chain of reconnects and its retries, the end that  *)
(* stop() puts to it, and the one write at a time on the send queue.       *)
(***************************************************************************)
EXTENDS CliSession, SequenceTheorems, FiniteSetTheorems, TLAPS

\* Where a loop is between its spawn and its end, when it is in no chain.
Looping == {"posted", "writing", "writeOver", "timer", "woken", "reading", "readOver"}

\* The waits that a teardown ends.
Plugged == {"timer", "writing", "reading"}

\* A write is in progress, or has ended and was not yet seen to.
Writing == {"writing", "writeOver"}

Starter == <<"start", 0>>

-----------------------------------------------------------------------------
(***************************************************************************)
(* The invariant: the control of the session.                              *)
(***************************************************************************)
ControlTypes ==
  /\ state \in {"stopped", "starting", "started"}
  /\ socketOpen \in BOOLEAN /\ registered \in BOOLEAN /\ is_canceled \in BOOLEAN
  /\ halted \in BOOLEAN /\ leaked \in BOOLEAN
  /\ pc \in [Fiber -> Loc]
  /\ reconn_num \in Nat /\ failed \in Nat /\ closed \in Nat
  /\ opened \in 0 .. MaxConn
  /\ revived \in 0 .. opened

\* The manager holds the session while it is started, and what was opened was closed
\* unless it is open.
Account ==
  /\ registered <=> state = "started"
  /\ opened = closed + (IF state = "started" THEN 1 ELSE 0)

\* Which kind of fiber waits for what.
Kinds == \A f \in Fiber :
  /\ pc[f] \in {"writing", "writeOver", "timer", "woken"} => f[1] = "send"
  /\ pc[f] \in {"reading", "readOver"} => f[1] = "recv"
  /\ pc[f] \in Chain => ~ IsPlainStop(f)
  /\ pc[f] = "sleep" => IsReconn

\* What the state of the session says about the loops: all are on their way out of a
\* stopped one, and have left before the next attempt begins.
Phases == \A f \in Fiber :
  /\ state = "stopped" => pc[f] \notin Plugged
  /\ state = "starting" /\ f[1] \in {"send", "recv"} => pc[f] \notin Looping
  /\ state = "started" => pc[f] \notin {"writeOver", "readOver"}

\* Before co_start begins nothing has happened.
Fresh ==
  pc[Starter] \in {"idle", "posted"} =>
    /\ state = "stopped" /\ opened = 0 /\ failed = 0 /\ reconn_num = 0 /\ ~ halted
    /\ \A g \in Fiber : g[1] # "start" => pc[g] = "idle"

\* A send_t that comes back to a session that is not started finds the queue cancelled.
Canceled == \A f \in Fiber :
  f[1] = "send" /\ pc[f] # "idle" /\ state # "started" => is_canceled

\* A stopped session holds a socket only when co_connect opened it afterwards.
Released == state = "stopped" /\ ~ leaked => ~ socketOpen

\* One chain at a time: it sleeps for a stopped session, connects for one that starts,
\* and only a stop() leaves it behind in a stopped one.
Alone ==
  /\ \A f, g \in Fiber : pc[f] \in Chain /\ pc[g] \in Chain => f = g
  /\ \A f \in Fiber : pc[f] = "sleep" => state = "stopped" /\ ~ halted
  /\ \A f \in Fiber : pc[f] \in Chain \ {"sleep"} =>
        state # "started" /\ (state = "stopped" => halted)
  /\ halted => state = "stopped"

\* How the attempts reported and the attempts counted go together.
Counted ==
  /\ failed <= RetryNum + 1
  /\ ~ IsReconn => reconn_num = 0 /\ (state # "stopped" => failed = 0)
  /\ IsReconn /\ ~ halted =>
       /\ reconn_num <= RetryNum + 1
       /\ state = "started" => reconn_num = 0 /\ failed = 0
       /\ state # "started" => reconn_num = failed + (IF opened = 0 THEN 0 ELSE 1)
       /\ state = "starting" => reconn_num <= RetryNum
       /\ \A f \in Fiber : pc[f] = "sleep" => reconn_num <= RetryNum
       /\ state = "stopped" /\ reconn_num <= RetryNum =>
            \/ pc[Starter] \in {"idle", "posted"}
            \/ \E f \in Fiber : pc[f] = "sleep"

Control ==
  /\ ControlTypes /\ Account /\ Kinds /\ Phases /\ Fresh /\ Canceled /\ Released
  /\ ErrorStop = {} => Alone /\ Counted

-----------------------------------------------------------------------------
\* The fibers by their kind, and where co_stop takes one.
LEMMA Fibers ==
  /\ Starter \in Fiber
  /\ \A c \in Conn : <<"send", c>> \in Fiber /\ <<"recv", c>> \in Fiber
  /\ \A f \in Fiber : f[1] = "start" => f = Starter
  /\ \A f \in Fiber : f[1] \in {"start", "send", "recv", "stop"}
  /\ ErrorStop = {} => \A f \in Fiber : f[1] = "stop" => IsPlainStop(f)
  BY DEF Fiber, Conn, Starter, IsPlainStop

LEMMA Locations ==
  /\ \A l \in Loc : Over(l) \in Loc
  /\ {"idle", "posted", "timer", "done", "sleep", "resolving", "connecting", "writing",
      "woken", "reading", "connectOver"} \subseteq Loc
  BY DEF Loc, Chain, Over

\* What a teardown makes of the waits.
LEMMA OverFacts ==
  ASSUME NEW l \in Loc
  PROVE  /\ Over(l) \notin Plugged \cup {"connecting"}
         /\ Over(l) = "sleep" <=> l = "sleep"
         /\ Over(l) \in {"idle", "posted"} <=> l \in {"idle", "posted"}
         /\ Over(l) = "idle" <=> l = "idle"
         /\ Over(l) \in Chain <=> l \in Chain
         /\ Over(l) \in Writing <=> l \in Writing
         /\ Over(l) \in {"woken"} <=> l \in {"timer", "woken"}
         /\ Over(l) \in {"reading", "readOver"} <=> l \in {"reading", "readOver"}
  BY DEF Over, Loc, Chain, Plugged, Writing

-----------------------------------------------------------------------------
(***************************************************************************)
(* The steps, by what they do to the control.                              *)
(***************************************************************************)
\* A fiber moves on and the session stays as it is.
Moves(f, l) ==
  /\ Goto(f, l)
  /\ UNCHANGED <<state, registered, is_canceled, reconn_num, opened, closed, failed,
                 revived, halted>>
  /\ \/ l = "posted" /\ pc[f] = "idle"
          /\ (f = Starter \/ (f[1] = "stop" /\ (opened > 0 \/ failed > 0)))
     \/ l = "connecting" /\ pc[f] \in {"resolving", "connectOver"} /\ socketOpen'
     \/ l \in {"writing", "timer"} /\ f[1] = "send" /\ state = "started"
          /\ pc[f] \in {"posted", "woken", "writing"}
          /\ (l = "timer" => queue' = <<>> \/ ~ socketOpen)
     \/ l = "woken" /\ pc[f] = "timer"
     \/ l = "reading" /\ f[1] = "recv" /\ pc[f] = "posted" /\ state = "started"
     \/ l = "done" /\ pc[f] \notin {"idle", "sleep"} /\ ~ (f = Starter /\ pc[f] = "posted")
          /\ (f[1] = "send" /\ state = "started" => is_canceled \/ ~ socketOpen)

\* co_start begins: f sleeps, or is the first one.
Begins(f) ==
  /\ state = "stopped" /\ state' = "starting"
  /\ Goto(f, "resolving")
  /\ UNCHANGED <<socketOpen, registered, is_canceled, reconn_num, opened, closed, failed,
                 revived, halted, leaked>>
  /\ \/ f = Starter /\ pc[f] = "posted"
     \/ pc[f] = "sleep" /\ \A g \in Fiber : pc[g] \notin Ready

\* co_stop of a session that is up or starting: where its callers are.
Falls(f) ==
  /\ Teardown(f)
  /\ \/ f[1] = "stop" /\ pc[f] = "posted"
     \/ pc[f] \in Chain \cup {"writing", "writeOver", "reading", "readOver"}

\* A socket is opened for a chain, or the socket is left alone.
Sockets ==
  \/ UNCHANGED <<socketOpen, leaked>>
  \/ socketOpen' = TRUE /\ leaked' = (leaked \/ state = "stopped")

Commits(f) ==
  /\ Commit(f)
  /\ pc[f] \in {"connecting", "connectOver"}

\* co_stop that finds the session stopped: the caller ends, a send_t included.
LEMMA StopAgain ==
  ASSUME Control, NEW f \in Fiber,
         state = "stopped", Goto(f, Return(f, is_canceled)), UNCHANGED connVars,
         pc[f] \notin {"idle", "sleep"}, ~ (f = Starter /\ pc[f] = "posted")
  PROVE  Moves(f, "done") /\ Sockets
  <1>1. Return(f, is_canceled) = "done"
    BY DEF Return, Control, Canceled
  <1>2. QED
    BY <1>1 DEF Moves, Sockets, connVars

\* Every step is one of these.
LEMMA StepKinds ==
  ASSUME Control, CliNext
  PROVE  \/ UNCHANGED <<connVars, pc>>
         \/ \E f \in Fiber : \/ \E l \in Loc : Moves(f, l) /\ Sockets
                             \/ Begins(f) \/ Falls(f) \/ Commits(f)
  <1> DEFINE Goal == \/ UNCHANGED <<connVars, pc>>
                     \/ \E f \in Fiber : \/ \E l \in Loc : Moves(f, l) /\ Sockets
                                         \/ Begins(f) \/ Falls(f) \/ Commits(f)
  <1>1. CASE PostStart
    BY <1>1, Fibers, Locations DEF PostStart, Moves, Sockets, connVars, Starter
  <1>2. CASE Enqueue
    BY <1>2, Locations DEF Enqueue, Moves, Sockets, connVars
  <1>3. ASSUME NEW f \in Fiber, CoStop(f),
               \/ f[1] = "stop" /\ pc[f] = "posted"
               \/ pc[f] \in (Chain \ {"sleep"})
                    \cup {"writing", "writeOver", "reading", "readOver"}
        PROVE  Goal
    <2>1. CASE Teardown(f)
      BY <1>3, <2>1 DEF Falls
    <2>2. CASE /\ state = "stopped"
               /\ Goto(f, Return(f, is_canceled))
               /\ UNCHANGED connVars
      <3>1. pc[f] \notin {"idle", "sleep"} /\ ~ (f = Starter /\ pc[f] = "posted")
        BY <1>3 DEF Chain, Starter
      <3>2. QED
        BY <2>2, <3>1, StopAgain, Locations
    <2>3. QED
      BY <1>3, <2>1, <2>2 DEF CoStop
  <1>4. ASSUME NEW f \in Fiber, StartBegin(f)
        PROVE  Goal
    <2>1. state = "stopped"
      BY <1>4 DEF StartBegin, Control, Fresh, Starter
    <2>2. Begins(f)
      BY <1>4, <2>1 DEF StartBegin, CoStart, Begins, Starter
    <2>3. QED
      BY <2>2
  <1>5. ASSUME NEW f \in Fiber, SleepEnds(f)
        PROVE  Goal
    <2>1. CASE Teardown(f)
      BY <1>5, <2>1 DEF SleepEnds, Falls, Chain
    <2>2. CASE state = "stopped"
      BY <1>5, <2>2 DEF SleepEnds, CoStart, Begins
    <2>3. QED
      BY <1>5, <2>1, <2>2 DEF SleepEnds, CoStart
  <1>6. ASSUME NEW f \in Fiber, Resolved(f) \/ NextEndpoint(f)
        PROVE  Goal
    BY <1>6, Locations DEF Resolved, NextEndpoint, Moves, Sockets
  <1>7. ASSUME NEW f \in Fiber, Connected(f)
        PROVE  Goal
    BY <1>3, <1>7 DEF Connected, Commits, Chain
  <1>8. ASSUME NEW f \in Fiber, ConnectFails(f) \/ StopBegin(f) \/ WriteFails(f) \/ ReadFails(f)
        PROVE  Goal
    BY <1>3, <1>8 DEF ConnectFails, StopBegin, WriteFails, ReadFails, Chain
  <1>9. ASSUME NEW f \in Fiber, PostStop(f)
        PROVE  Goal
    BY <1>9, Locations DEF PostStop, Moves, Sockets, connVars
  <1>10. ASSUME NEW f \in Fiber, SendLoop(f)
         PROVE  Goal
    <2>1. PICK l \in {"writing", "timer", "done"} :
            /\ Goto(f, l)
            /\ l # "done" => state = "started"
            /\ l = "timer" => queue' = <<>>
            /\ l = "done" => state # "started" \/ is_canceled \/ ~ socketOpen
      BY <1>10 DEF SendLoop, SendGoto, Dequeue, is_started
    <2>2. Moves(f, l) /\ Sockets
      BY <1>10, <2>1 DEF SendLoop, Moves, Sockets, connVars, Starter
    <2>3. QED
      BY <2>2, Locations
  <1>11. ASSUME NEW f \in Fiber, Written(f)
         PROVE  Goal
    <2>1. f[1] = "send"
      BY <1>11 DEF Written, Control, Kinds
    <2>2. state # "started" => is_canceled
      BY <1>11, <2>1 DEF Written, Control, Canceled
    <2>3. PICK l \in {"writing", "timer", "done"} :
            /\ Goto(f, l)
            /\ l # "done" => state = "started"
            /\ l = "timer" => queue' = <<>> \/ ~ socketOpen
            /\ l = "done" => state # "started" \/ is_canceled \/ ~ socketOpen
      BY <1>11, <2>2 DEF Written, SendGoto, Dequeue, is_started
    <2>4. state = "started" => pc[f] = "writing"
      BY <1>11 DEF Written, Control, Phases
    <2>5. Moves(f, l) /\ Sockets
      BY <1>11, <2>1, <2>3, <2>4 DEF Written, Moves, Sockets, connVars, Starter
    <2>6. QED
      BY <2>5, Locations
  <1>12. ASSUME NEW f \in Fiber, RecvLoop(f)
         PROVE  Goal
    BY <1>12, Locations DEF RecvLoop, Moves, Sockets, connVars, is_started, Starter
  <1>13. QED
    BY <1>1, <1>2, <1>4, <1>5, <1>6, <1>7, <1>8, <1>9, <1>10, <1>11, <1>12 DEF CliNext

-----------------------------------------------------------------------------
(***************************************************************************)
(* The control is kept.                                                    *)
(***************************************************************************)
\* Control holds of the initial state.
LEMMA InitControl == CliAssumption /\ CliInit => Control
  <1> SUFFICES ASSUME CliAssumption, CliInit PROVE Control
    OBVIOUS
  <1>1. ControlTypes
    <2>1. pc \in [Fiber -> Loc]
      BY Locations DEF CliInit
    <2>2. 0 \in 0 .. MaxConn /\ 0 \in 0 .. 0
      BY DEF CliAssumption
    <2>3. QED
      BY <2>1, <2>2 DEF CliInit, ControlTypes
  <1>2. Account /\ Fresh /\ Canceled /\ Released
    <2>1. Account
      BY DEF CliInit, Account
    <2>2. Fresh
      BY DEF CliInit, Fresh
    <2>3. Canceled /\ Released
      BY DEF CliInit, Canceled, Released
    <2>4. QED
      BY <2>1, <2>2, <2>3
  <1>3. Kinds /\ Phases
    BY DEF CliInit, Kinds, Phases, Chain, Looping, Plugged
  <1>4. Alone
    BY DEF CliInit, Alone, Chain
  <1>5. Counted
    BY Fibers DEF CliAssumption, CliInit, Counted
  <1>6. QED
    BY <1>1, <1>2, <1>3, <1>4, <1>5 DEF Control

\* A fiber moves on while the session stays as it is.
LEMMA MovesKeeps ==
  ASSUME Control, NEW f \in Fiber, NEW l \in Loc, Moves(f, l), Sockets
  PROVE  Control'
  <1>1. /\ pc \in [Fiber -> Loc]
        /\ pc' = [pc EXCEPT ![f] = l]
        /\ pc' \in [Fiber -> Loc]
        /\ pc'[f] = l
        /\ \A g \in Fiber : g # f => pc'[g] = pc[g]
    BY DEF Control, ControlTypes, Moves, Goto
  <1>2. UNCHANGED <<state, registered, is_canceled, reconn_num, opened, closed, failed,
                    revived, halted>>
    BY DEF Moves
  <1>3. ControlTypes'
    BY <1>1, <1>2 DEF Control, ControlTypes, Sockets
  <1>4. Account' /\ Released'
    <2>1. Account'
      BY <1>2 DEF Control, Account
    <2>2. Released'
      BY <1>2 DEF Control, Released, Sockets
    <2>3. QED
      BY <2>1, <2>2
  <1>5. Kinds'
    BY <1>1 DEF Control, Kinds, Moves, Chain, IsPlainStop, Starter
  <1>6. Phases'
    BY <1>1, <1>2 DEF Control, Phases, Moves, Plugged, Looping, Chain, Starter, Kinds
  <1>7. Fresh'
    BY <1>1, <1>2, Fibers DEF Control, Fresh, Moves, Starter
  <1>8. Canceled'
    BY <1>1, <1>2 DEF Control, Canceled, Moves, Starter
  <1>9. ASSUME ErrorStop = {} PROVE Alone' /\ Counted'
    <2>1. /\ l = "sleep" => FALSE
          /\ l \in Chain => pc[f] \in Chain \ {"sleep"}
      BY DEF Moves, Chain
    <2>2. Alone'
      BY <1>1, <1>2, <1>9, <2>1 DEF Control, Alone
    <2>3. /\ \A g \in Fiber : pc'[g] = "sleep" <=> pc[g] = "sleep"
          /\ pc[Starter] \in {"idle", "posted"} => pc'[Starter] \in {"idle", "posted"}
      <3>1. pc[f] # "sleep" /\ l # "sleep"
        BY DEF Moves
      <3>2. f = Starter /\ pc[f] \in {"idle", "posted"} => l \in {"idle", "posted"}
        BY DEF Moves, Starter
      <3>3. QED
        BY <1>1, <3>1, <3>2
    <2>4. Counted'
      BY <1>2, <1>9, <2>3 DEF Control, Counted
    <2>5. QED
      BY <2>2, <2>4
  <1>10. QED
    BY <1>3, <1>4, <1>5, <1>6, <1>7, <1>8, <1>9 DEF Control

\* co_start begins.
LEMMA BeginsKeeps ==
  ASSUME CliAssumption, Control, NEW f \in Fiber, Begins(f)
  PROVE  Control'
  <1>1. /\ pc \in [Fiber -> Loc]
        /\ pc' = [pc EXCEPT ![f] = "resolving"]
        /\ pc' \in [Fiber -> Loc]
        /\ pc'[f] = "resolving"
        /\ \A g \in Fiber : g # f => pc'[g] = pc[g]
    BY Locations DEF Control, ControlTypes, Begins, Goto
  <1>2. /\ state = "stopped" /\ state' = "starting"
        /\ UNCHANGED <<socketOpen, registered, is_canceled, reconn_num, opened, closed,
                       failed, revived, halted, leaked>>
    BY DEF Begins
  <1>3. ControlTypes' /\ Account' /\ Released'
    BY <1>1, <1>2 DEF Control, ControlTypes, Account, Released
  <1>4. Kinds'
    BY <1>1 DEF Control, Kinds, Begins, Chain, IsPlainStop, Starter
  <1>5. Phases'
    <2>1. ASSUME NEW g \in Fiber, g[1] \in {"send", "recv"}
          PROVE  pc'[g] \notin Looping
      <3>1. CASE g = f
        BY <1>1, <3>1 DEF Looping
      <3>2. CASE f = Starter /\ pc[f] = "posted"
        BY <1>1, <2>1, <3>2 DEF Control, Fresh, Looping, Starter
      <3>3. CASE g # f /\ \A h \in Fiber : pc[h] \notin Ready
        BY <1>1, <1>2, <3>3 DEF Control, Phases, Looping, Ready, Plugged
      <3>4. QED
        BY <3>1, <3>2, <3>3 DEF Begins
    <2>2. QED
      BY <1>2, <2>1 DEF Phases
  <1>6. Fresh'
    BY <1>1, <1>2, Fibers DEF Control, Fresh, Begins, Starter
  <1>7. Canceled'
    BY <1>1, <1>2 DEF Control, Canceled, Begins, Starter
  <1>8. ASSUME ErrorStop = {} PROVE Alone' /\ Counted'
    <2>1. ~ halted /\ \A g \in Fiber : g # f => pc[g] \notin Chain
      <3>1. CASE f = Starter /\ pc[f] = "posted"
        <4>1. \A g \in Fiber : g # f => pc[g] = "idle"
          BY <3>1, Fibers DEF Control, Fresh
        <4>2. QED
          BY <3>1, <4>1 DEF Control, Fresh, Chain
      <3>2. CASE pc[f] = "sleep"
        BY <1>8, <3>2 DEF Control, Alone, Chain
      <3>3. QED
        BY <3>1, <3>2 DEF Begins
    <2>2. Alone'
      BY <1>1, <1>2, <2>1 DEF Alone, Chain
    <2>3. reconn_num <= RetryNum \/ ~ IsReconn \/ halted
      <3>1. CASE f = Starter /\ pc[f] = "posted"
        BY <3>1 DEF Control, Fresh, CliAssumption
      <3>2. CASE pc[f] = "sleep"
        BY <1>8, <3>2 DEF Control, Counted
      <3>3. QED
        BY <3>1, <3>2 DEF Begins
    <2>4. ~ IsReconn => failed = 0
      BY DEF Control, Kinds, Fresh, Begins
    <2>5. QED
      BY <1>1, <1>2, <1>8, <2>2, <2>3, <2>4 DEF Control, Counted
  <1>9. QED
    BY <1>3, <1>4, <1>5, <1>6, <1>7, <1>8 DEF Control

\* What a teardown by f does to the fibers.
LEMMA FallsMoves ==
  ASSUME Control, NEW f \in Fiber, Falls(f)
  PROVE  /\ pc \in [Fiber -> Loc] /\ pc' \in [Fiber -> Loc]
         /\ pc'[f] = IF Retries(f) THEN "sleep" ELSE "done"
         /\ \A g \in Fiber : g # f => pc'[g] = Over(pc[g])
         /\ pc[f] # "idle" /\ pc[Starter] \notin {"idle", "posted"}
  <1>1. pc \in [Fiber -> Loc]
    BY DEF Control, ControlTypes
  <1>2. Return(f, TRUE) = "done"
    BY DEF Return
  <1>3. pc' = [g \in Fiber |-> IF g = f THEN (IF Retries(f) THEN "sleep" ELSE "done")
                               ELSE Over(pc[g])]
    BY <1>2 DEF Falls, Teardown
  <1>4. pc[f] # "idle"
    BY DEF Falls, Chain
  <1>5. pc[Starter] \notin {"idle", "posted"}
    BY DEF Falls, Teardown, Control, Fresh
  <1>6. pc' \in [Fiber -> Loc]
    BY <1>1, <1>3, Locations
  <1>7. QED
    BY <1>1, <1>3, <1>4, <1>5, <1>6

\* The session goes down.
LEMMA FallsKeeps ==
  ASSUME CliAssumption, Control, NEW f \in Fiber, Falls(f)
  PROVE  Control'
  <1>1. /\ state \in {"starting", "started"} /\ state' = "stopped"
        /\ is_canceled' = TRUE /\ registered' = FALSE /\ socketOpen' = FALSE
        /\ IF state = "started" THEN closed' = closed + 1 /\ failed' = failed
                                ELSE failed' = failed + 1 /\ closed' = closed
        /\ reconn_num' = IF WithError(f) /\ IsReconn THEN reconn_num + 1 ELSE reconn_num
        /\ halted' = (halted \/ IsPlainStop(f))
        /\ UNCHANGED <<opened, revived, leaked>>
    BY DEF Falls, Teardown, BecomeStopped, CloseSocket
  <1>2. /\ pc \in [Fiber -> Loc] /\ pc' \in [Fiber -> Loc]
        /\ pc'[f] = IF Retries(f) THEN "sleep" ELSE "done"
        /\ \A g \in Fiber : g # f => pc'[g] = Over(pc[g])
        /\ pc[f] # "idle" /\ pc[Starter] \notin {"idle", "posted"}
    BY FallsMoves
  <1>3. ControlTypes'
    <2>1. halted' \in BOOLEAN
      BY <1>1 DEF Control, ControlTypes, IsPlainStop
    <2>2. reconn_num' \in Nat /\ failed' \in Nat /\ closed' \in Nat
      BY <1>1 DEF Control, ControlTypes
    <2>3. QED
      BY <1>1, <1>2, <2>1, <2>2 DEF Control, ControlTypes
  <1>4. Account' /\ Released'
    <2>1. Account'
      BY <1>1 DEF Control, ControlTypes, Account
    <2>2. Released'
      BY <1>1 DEF Released
    <2>3. QED
      BY <2>1, <2>2
  <1>5. Retries(f) => ~ IsPlainStop(f) /\ IsReconn
    BY DEF Retries, WithError
  <1>6. Kinds'
    <2>1. ASSUME NEW g \in Fiber
          PROVE  /\ pc'[g] \in {"writing", "writeOver", "timer", "woken"} => g[1] = "send"
                 /\ pc'[g] \in {"reading", "readOver"} => g[1] = "recv"
                 /\ pc'[g] \in Chain => ~ IsPlainStop(g)
                 /\ pc'[g] = "sleep" => IsReconn
      <3>1. CASE g = f
        BY <1>2, <1>5, <3>1 DEF Chain
      <3>2. CASE g # f
        <4>1. pc'[g] = Over(pc[g]) /\ pc[g] \in Loc
          BY <1>2, <3>2
        <4>2. /\ pc[g] \in {"writing", "writeOver", "timer", "woken"} => g[1] = "send"
              /\ pc[g] \in {"reading", "readOver"} => g[1] = "recv"
              /\ pc[g] \in Chain => ~ IsPlainStop(g)
              /\ pc[g] = "sleep" => IsReconn
          BY DEF Control, Kinds
        <4>3. QED
          BY <4>1, <4>2, OverFacts DEF Writing, Plugged
      <3>3. QED
        BY <3>1, <3>2
    <2>2. QED
      BY <2>1 DEF Kinds, IsPlainStop
  <1>7. Phases'
    BY <1>1, <1>2, OverFacts DEF Phases, Plugged
  <1>8. Fresh' /\ Canceled'
    <2>1. pc'[Starter] \notin {"idle", "posted"}
      BY <1>2, Fibers, OverFacts
    <2>2. QED
      BY <1>1, <2>1 DEF Fresh, Canceled
  <1>9. ASSUME ErrorStop = {} PROVE Alone' /\ Counted'
    <2>1. Alone /\ Counted /\ ~ halted
      BY <1>1, <1>9 DEF Control, Alone
    \* Who takes a starting session down is its chain, or a stop.
    <2>2. \/ IsPlainStop(f) /\ ~ Retries(f) /\ pc[f] \notin Chain
          \/ \A g \in Fiber : g # f => pc[g] \notin Chain
      <3>1. CASE f[1] = "stop" /\ pc[f] = "posted"
        BY <1>5, <1>9, <3>1, Fibers DEF Chain
      <3>2. CASE pc[f] \in Chain
        BY <2>1, <3>2 DEF Alone
      <3>3. CASE pc[f] \in {"writing", "writeOver", "reading", "readOver"}
        <4>1. state = "started"
          BY <1>1, <3>3 DEF Control, Kinds, Phases, Looping
        <4>2. QED
          BY <2>1, <4>1 DEF Alone, Chain
      <3>4. QED
        BY <3>1, <3>2, <3>3 DEF Falls
    <2>3. \A g \in Fiber : pc[g] # "sleep"
      BY <1>1, <2>1 DEF Alone
    <2>4. \A g \in Fiber : g # f => /\ pc'[g] \in Chain <=> pc[g] \in Chain
                                    /\ pc'[g] # "sleep"
      BY <1>2, <2>3, OverFacts
    <2>5. Alone'
      <3>1. CASE IsPlainStop(f) /\ ~ Retries(f) /\ pc[f] \notin Chain
        <4>1. pc'[f] = "done" /\ halted' /\ state' = "stopped"
          BY <1>1, <1>2, <3>1
        <4>2. \A g \in Fiber : pc'[g] \in Chain => pc[g] \in Chain /\ pc'[g] # "sleep"
          BY <2>4, <3>1, <4>1 DEF Chain
        <4>3. QED
          BY <2>1, <4>1, <4>2 DEF Alone, Chain
      <3>2. CASE /\ ~ IsPlainStop(f)
                 /\ \A g \in Fiber : g # f => pc[g] \notin Chain
        <4>1. ~ halted' /\ state' = "stopped"
          BY <1>1, <2>1, <3>2
        <4>2. \A g \in Fiber : pc'[g] \in Chain => g = f /\ pc'[g] = "sleep"
          BY <1>2, <2>4, <3>2 DEF Chain
        <4>3. QED
          BY <4>1, <4>2 DEF Alone, Chain
      <3>3. CASE IsPlainStop(f) /\ \A g \in Fiber : g # f => pc[g] \notin Chain
        <4>1. pc'[f] = "done" /\ halted' /\ state' = "stopped"
          BY <1>1, <1>2, <1>5, <3>3
        <4>2. \A g \in Fiber : pc'[g] \notin Chain
          BY <2>4, <3>3, <4>1 DEF Chain
        <4>3. QED
          BY <4>1, <4>2 DEF Alone, Chain
      <3>4. QED
        BY <2>2, <3>1, <3>2, <3>3
    <2>6. Counted'
      <3>1. /\ RetryNum \in Nat /\ reconn_num \in Nat /\ failed \in Nat /\ opened \in Nat
            /\ state = "started" => opened # 0
        BY DEF CliAssumption, Control, ControlTypes, Account
      <3>2. failed' <= RetryNum + 1
        BY <1>1, <2>1, <3>1 DEF Counted
      <3>3. CASE ~ IsReconn
        BY <1>1, <2>1, <3>2, <3>3 DEF Counted
      <3>4. CASE IsReconn /\ IsPlainStop(f)
        BY <1>1, <3>2, <3>4 DEF Counted
      <3>5. CASE IsReconn /\ ~ IsPlainStop(f)
        <4>1. reconn_num' = reconn_num + 1 /\ (Retries(f) <=> reconn_num < RetryNum)
          BY <1>1, <3>5 DEF WithError, Retries
        <4>2. reconn_num <= RetryNum
          BY <1>1, <2>1, <3>1, <3>5 DEF Counted
        <4>3. reconn_num' = failed' + (IF opened' = 0 THEN 0 ELSE 1)
          BY <1>1, <2>1, <3>1, <3>5, <4>1 DEF Counted
        <4>4. /\ reconn_num' <= RetryNum => Retries(f)
              /\ Retries(f) => reconn_num' <= RetryNum /\ pc'[f] = "sleep"
              /\ ~ Retries(f) => pc'[f] = "done"
              /\ reconn_num' <= RetryNum + 1
          BY <1>2, <3>1, <4>1, <4>2
        <4>5. \A g \in Fiber : pc'[g] = "sleep" => reconn_num' <= RetryNum
          BY <2>4, <4>4
        <4>6. QED
          BY <1>1, <3>2, <3>5, <4>3, <4>4, <4>5 DEF Counted
      <3>6. QED
        BY <3>3, <3>4, <3>5
    <2>7. QED
      BY <2>5, <2>6
  <1>10. QED
    BY <1>3, <1>4, <1>6, <1>7, <1>8, <1>9 DEF Control

\* The connection is made.
LEMMA CommitsMoves ==
  ASSUME CliAssumption, Control, NEW f \in Fiber, Commits(f)
  PROVE  /\ pc \in [Fiber -> Loc] /\ pc' \in [Fiber -> Loc]
         /\ opened' = opened + 1 /\ opened' \in Conn
         /\ \A g \in Fiber :
              pc'[g] = IF g \in {<<"send", opened'>>, <<"recv", opened'>>} THEN "posted"
                       ELSE IF g = f THEN (IF f[1] = "send" THEN "timer" ELSE "done")
                       ELSE pc[g]
  <1>1. pc \in [Fiber -> Loc] /\ opened \in 0 .. MaxConn
    BY DEF Control, ControlTypes
  <1>2. opened' = opened + 1 /\ opened' \in Conn
    BY <1>1 DEF Commits, Commit, Conn, CliAssumption
  <1>3. <<"send", opened'>> \in Fiber /\ <<"recv", opened'>> \in Fiber
    BY <1>2, Fibers
  <1>4. Return(f, FALSE) = IF f[1] = "send" THEN "timer" ELSE "done"
    BY DEF Return
  <1>5. pc' = [pc EXCEPT ![f] = Return(f, FALSE), ![<<"send", opened'>>] = "posted",
                         ![<<"recv", opened'>>] = "posted"]
    BY DEF Commits, Commit, Spawned
  <1>6. QED
    BY <1>1, <1>2, <1>3, <1>4, <1>5, Locations

LEMMA CommitsKeeps ==
  ASSUME CliAssumption, Control, NEW f \in Fiber, Commits(f)
  PROVE  Control'
  <1>1. /\ pc[f] \in {"connecting", "connectOver"}
        /\ state = "starting" /\ opened < MaxConn
        /\ state' = "started" /\ registered' = TRUE /\ is_canceled' = FALSE
        /\ reconn_num' = 0 /\ opened' = opened + 1 /\ failed' = 0
        /\ revived' = revived + (IF f[1] = "send" THEN 1 ELSE 0)
        /\ UNCHANGED <<socketOpen, closed, halted, leaked>>
    BY DEF Commits, Commit, ClearCancel
  <1>2. /\ pc \in [Fiber -> Loc] /\ pc' \in [Fiber -> Loc]
        /\ \A g \in Fiber :
              pc'[g] = IF g \in {<<"send", opened'>>, <<"recv", opened'>>} THEN "posted"
                       ELSE IF g = f THEN (IF f[1] = "send" THEN "timer" ELSE "done")
                       ELSE pc[g]
    BY CommitsMoves
  <1>3. ControlTypes'
    <2>1. opened' \in 0 .. MaxConn /\ revived' \in 0 .. opened'
      BY <1>1 DEF CliAssumption, Control, ControlTypes
    <2>2. QED
      BY <1>1, <1>2, <2>1 DEF Control, ControlTypes
  <1>4. Account' /\ Released' /\ Canceled'
    BY <1>1 DEF Control, ControlTypes, Account, Released, Canceled
  <1>5. Kinds'
    BY <1>2 DEF Control, Kinds, IsPlainStop, Chain
  <1>6. Phases'
    BY <1>1, <1>2 DEF Control, Kinds, Phases, Looping
  <1>7. Fresh'
    <2>1. pc[Starter] \notin {"idle", "posted"}
      BY <1>1 DEF Control, Fresh
    <2>2. pc'[Starter] \notin {"idle", "posted"}
      BY <1>2, <2>1, Fibers DEF Starter
    <2>3. QED
      BY <2>2 DEF Fresh
  <1>8. ASSUME ErrorStop = {} PROVE Alone' /\ Counted'
    <2>1. ~ halted /\ \A g \in Fiber : pc'[g] \notin Chain
      BY <1>1, <1>2, <1>8 DEF Control, Alone, Chain
    <2>2. Alone'
      BY <1>1, <2>1 DEF Alone, Chain
    <2>3. Counted'
      BY <1>1, <2>1 DEF Counted, CliAssumption, Chain
    <2>4. QED
      BY <2>2, <2>3
  <1>9. QED
    BY <1>3, <1>4, <1>5, <1>6, <1>7, <1>8 DEF Control

\* Control is inductive.
LEMMA NextControl ==
  ASSUME CliAssumption, Control, [CliNext]_cliVars
  PROVE  Control'
  <1>1. CASE UNCHANGED <<connVars, pc>>
    BY <1>1 DEF connVars, Control, ControlTypes, Account, Kinds, Phases, Fresh, Canceled,
                Released, Alone, Counted
  <1>2. CASE CliNext
    BY <1>1, <1>2, StepKinds, MovesKeeps, BeginsKeeps, FallsKeeps, CommitsKeeps
  <1>3. CASE UNCHANGED cliVars
    BY <1>1, <1>3 DEF cliVars, connVars
  <1>4. QED
    BY <1>2, <1>3

-----------------------------------------------------------------------------
(***************************************************************************)
(* The invariant: the messages and the loops that write them.              *)
(***************************************************************************)
DataTypes ==
  /\ sent \in 0 .. MaxMsg
  /\ queue \in Seq(1 .. sent) /\ wire \in Seq(1 .. sent)
  /\ corrupt \in BOOLEAN

\* The loops on the queue: the one of the newest connection, and the one, at most,
\* that made this connection itself.
Few ==
  /\ revived = 0 => Consumers \subseteq {<<"send", opened>>}
  /\ \E g \in Fiber : Consumers \subseteq {<<"send", opened>>, g}

\* A write is the write of a message in the queue, and one at a time is in progress
\* until the queue is corrupt.
Writers ==
  /\ \A f \in Fiber : pc[f] \in Writing => queue # <<>>
  /\ ~ corrupt => \A f, g \in Fiber : pc[f] \in Writing /\ pc[g] \in Writing => f = g

\* One send loop alone corrupts nothing.
Clean == revived = 0 => ~ corrupt

\* What was written and what is queued are the messages, in the order of the sends.
Fifo == wire \o queue = [i \in 1 .. sent |-> i]

Data == DataTypes /\ Few /\ Writers /\ Clean /\ Fifo

CliIInv == Control /\ Data

-----------------------------------------------------------------------------
\* The head of one sequence moves to the end of the one before it.
LEMMA Shift ==
  ASSUME NEW S, NEW a \in Seq(S), NEW b \in Seq(S), b # <<>>
  PROVE  /\ Append(a, Head(b)) \o Tail(b) = a \o b
         /\ Append(a, Head(b)) \in Seq(S) /\ Tail(b) \in Seq(S)
  <1>1. /\ Head(b) \in S /\ Tail(b) \in Seq(S) /\ Len(Tail(b)) = Len(b) - 1
        /\ \A i \in 1 .. Len(Tail(b)) : Tail(b)[i] = b[i + 1]
        /\ Head(b) = b[1] /\ Len(b) \in Nat \ {0} /\ b \in Seq(S)
    BY HeadTailProperties, EmptySeq, LenProperties
  <1>2. <<Head(b)>> \in Seq(S) /\ Len(<<Head(b)>>) = 1 /\ <<Head(b)>>[1] = b[1]
    BY <1>1
  <1>3. b = <<Head(b)>> \o Tail(b)
    <2> DEFINE h == <<Head(b)>>
               t == Tail(b)
               c == h \o t
    <2>1. /\ c \in Seq(S) /\ Len(c) = 1 + Len(t)
          /\ \A i \in 1 .. 1 + Len(t) : c[i] = IF i <= 1 THEN h[i] ELSE t[i - 1]
      BY <1>1, <1>2, ConcatProperties
    <2>2. Len(c) = Len(b)
      BY <1>1, <2>1
    <2>3. ASSUME NEW i \in 1 .. Len(b) PROVE b[i] = c[i]
      <3> HIDE DEF h, t, c
      <3>1. CASE i = 1
        BY <1>1, <1>2, <2>1, <3>1 DEF h, t
      <3>2. CASE i # 1
        <4>1. i - 1 \in 1 .. Len(t) /\ i \in 1 .. 1 + Len(t)
          BY <1>1, <3>2 DEF t
        <4>2. c[i] = t[i - 1]
          BY <2>1, <3>2, <4>1
        <4>3. t[i - 1] = b[(i - 1) + 1]
          BY <1>1, <4>1 DEF t
        <4>4. (i - 1) + 1 = i
          BY <1>1
        <4>5. QED
          BY <4>2, <4>3, <4>4
      <3>3. QED
        BY <3>1, <3>2
    <2>4. QED
      <3> HIDE DEF c
      <3> QED BY <2>1, <2>2, <2>3, SeqEqual
  <1>4. Append(a, Head(b)) = a \o <<Head(b)>>
    BY <1>1, AppendIsConcat
  <1>5. (a \o <<Head(b)>>) \o Tail(b) = a \o (<<Head(b)>> \o Tail(b))
    BY <1>1, <1>2, ConcatAssociative
  <1>6. Append(a, Head(b)) \in Seq(S)
    BY <1>1, AppendProperties
  <1>7. QED
    BY <1>1, <1>3, <1>4, <1>5, <1>6

\* A sequence grows at its end.
LEMMA ConcatAppend ==
  ASSUME NEW S, NEW a \in Seq(S), NEW b \in Seq(S), NEW e \in S
  PROVE  a \o Append(b, e) = Append(a \o b, e)
  <1>1. <<e>> \in Seq(S) /\ a \o b \in Seq(S)
    BY ConcatProperties
  <1>2. Append(b, e) = b \o <<e>> /\ Append(a \o b, e) = (a \o b) \o <<e>>
    BY <1>1, AppendIsConcat
  <1>3. (a \o b) \o <<e>> = a \o (b \o <<e>>)
    BY <1>1, ConcatAssociative
  <1>4. QED
    BY <1>2, <1>3

\* The next message enters the line.
LEMMA NextMessage ==
  ASSUME NEW n \in Nat, NEW a \in Seq(1 .. n), NEW b \in Seq(1 .. n)
  PROVE  /\ a \in Seq(1 .. n + 1) /\ Append(b, n + 1) \in Seq(1 .. n + 1)
         /\ a \o b = [i \in 1 .. n |-> i]
              => a \o Append(b, n + 1) = [i \in 1 .. n + 1 |-> i]
  <1> DEFINE S == 1 .. n + 1
             l == a \o b
             r == Append(l, n + 1)
  <1>1. a \in Seq(S) /\ b \in Seq(S) /\ n + 1 \in S
    <2>1. 1 .. n \subseteq S /\ n + 1 \in S
      OBVIOUS
    <2> HIDE DEF S
    <2>2. QED
      BY <2>1, SeqMonotonic
  <1>2. l \in Seq(S) /\ Append(b, n + 1) \in Seq(S)
    <2> HIDE DEF S
    <2>1. l \in Seq(S)
      BY <1>1, ConcatProperties
    <2>2. Append(b, n + 1) \in Seq(S)
      BY <1>1, AppendProperties
    <2>3. QED
      BY <2>1, <2>2
  <1>3. a \o Append(b, n + 1) = r
    <2> HIDE DEF S
    <2>1. QED
      BY <1>1, ConcatAppend
  <1>4. ASSUME l = [i \in 1 .. n |-> i]
        PROVE  Len(l) = n /\ \A i \in 1 .. n : l[i] = i
    <2>1. DOMAIN l = 1 .. Len(l) /\ Len(l) \in Nat
      <3> HIDE DEF S, l
      <3> QED BY <1>2, LenProperties
    <2>2. DOMAIN l = 1 .. n /\ \A i \in 1 .. n : l[i] = i
      BY <1>4
    <2> HIDE DEF l
    <2>3. \A m \in Nat : 1 .. m = 1 .. n => m = n
      <3>1. ASSUME NEW m \in Nat, 1 .. m = 1 .. n, m # n PROVE FALSE
        <4>1. m + 1 \in 1 .. n \/ n + 1 \in 1 .. m
          BY <3>1
        <4>2. m + 1 \notin 1 .. m /\ n + 1 \notin 1 .. n
          BY <3>1
        <4>3. QED
          BY <3>1, <4>1, <4>2
      <3>2. QED
        BY <3>1
    <2>4. QED
      BY <2>1, <2>2, <2>3
  <1>5. ASSUME l = [i \in 1 .. n |-> i]
        PROVE  /\ r \in Seq(S) /\ Len(r) = n + 1
               /\ \A i \in 1 .. n : r[i] = i
               /\ r[n + 1] = n + 1
    <2>1. Len(l) = n /\ \A i \in 1 .. n : l[i] = i
      BY <1>4, <1>5
    <2> HIDE DEF S, l
    <2>2. QED
      BY <1>1, <1>2, <2>1, AppendProperties
  <1>6. ASSUME l = [i \in 1 .. n |-> i]
        PROVE  r = [i \in S |-> i]
    <2> HIDE DEF l
    <2>1. r \in [1 .. n + 1 -> S]
      <3> HIDE DEF S, r
      <3> QED BY <1>5, <1>6, LenProperties
    <2>2. \A i \in S : r[i] = i
      <3> HIDE DEF r
      <3> QED BY <1>5, <1>6
    <2> HIDE DEF r
    <2>3. QED
      BY <2>1, <2>2
  <1>7. QED
    BY <1>1, <1>2, <1>3, <1>6

-----------------------------------------------------------------------------
\* Data holds of the initial state.
LEMMA InitData == CliAssumption /\ CliInit => Data
  <1> SUFFICES ASSUME CliAssumption, CliInit PROVE Data
    OBVIOUS
  <1>1. DataTypes
    <2>1. 0 \in 0 .. MaxMsg /\ <<>> \in Seq(1 .. 0)
      BY EmptySeq DEF CliAssumption
    <2>2. QED
      BY <2>1 DEF CliInit, DataTypes
  <1>2. Consumers = {}
    BY DEF CliInit, Consumers
  <1>3. Few
    BY <1>2, Fibers DEF Few
  <1>4. Writers /\ Clean
    BY DEF CliInit, Writers, Writing, Clean
  <1>5. Fifo
    <2>1. <<>> \o <<>> = <<>> /\ <<>> = [i \in 1 .. 0 |-> i]
      OBVIOUS
    <2>2. QED
      BY <2>1 DEF CliInit, Fifo
  <1>6. QED
    BY <1>1, <1>3, <1>4, <1>5 DEF Data

\* Only a connection brings a new loop to the queue, when all the old ones are gone.
LEMMA FewKeeps ==
  ASSUME CliAssumption, Control, Few, CliNext
  PROVE  Few' /\ (revived' = 0 => revived = 0)
  <1>1. ASSUME Consumers' \subseteq Consumers, UNCHANGED <<opened, revived>>
        PROVE  Few' /\ (revived' = 0 => revived = 0)
    BY <1>1 DEF Few
  <1>2. CASE UNCHANGED <<connVars, pc>>
    BY <1>1, <1>2 DEF connVars, Consumers
  <1>3. ASSUME NEW f \in Fiber, NEW l \in Loc, Moves(f, l)
        PROVE  Few' /\ (revived' = 0 => revived = 0)
    <2>1. /\ pc \in [Fiber -> Loc] /\ pc' = [pc EXCEPT ![f] = l]
          /\ UNCHANGED <<opened, revived>>
      BY <1>3 DEF Control, ControlTypes, Moves, Goto
    <2>2. f[1] = "send" /\ l \in {"posted", "writing", "writeOver", "timer", "woken"}
            => pc[f] \in {"posted", "writing", "timer", "woken"}
      BY <1>3 DEF Moves, Starter
    <2>3. Consumers' \subseteq Consumers
      BY <2>1, <2>2 DEF Consumers
    <2>4. QED
      BY <1>1, <2>1, <2>3
  <1>4. ASSUME NEW f \in Fiber, Begins(f)
        PROVE  Few' /\ (revived' = 0 => revived = 0)
    <2>1. Consumers' \subseteq Consumers /\ UNCHANGED <<opened, revived>>
      BY <1>4 DEF Control, ControlTypes, Begins, Goto, Consumers
    <2>2. QED
      BY <1>1, <2>1
  <1>5. ASSUME NEW f \in Fiber, Falls(f)
        PROVE  Few' /\ (revived' = 0 => revived = 0)
    <2>1. UNCHANGED <<opened, revived>>
      BY <1>5 DEF Falls, Teardown
    <2>2. ASSUME NEW g \in Consumers'
          PROVE  g \in Consumers
      <3>1. g \in Fiber /\ g[1] = "send"
             /\ pc'[g] \in {"posted", "writing", "writeOver", "timer", "woken"}
        BY <2>2 DEF Consumers
      <3>2. g # f /\ pc'[g] = Over(pc[g]) /\ pc[g] \in Loc
        BY <1>5, <3>1, FallsMoves
      <3>3. pc[g] \in {"posted", "writing", "writeOver", "timer", "woken"}
        BY <3>1, <3>2 DEF Over
      <3>4. QED
        BY <3>1, <3>3 DEF Consumers
    <2>3. QED
      BY <1>1, <2>1, <2>2
  <1>6. ASSUME NEW f \in Fiber, Commits(f)
        PROVE  Few' /\ (revived' = 0 => revived = 0)
    <2>1. Consumers' \subseteq {<<"send", opened'>>} \cup (IF f[1] = "send" THEN {f} ELSE {})
      <3>1. ASSUME NEW g \in Consumers', g # <<"send", opened'>>
            PROVE  g = f /\ f[1] = "send"
        <4>1. g \in Fiber /\ g[1] = "send"
               /\ pc'[g] \in {"posted", "writing", "writeOver", "timer", "woken"}
          BY <3>1 DEF Consumers
        <4>2. pc'[g] = IF g = f THEN (IF f[1] = "send" THEN "timer" ELSE "done") ELSE pc[g]
          BY <1>6, <3>1, <4>1, CommitsMoves
        <4>3. pc[g] \notin Looping
          BY <1>6, <4>1 DEF Commits, Commit, Control, Phases
        <4>4. QED
          BY <4>1, <4>2, <4>3 DEF Looping
      <3>2. QED
        BY <3>1
    <2>2. revived \in Nat /\ revived' = revived + (IF f[1] = "send" THEN 1 ELSE 0)
      BY <1>6 DEF Commits, Commit, Control, ControlTypes
    <2>3. Few'
      BY <2>1, <2>2 DEF Few
    <2>4. QED
      BY <2>2, <2>3
  <1>7. QED
    BY <1>2, <1>3, <1>4, <1>5, <1>6, StepKinds

\* The steps that leave the messages alone begin no write.
Quiet ==
  /\ UNCHANGED dataVars
  /\ \A g \in Fiber : pc'[g] \in Writing => pc[g] \in Writing

LEMMA QuietSteps ==
  ASSUME Control, CliNext
  PROVE  Quiet \/ Enqueue \/ \E f \in Fiber : SendLoop(f) \/ Written(f)
  <1>1. pc \in [Fiber -> Loc]
    BY DEF Control, ControlTypes
  <1>2. ASSUME NEW f \in Fiber, NEW l \in Loc \ Writing, Goto(f, l), UNCHANGED dataVars
        PROVE  Quiet
    BY <1>1, <1>2 DEF Goto, Quiet
  <1>3. ASSUME NEW f \in Fiber, UNCHANGED dataVars,
               \/ Teardown(f)
               \/ Goto(f, Return(f, is_canceled))
        PROVE  Quiet
    <2>1. CASE Teardown(f)
      <3>1. \A g \in Fiber : pc'[g] \in {"sleep", "done", "timer"} \cup {Over(pc[g])}
        BY <2>1 DEF Teardown, Return
      <3>2. QED
        BY <1>1, <1>3, <3>1, OverFacts DEF Quiet, Writing
    <2>2. CASE Goto(f, Return(f, is_canceled))
      BY <1>2, <1>3, <2>2, Locations DEF Return, Writing
    <2>3. QED
      BY <1>3, <2>1, <2>2
  <1>4. CASE PostStart
    BY <1>2, <1>4, Fibers, Locations DEF PostStart, Writing, Starter
  <1>5. ASSUME NEW f \in Fiber,
               \/ StartBegin(f) \/ SleepEnds(f) \/ Resolved(f) \/ NextEndpoint(f)
               \/ ConnectFails(f) \/ PostStop(f) \/ StopBegin(f)
               \/ WriteFails(f) \/ RecvLoop(f) \/ ReadFails(f)
        PROVE  Quiet
    <2>1. UNCHANGED dataVars
      BY <1>5 DEF StartBegin, SleepEnds, Resolved, NextEndpoint, ConnectFails, PostStop,
                  StopBegin, WriteFails, RecvLoop, ReadFails
    <2>2. \/ CoStop(f) \/ Teardown(f)
          \/ \E l \in {"resolving", "connecting", "posted", "reading", "done"} : Goto(f, l)
      BY <1>5 DEF StartBegin, SleepEnds, CoStart, Resolved, NextEndpoint, ConnectFails,
                  PostStop, StopBegin, WriteFails, RecvLoop, ReadFails
    <2>3. {"resolving", "connecting", "posted", "reading", "done"} \subseteq Loc \ Writing
      BY Locations DEF Writing
    <2>4. QED
      BY <1>2, <1>3, <2>1, <2>2, <2>3 DEF CoStop
  <1>6. ASSUME NEW f \in Fiber, Connected(f)
        PROVE  Quiet
    <2>1. CASE CoStop(f)
      BY <1>3, <1>6, <2>1 DEF Connected, CoStop
    <2>2. CASE Commit(f)
      <3>1. pc' = [pc EXCEPT ![f] = Return(f, FALSE), ![<<"send", opened'>>] = "posted",
                             ![<<"recv", opened'>>] = "posted"]
        BY <2>2 DEF Commit, Spawned
      <3>2. Return(f, FALSE) \notin Writing
        BY DEF Return, Writing
      <3>3. QED
        BY <1>1, <1>6, <3>1, <3>2 DEF Connected, Quiet, Writing
    <2>3. QED
      BY <1>6, <2>1, <2>2 DEF Connected
  <1>7. QED
    BY <1>4, <1>5, <1>6 DEF CliNext

\* A write that is in progress belongs to a loop on the queue; a stopped session has
\* only writes that are over, a started one none of these.
LEMMA WritingFacts ==
  ASSUME Control, NEW f \in Fiber, pc[f] \in Writing
  PROVE  /\ f[1] = "send" /\ f \in Consumers
         /\ state = "started" => pc[f] = "writing"
  BY DEF Control, Kinds, Phases, Writing, Consumers

\* A loop takes up the front of the queue, or waits, or ends.
LEMMA SendLoopKeeps ==
  ASSUME CliAssumption, CliIInv, CliNext, NEW f \in Fiber, SendLoop(f)
  PROVE  Data'
  <1>1. /\ pc' = [pc EXCEPT ![f] = IF is_started THEN Dequeue(queue) ELSE "done"]
        /\ pc \in [Fiber -> Loc]
        /\ UNCHANGED <<connVars, queue, sent, wire>>
        /\ f[1] = "send" /\ pc[f] \in {"posted", "woken"} /\ f \in Consumers
    BY DEF SendLoop, SendGoto, Goto, CliIInv, Control, ControlTypes, Consumers
  <1>2. corrupt' = (/\ (IF is_started THEN Dequeue(queue) ELSE "done") = "writing"
                    /\ \E g \in Fiber \ {f} : pc[g] = "writing")
    BY DEF SendLoop, SendGoto
  <1>3. Few'
    BY FewKeeps DEF CliIInv, Data
  <1>4. DataTypes' /\ Fifo'
    BY <1>1, <1>2 DEF CliIInv, Data, DataTypes, Fifo
  <1>5. CASE pc'[f] = "writing"
    <2>1. queue # <<>> /\ state = "started"
      BY <1>1, <1>5 DEF is_started, Dequeue
    <2>2. corrupt' <=> \E g \in Fiber \ {f} : pc[g] = "writing"
      BY <1>1, <1>2, <1>5
    <2>3. \A g \in Fiber \ {f} : pc'[g] = pc[g]
      BY <1>1
    <2>4. Writers'
      <3>1. \A g \in Fiber : pc'[g] \in Writing => queue' # <<>>
        BY <1>1, <2>1
      <3>2. ASSUME ~ corrupt', NEW g \in Fiber, pc'[g] \in Writing
            PROVE  g = f
        BY <2>1, <2>2, <2>3, <3>2, WritingFacts DEF CliIInv
      <3>3. QED
        BY <3>1, <3>2 DEF Writers
    <2>5. ASSUME revived' = 0 PROVE ~ corrupt'
      <3>1. Consumers \subseteq {<<"send", opened>>}
        BY <1>1, <2>5 DEF CliIInv, Data, Few, connVars
      <3>2. ASSUME NEW g \in Fiber \ {f}, pc[g] = "writing" PROVE FALSE
        <4>1. g \in Consumers
          BY <3>2, WritingFacts DEF CliIInv, Writing
        <4>2. QED
          BY <1>1, <3>1, <4>1
      <3>3. QED
        BY <2>2, <3>2
    <2>6. QED
      BY <1>3, <1>4, <2>4, <2>5 DEF Data, Clean
  <1>6. CASE pc'[f] # "writing"
    <2>1. ~ corrupt' /\ ~ corrupt
      BY <1>1, <1>2, <1>6 DEF CliNext
    <2>2. pc'[f] \notin Writing
      BY <1>1, <1>6 DEF Dequeue, Writing
    <2>3. \A g \in Fiber : pc'[g] \in Writing => pc[g] \in Writing
      BY <1>1, <2>2
    <2>4. Writers'
      BY <1>1, <2>1, <2>3 DEF CliIInv, Data, Writers
    <2>5. QED
      BY <1>3, <1>4, <2>1, <2>4 DEF Data, Clean
  <1>7. QED
    BY <1>5, <1>6

\* The front was written: it leaves the queue for the wire.
LEMMA WrittenKeeps ==
  ASSUME CliAssumption, CliIInv, CliNext, NEW f \in Fiber, Written(f)
  PROVE  Data'
  <1>1. /\ pc' = [pc EXCEPT ![f] = Dequeue(queue')]
        /\ pc \in [Fiber -> Loc] /\ pc[f] \in Writing
        /\ queue' = Tail(queue) /\ wire' = Append(wire, Head(queue))
        /\ UNCHANGED <<connVars, sent>>
    BY DEF Written, SendGoto, Goto, CliIInv, Control, ControlTypes, Writing
  <1>2. queue # <<>> /\ ~ corrupt /\ \A g \in Fiber \ {f} : pc[g] \notin Writing
    BY <1>1 DEF CliNext, CliIInv, Data, Writers
  <1>3. Few'
    BY FewKeeps DEF CliIInv, Data
  <1>4. ~ corrupt' /\ corrupt' \in BOOLEAN
    BY <1>2 DEF Written, SendGoto, Writing
  <1>5. queue \in Seq(1 .. sent) /\ wire \in Seq(1 .. sent)
    BY DEF CliIInv, Data, DataTypes
  <1>6. /\ wire' \o queue' = wire \o queue
        /\ wire' \in Seq(1 .. sent) /\ queue' \in Seq(1 .. sent)
    BY <1>1, <1>2, <1>5, Shift
  <1>7. DataTypes' /\ Fifo'
    <2>1. sent' = sent
      BY <1>1
    <2>2. QED
      BY <1>4, <1>6, <2>1 DEF CliIInv, Data, DataTypes, Fifo
  <1>8. Writers'
    <2>1. \A g \in Fiber : pc'[g] \in Writing => g = f /\ queue' # <<>>
      BY <1>1, <1>2 DEF Dequeue, Writing
    <2>2. QED
      BY <2>1 DEF Writers
  <1>9. QED
    BY <1>3, <1>4, <1>7, <1>8 DEF Data, Clean

\* A message enters the queue, and wakes a loop that waits.
LEMMA EnqueueKeeps ==
  ASSUME CliAssumption, CliIInv, CliNext, Enqueue
  PROVE  Data'
  <1>1. /\ sent < MaxMsg /\ sent' = sent + 1 /\ queue' = Append(queue, sent + 1)
        /\ UNCHANGED <<wire, corrupt, connVars>>
        /\ ~ corrupt
    BY DEF Enqueue, CliNext
  <1>2. /\ sent \in Nat /\ queue \in Seq(1 .. sent) /\ wire \in Seq(1 .. sent)
        /\ sent' \in 0 .. MaxMsg
    BY <1>1 DEF CliIInv, Data, DataTypes, CliAssumption
  <1>3. Few'
    BY FewKeeps DEF CliIInv, Data
  <1>4. DataTypes' /\ Fifo'
    <2>1. wire \o queue = [i \in 1 .. sent |-> i]
      BY DEF CliIInv, Data, Fifo
    <2>2. /\ wire \in Seq(1 .. sent + 1) /\ Append(queue, sent + 1) \in Seq(1 .. sent + 1)
          /\ wire \o Append(queue, sent + 1) = [i \in 1 .. sent + 1 |-> i]
      BY <1>2, <2>1, NextMessage
    <2>3. wire' = wire /\ corrupt' = corrupt
      BY <1>1
    <2>4. DataTypes'
      BY <1>1, <1>2, <2>2, <2>3 DEF CliIInv, Data, DataTypes
    <2>5. Fifo'
      BY <1>1, <2>2, <2>3 DEF Fifo
    <2>6. QED
      BY <2>4, <2>5
  <1>5. \A g \in Fiber : pc'[g] \in Writing => pc[g] \in Writing
    BY DEF Enqueue, Goto, CliIInv, Control, ControlTypes, Writing
  <1>6. queue' # <<>>
    BY <1>1, <1>2, AppendProperties
  <1>7. Writers'
    BY <1>1, <1>5, <1>6 DEF CliIInv, Data, Writers
  <1>8. QED
    BY <1>1, <1>3, <1>4, <1>7 DEF CliIInv, Data, Clean, connVars

\* CliIInv is inductive.
LEMMA InitIInv == CliAssumption /\ CliInit => CliIInv
  BY InitControl, InitData DEF CliIInv

LEMMA NextIInv ==
  ASSUME CliAssumption, CliIInv, [CliNext]_cliVars
  PROVE  CliIInv'
  <1>1. Control'
    BY NextControl DEF CliIInv
  <1>2. CASE CliNext
    <2>1. CASE Quiet
      <3>1. Few' /\ (revived' = 0 => revived = 0)
        BY <1>2, FewKeeps DEF CliIInv, Data
      <3>2. DataTypes' /\ Fifo'
        BY <2>1 DEF Quiet, dataVars, CliIInv, Data, DataTypes, Fifo
      <3>3. Writers'
        BY <2>1 DEF Quiet, dataVars, CliIInv, Data, Writers
      <3>4. Clean'
        BY <2>1, <3>1 DEF Quiet, dataVars, CliIInv, Data, Clean
      <3>5. QED
        BY <1>1, <3>1, <3>2, <3>3, <3>4 DEF CliIInv, Data
    <2>2. QED
      BY <1>1, <1>2, <2>1, QuietSteps, SendLoopKeeps, WrittenKeeps, EnqueueKeeps DEF CliIInv
  <1>3. CASE UNCHANGED cliVars
    <2>1. Data'
      BY <1>3 DEF cliVars, CliIInv, Data, DataTypes, Few, Consumers, Writers, Clean, Fifo
    <2>2. QED
      BY <1>1, <2>1 DEF CliIInv
  <1>4. QED
    BY <1>2, <1>3

\* CliIInv holds of every state of a client session.
LEMMA Invariance == CliSpec => []CliIInv
  <1>1. CliInit => CliIInv
    BY InitIInv, CliAssumption
  <1>2. CliIInv /\ [CliNext]_cliVars => CliIInv'
    BY NextIInv, CliAssumption
  <1>3. QED
    BY <1>1, <1>2, PTL DEF CliSpec

-----------------------------------------------------------------------------
\* Types: among them, that the front of the queue is a message whenever a write of it
\* ends (Written takes the Head), and that no more connections are closed than opened.
THEOREM TypeCorrect == CliSpec => []CliTypeOK
  <1>1. CliIInv => CliTypeOK
    <2> SUFFICES ASSUME CliIInv PROVE CliTypeOK
      OBVIOUS
    <2>1. {socketOpen, registered, is_canceled, corrupt, halted, leaked} \subseteq BOOLEAN
      BY DEF CliIInv, Control, ControlTypes, Data, DataTypes
    <2>2. closed \in 0 .. MaxConn /\ revived \in 0 .. MaxConn
      BY CliAssumption DEF CliIInv, Control, ControlTypes, Account
    <2>3. QED
      BY <2>1, <2>2 DEF CliIInv, Control, ControlTypes, Data, DataTypes, CliTypeOK
  <1>2. QED
    BY <1>1, Invariance, PTL

\* Whatever stops, fails and reconnects: a connection is opened once and closed once, in
\* that order, and the manager holds the session exactly while it is open.
THEOREM ImplementsClientLife == CliSpec => ClientLifeSpec
  <1>1. CliInit => Life!LifeInit
    BY DEF CliInit, Life!LifeInit
  <1>2. ASSUME CliIInv, [CliNext]_cliVars
        PROVE  [Life!Open \/ Life!Close]_Life!lifeVars
    <2>1. /\ registered \in BOOLEAN
          /\ registered <=> state = "started"
          /\ opened = closed + (IF state = "started" THEN 1 ELSE 0)
          /\ closed \in Nat
      BY <1>2 DEF CliIInv, Control, ControlTypes, Account
    <2>2. CASE UNCHANGED <<registered, opened, closed>>
      BY <2>2 DEF Life!lifeVars
    <2>3. CASE UNCHANGED cliVars
      BY <2>2, <2>3 DEF cliVars
    <2>4. ASSUME NEW f \in Fiber, Falls(f)
          PROVE  [Life!Open \/ Life!Close]_Life!lifeVars
      <3>1. registered' = FALSE /\ opened' = opened
            /\ closed' = IF state = "started" THEN closed + 1 ELSE closed
        BY <2>4 DEF Falls, Teardown
      <3>2. CASE state = "started"
        BY <2>1, <3>1, <3>2 DEF Life!Close
      <3>3. CASE state # "started"
        <4>1. registered = FALSE
          BY <2>1, <3>3
        <4>2. QED
          BY <2>2, <3>1, <3>3, <4>1
      <3>4. QED
        BY <3>2, <3>3
    <2>5. ASSUME NEW f \in Fiber, Commits(f)
          PROVE  [Life!Open \/ Life!Close]_Life!lifeVars
      <3>1. state = "starting" /\ registered' = TRUE /\ opened' = opened + 1
            /\ closed' = closed
        BY <2>5 DEF Commits, Commit
      <3>2. QED
        BY <2>1, <3>1 DEF Life!Open
    <2>6. CASE CliNext
      <3>1. Control
        BY <1>2 DEF CliIInv
      <3>2. QED
        BY <2>2, <2>4, <2>5, <2>6, <3>1, StepKinds DEF connVars, Moves, Begins
    <2>7. QED
      BY <1>2, <2>3, <2>6
  <1>3. QED
    BY <1>1, <1>2, Invariance, PTL DEF CliSpec, ClientLifeSpec, Life!LifeSpec

\* Fibers that are all equal are at most one.
LEMMA AtMostOne ==
  ASSUME NEW S, \A x, y \in S : x = y
  PROVE  IsFiniteSet(S) /\ Cardinality(S) <= 1
  <1>1. CASE S = {}
    BY <1>1, FS_EmptySet
  <1>2. ASSUME NEW x, S = {x}
        PROVE  IsFiniteSet(S) /\ Cardinality(S) <= 1
    <2>1. IsFiniteSet({x}) /\ Cardinality({x}) = 1
      BY FS_Singleton
    <2>2. QED
      BY <1>2, <2>1
  <1>3. QED
    BY <1>1, <1>2

\* While no stop passes an error, one fiber at a time tries to connect.
THEOREM OneReconnectChain == CliSpec => []OneChain
  <1>1. CliIInv => OneChain
    <2> SUFFICES ASSUME CliIInv, ErrorStop = {}
                 PROVE  /\ Cardinality(Chains) <= 1
                        /\ \A f \in Chains : IF pc[f] = "sleep" THEN state = "stopped"
                                                                ELSE state # "started"
      BY DEF OneChain
    <2>1. Alone
      BY DEF CliIInv, Control
    <2>2. \A f, g \in Chains : f = g
      BY <2>1 DEF Alone, Chains
    <2>3. Cardinality(Chains) <= 1
      BY <2>2, AtMostOne
    <2>4. QED
      BY <2>1, <2>3 DEF Alone, Chains
  <1>2. QED
    BY <1>1, Invariance, PTL

\* The number of attempts an outage takes: never more than retry_num (one more before
\* the first connection), and exactly as many when the client gives up by itself.
THEOREM RetriesAreCounted == CliSpec => []Retried
  <1>1. CliIInv => Retried
    <2> SUFFICES ASSUME CliIInv, ErrorStop = {}
                 PROVE  /\ failed <= RetryNum + 1
                        /\ /\ IsReconn /\ ~ halted /\ opened + failed > 0
                           /\ state = "stopped" /\ Chains = {}
                           => failed = RetryNum + (IF opened = 0 THEN 1 ELSE 0)
      BY DEF Retried
    <2>1. Counted /\ Fresh
      BY DEF CliIInv, Control
    <2>2. /\ RetryNum \in Nat /\ failed \in Nat /\ reconn_num \in Nat /\ opened \in Nat
      BY CliAssumption DEF CliIInv, Control, ControlTypes
    <2>3. ASSUME IsReconn, ~ halted, opened + failed > 0, state = "stopped", Chains = {}
          PROVE  failed = RetryNum + (IF opened = 0 THEN 1 ELSE 0)
      <3>1. \A f \in Fiber : pc[f] # "sleep"
        BY <2>3 DEF Chains, Chain
      <3>2. pc[Starter] \notin {"idle", "posted"}
        BY <2>1, <2>2, <2>3 DEF Fresh
      <3>3. /\ reconn_num <= RetryNum + 1
            /\ ~ (reconn_num <= RetryNum)
            /\ reconn_num = failed + (IF opened = 0 THEN 0 ELSE 1)
        BY <2>1, <2>3, <3>1, <3>2 DEF Counted
      <3>4. QED
        BY <2>2, <3>3
    <2>4. QED
      BY <2>1, <2>3 DEF Counted
  <1>2. QED
    BY <1>1, Invariance, PTL

\* Once a stop() without error took the session down no step connects it again: neither
\* the chain it overtook nor a fiber that failed at the same time.
THEOREM StoppedForGood == CliSpec => StopSticks
  <1>1. ASSUME CliIInv, [CliNext]_cliVars
        PROVE  halted /\ ErrorStop = {} => opened' = opened
    <2> SUFFICES ASSUME halted, ErrorStop = {}
                 PROVE  opened' = opened
      OBVIOUS
    <2>1. state = "stopped" /\ Control
      BY <1>1 DEF CliIInv, Control, Alone
    <2>2. CASE CliNext
      <3>1. ASSUME NEW f \in Fiber, Commits(f) PROVE FALSE
        BY <2>1, <3>1 DEF Commits, Commit
      <3>2. QED
        BY <2>1, <2>2, <3>1, StepKinds DEF connVars, Moves, Begins, Falls, Teardown
    <2>3. QED
      BY <1>1, <2>2 DEF cliVars
  <1>2. CliIInv /\ [CliNext]_cliVars => [halted /\ ErrorStop = {} => opened' = opened]_cliVars
    BY <1>1
  <1>3. QED
    BY <1>2, Invariance, PTL DEF CliSpec, StopSticks

\* While no send loop outlived its connection, every message is written once, in the
\* order of the sends, or still queued: over any number of connections and failures.
THEOREM NoMessageLostOrDoubled == CliSpec => []NothingLostOrDoubled
  <1>1. CliIInv => NothingLostOrDoubled
    BY DEF CliIInv, Data, Clean, Fifo, NothingLostOrDoubled
  <1>2. QED
    BY <1>1, Invariance, PTL

\* A session that ended holds no socket that was not opened after its stop.
THEOREM SocketsAreReleased == CliSpec => []SocketReleased
  <1>1. CliIInv => SocketReleased
    BY DEF CliIInv, Control, Released, SocketReleased
  <1>2. QED
    BY <1>1, Invariance, PTL

\* However often a client reconnects, and whatever stops it, two loops at most are on
\* its queue: those that outlived earlier connections are gone by then.
TwoLoops == Cardinality(Consumers) <= IF revived = 0 THEN 1 ELSE 2

LEMMA ConsumersBounded ==
  ASSUME CliIInv
  PROVE  TwoLoops /\ Cardinality(Consumers) \in Nat
  <1>1. CASE revived = 0
    <2>1. \A f, g \in Consumers : f = g
      BY <1>1 DEF CliIInv, Data, Few
    <2>2. IsFiniteSet(Consumers) /\ Cardinality(Consumers) <= 1
      BY <2>1, AtMostOne
    <2>3. QED
      BY <1>1, <2>2, FS_CardinalityType DEF TwoLoops
  <1>2. CASE revived # 0
    <2>1. PICK g \in Fiber : Consumers \subseteq {<<"send", opened>>, g}
      BY DEF CliIInv, Data, Few
    <2> DEFINE T == {<<"send", opened>>} \cup {g}
    <2>2. IsFiniteSet(T) /\ Cardinality(T) <= 2
      <3>1. IsFiniteSet({<<"send", opened>>}) /\ Cardinality({<<"send", opened>>}) = 1
        BY FS_Singleton
      <3>2. QED
        BY <3>1, FS_AddElement
    <2>3. Consumers \in SUBSET T
      BY <2>1
    <2> HIDE DEF T
    <2>4. /\ IsFiniteSet(Consumers)
          /\ Cardinality(Consumers) <= Cardinality(T)
          /\ Cardinality(Consumers) \in Nat /\ Cardinality(T) \in Nat
      BY <2>2, <2>3, FS_Subset, FS_CardinalityType
    <2>5. QED
      BY <1>2, <2>2, <2>4 DEF TwoLoops
  <1>3. QED
    BY <1>1, <1>2

\* Two loops at most are on the queue, and one until a send loop reconnects inside its
\* own co_send: the bound does not grow with the number of connections.
THEOREM LoopsAreFew == CliSpec => []TwoLoops
  BY ConsumersBounded, Invariance, PTL

\* The loops on the queue of a started session are counted by the reconnects that send
\* loops made themselves, also when stops pass errors and several chains compete.
THEOREM LoopsAreCounted == CliSpec => []ConsumersCounted
  <1>1. CliIInv => ConsumersCounted
    <2> SUFFICES ASSUME CliIInv PROVE Cardinality(Consumers) <= 1 + revived
      BY DEF ConsumersCounted
    <2>1. revived \in Nat
      BY DEF CliIInv, Control, ControlTypes
    <2>2. QED
      BY <2>1, ConsumersBounded DEF TwoLoops
  <1>2. QED
    BY <1>1, Invariance, PTL
-----------------------------------------------------------------------------
(***************************************************************************)
(* No message is left to loops that sleep.                                 *)
(***************************************************************************)
\* A connect that is under way has the socket open; one whose socket a teardown closed
\* is seen to before the next attempt begins.
Connecting ==
  /\ state = "started" => socketOpen /\ ~ is_canceled
  /\ \A f \in Fiber : pc[f] = "connecting" => socketOpen
  /\ \A f \in Fiber : pc[f] = "connectOver" => state = "stopped"

Attending == Connecting /\ Attended

LEMMA InitAttending == CliInit => Attending
  BY DEF CliInit, Attending, Connecting, Attended

\* The socket a session is started with is open.
LEMMA ConnectingKeeps ==
  ASSUME CliAssumption, Control, Connecting, CliNext
  PROVE  Connecting'
  <1>1. pc \in [Fiber -> Loc]
    BY DEF Control, ControlTypes
  <1>2. CASE UNCHANGED <<connVars, pc>>
    BY <1>2 DEF Connecting, connVars
  <1>3. ASSUME NEW f \in Fiber, NEW l \in Loc, Moves(f, l), Sockets
        PROVE  Connecting'
    <2>1. \A g \in Fiber : pc'[g] = IF g = f THEN l ELSE pc[g]
      BY <1>1, <1>3 DEF Moves, Goto
    <2>2. l # "connectOver" /\ (l = "connecting" => socketOpen') /\ (socketOpen => socketOpen')
      BY <1>3 DEF Moves, Sockets
    <2>3. UNCHANGED <<state, is_canceled>>
      BY <1>3 DEF Moves
    <2>4. QED
      BY <2>1, <2>2, <2>3 DEF Connecting
  <1>4. ASSUME NEW f \in Fiber, Begins(f)
        PROVE  Connecting'
    <2>1. /\ \A g \in Fiber : pc'[g] = IF g = f THEN "resolving" ELSE pc[g]
          /\ state' = "starting" /\ socketOpen' = socketOpen
      BY <1>1, <1>4 DEF Begins, Goto
    <2>2. \A g \in Fiber : g # f => pc[g] # "connectOver"
      <3>1. CASE f = Starter /\ pc[f] = "posted"
        BY <3>1, Fibers DEF Control, Fresh
      <3>2. CASE \A g \in Fiber : pc[g] \notin Ready
        BY <3>2 DEF Ready
      <3>3. QED
        BY <1>4, <3>1, <3>2 DEF Begins
    <2>3. QED
      BY <2>1, <2>2 DEF Connecting
  <1>5. ASSUME NEW f \in Fiber, Falls(f)
        PROVE  Connecting'
    <2>1. state' = "stopped"
      BY <1>5 DEF Falls, Teardown, BecomeStopped
    <2>2. \A g \in Fiber : pc'[g] # "connecting"
      <3>1. \A g \in Fiber : pc'[g] \in {"sleep", "done", "timer"} \cup {Over(pc[g])}
        BY <1>5 DEF Falls, Teardown, Return
      <3>2. QED
        BY <1>1, <3>1, OverFacts
    <2>3. QED
      BY <2>1, <2>2 DEF Connecting
  <1>6. ASSUME NEW f \in Fiber, Commits(f)
        PROVE  Connecting'
    <2>1. state = "starting" /\ socketOpen' = socketOpen /\ state' = "started" /\ ~ is_canceled'
      BY <1>6 DEF Commits, Commit, ClearCancel
    <2>2. socketOpen /\ \A g \in Fiber : pc[g] # "connectOver"
      BY <1>6, <2>1 DEF Commits, Connecting
    <2>3. \A g \in Fiber : pc'[g] # "connectOver"
      <3>1. \A g \in Fiber : pc'[g] \in {"posted", "timer", "done"} \cup {pc[g]}
        BY <1>1, <1>6 DEF Commits, Commit, Spawned, Return
      <3>2. QED
        BY <2>2, <3>1
    <2>4. QED
      BY <2>1, <2>2, <2>3 DEF Connecting
  <1>7. QED
    BY <1>2, <1>3, <1>4, <1>5, <1>6, StepKinds

\* Only a send fills an empty queue.
LEMMA QueueFills ==
  ASSUME CliIInv, CliNext, queue' # <<>>
  PROVE  Enqueue \/ queue # <<>>
  <1>1. CASE Quiet
    BY <1>1 DEF Quiet, dataVars
  <1>2. ASSUME NEW f \in Fiber, SendLoop(f) \/ Written(f)
        PROVE  queue # <<>>
    BY <1>2 DEF SendLoop, Written, CliIInv, Data, Writers, Writing
  <1>3. QED
    BY <1>1, <1>2, QuietSteps DEF CliIInv

\* A loop that waits, waits for an empty queue; one that is woken looks at it again.
LEMMA AttendedKeeps ==
  ASSUME CliAssumption, CliIInv, Attending, CliNext
  PROVE  Attended'
  <1> DEFINE newest == <<"send", opened>>
  <1>1. pc \in [Fiber -> Loc] /\ Control
    BY DEF CliIInv, Control, ControlTypes
  <1>2. state = "started" => opened \in Conn /\ newest \in Fiber
    <2>1. state = "started" => opened \in Conn
      BY CliAssumption DEF CliIInv, Control, ControlTypes, Account, Conn
    <2>2. QED
      BY <2>1, Fibers
  <1>3. ASSUME UNCHANGED <<connVars, pc>>
        PROVE  Attended'
    <2>1. CASE Enqueue
      <3>1. \A f \in Fiber : pc[f] # "timer"
        BY <1>1, <1>3, <2>1 DEF Enqueue, Goto
      <3>2. QED
        BY <1>2, <1>3, <3>1 DEF Attending, Attended, connVars
    <2>2. CASE queue' # <<>> => queue # <<>>
      BY <1>3, <2>2 DEF Attending, Attended, connVars
    <2>3. QED
      BY <2>1, <2>2, QueueFills
  <1>4. ASSUME NEW f \in Fiber, NEW l \in Loc, Moves(f, l), Sockets, state = "started"
        PROVE  Attended'
    <2>1. \A g \in Fiber : pc'[g] = IF g = f THEN l ELSE pc[g]
      BY <1>1, <1>4 DEF Moves, Goto
    <2>2. socketOpen /\ socketOpen' /\ ~ is_canceled /\ state' = "started" /\ opened' = opened
      <3>1. socketOpen /\ ~ is_canceled
        BY <1>4 DEF Attending, Connecting
      <3>2. QED
        BY <1>4, <3>1 DEF Moves, Sockets
    <2>3. f[1] = "send" /\ pc[f] \in Awake \cup {"timer"} => l \in Awake \cup {"timer"}
      BY <1>4, <2>2 DEF Moves, Awake, Starter, Chain
    <2>4. pc'[newest] \in Awake \cup {"timer"}
      BY <1>2, <1>4, <2>1, <2>3 DEF Attending, Attended
    <2>5. ASSUME queue' # <<>>
          PROVE  \E g \in Fiber : g[1] = "send" /\ pc'[g] \in Awake
      <3>1. CASE queue # <<>>
        <4>1. PICK g \in Fiber : g[1] = "send" /\ pc[g] \in Awake
          BY <1>4, <3>1 DEF Attending, Attended
        <4>2. g = f => l # "timer"
          BY <1>4, <2>2, <2>5, <4>1 DEF Moves, Awake
        <4>3. QED
          BY <2>1, <2>3, <4>1, <4>2
      <3>2. CASE queue = <<>>
        <4>1. Enqueue
          BY <2>5, <3>2, QueueFills
        <4>2. CASE \E g \in Fiber : pc[g] = "timer" /\ Goto(g, "woken")
          <5>1. PICK g \in Fiber : pc[g] = "timer" /\ Goto(g, "woken")
            BY <4>2
          <5>2. g[1] = "send" /\ pc'[g] = "woken"
            BY <1>1, <5>1 DEF Control, Kinds, Goto
          <5>3. QED
            BY <5>2 DEF Awake
        <4>3. CASE UNCHANGED pc /\ \A g \in Fiber : pc[g] # "timer"
          BY <1>2, <1>4, <4>3 DEF Attending, Attended
        <4>4. QED
          BY <4>1, <4>2, <4>3 DEF Enqueue
      <3>3. QED
        BY <3>1, <3>2
    <2>6. QED
      BY <2>2, <2>4, <2>5 DEF Attended
  <1>5. ASSUME NEW f \in Fiber, Commits(f)
        PROVE  Attended'
    <2>1. pc'[<<"send", opened'>>] = "posted" /\ opened' \in Conn
      <3>1. opened' \in Conn
        BY <1>1, <1>5, CommitsMoves
      <3>2. QED
        BY <1>1, <1>5, <3>1, CommitsMoves, Fibers
    <2>2. socketOpen'
      BY <1>1, <1>5, ConnectingKeeps DEF Commits, Commit, Connecting, Attending
    <2>3. QED
      BY <2>1, <2>2, Fibers DEF Attended, Awake
  <1>6. QED
    <2>1. ASSUME NEW f \in Fiber, Begins(f) \/ Falls(f) PROVE Attended'
      BY <2>1 DEF Begins, Falls, Teardown, BecomeStopped, Attended
    <2>2. ASSUME NEW f \in Fiber, NEW l \in Loc, Moves(f, l), Sockets, state # "started"
          PROVE  Attended'
      BY <2>2 DEF Moves, Attended
    <2>3. QED
      BY <1>1, <1>3, <1>4, <1>5, <2>1, <2>2, StepKinds

\* No wake-up is lost: whatever happened to the loops of earlier connections, a message
\* that is queued on a started session has a loop that will see it. With the fairness of
\* the io_context that is why such a message is taken up.
THEOREM NoWakeUpIsLost == CliSpec => []Attended
  <1>1. CliInit => Attending
    BY InitAttending
  <1>2. CliIInv /\ Attending /\ [CliNext]_cliVars => Attending'
    <2> SUFFICES ASSUME CliIInv, Attending, [CliNext]_cliVars PROVE Attending'
      OBVIOUS
    <2>1. CASE CliNext
      BY <2>1, CliAssumption, ConnectingKeeps, AttendedKeeps DEF Attending, CliIInv
    <2>2. CASE UNCHANGED cliVars
      BY <2>2 DEF cliVars, Attending, Connecting, Attended
    <2>3. QED
      BY <2>1, <2>2
  <1>3. QED
    BY <1>1, <1>2, Invariance, PTL DEF CliSpec, Attending
=============================================================================
