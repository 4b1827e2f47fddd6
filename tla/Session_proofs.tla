---------------------------- MODULE Session_proofs ----------------------------
(***************************************************************************)
(* Proofs about module Session, for any sessions, any number of stoppers,  *)
(* every stream and protocol kind and any queue bound.                     *)
(***************************************************************************)
EXTENDS Session, TLAPS

\* What a step leaves alone keeps its invariant.
LEMMA Frame ==
  ASSUME NEW t \in Session,
         OwnerInv(t), EntryInv(t), LoopInv(t),
         state'[t] = state[t], pc'[t] = pc[t],
         t \in sessions' <=> t \in sessions,
         t \in socketOpen' <=> t \in socketOpen,
         connects'[t] = connects[t], disconnects'[t] = disconnects[t],
         queued'[t] = queued[t], lateRecv'[t] = lateRecv[t]
  PROVE  OwnerInv(t)' /\ EntryInv(t)' /\ LoopInv(t)'
BY DEF OwnerInv, EntryInv, LoopInv

LEMMA PostStartStep ==
  ASSUME IInv, NEW s \in Session, PostStart(s)
  PROVE  IInv'
<1> USE DEF Fiber
<1>1. TypeOK'
  BY DEF IInv, TypeOK, PostStart, Goto, Loc
<1>2. ASSUME NEW t \in Session
      PROVE  OwnerInv(t)' /\ EntryInv(t)' /\ LoopInv(t)'
  <2>1. CASE t # s
    BY <2>1, Frame DEF IInv, TypeOK, PostStart, Goto
  <2>2. CASE t = s
    <3>1. OwnerInv(s)'
      BY DEF IInv, TypeOK, OwnerInv, PostStart, Goto, StopLoc
    <3>2. EntryInv(s)'
      BY DEF IInv, TypeOK, EntryInv, OwnerInv, PostStart, Goto
    <3>3. LoopInv(s)'
      BY DEF IInv, TypeOK, LoopInv, PostStart, Goto
    <3> QED BY <2>2, <3>1, <3>2, <3>3
  <2> QED BY <2>1, <2>2
<1> QED BY <1>1, <1>2 DEF IInv

LEMMA StartBeginStep ==
  ASSUME IInv, NEW s \in Session, StartBegin(s)
  PROVE  IInv'
<1> USE DEF Fiber
<1>1. TypeOK'
  BY DEF IInv, TypeOK, StartBegin, Goto, Loc, StartLoc, estate
<1>2. ASSUME NEW t \in Session
      PROVE  OwnerInv(t)' /\ EntryInv(t)' /\ LoopInv(t)'
  <2>1. CASE t # s
    BY <2>1, Frame DEF IInv, TypeOK, StartBegin, Goto
  <2>2. CASE t = s
    <3>1. OwnerInv(s)'
      BY DEF IInv, TypeOK, OwnerInv, StartBegin, Goto, StopLoc
    <3>2. EntryInv(s)'
      BY DEF IInv, TypeOK, EntryInv, OwnerInv, StartBegin, Goto
    <3>3. LoopInv(s)'
      BY DEF IInv, TypeOK, LoopInv, StartBegin, Goto
    <3> QED BY <2>2, <3>1, <3>2, <3>3
  <2> QED BY <2>1, <2>2
<1> QED BY <1>1, <1>2 DEF IInv

\* The two outcomes of co_stop's compare-exchanges, spelled out fiber by fiber.
StopOutcome(s, f) ==
  /\ \A t \in Session \ {s} : state'[t] = state[t] /\ pc'[t] = pc[t]
  /\ \A g \in Fiber \ {f} :
       \/ pc'[s][g] = pc[s][g]
       \/ g = "send" /\ pc[s][g] = "timer" /\ pc'[s][g] = "woken"
  /\ \/ /\ state[s] \in {"starting", "started"}
        /\ state'[s] = "stopping"
        /\ pc'[s][f] = "erase"
     \/ /\ state[s] \in {"stopping", "stopped"}
        /\ state'[s] = state[s]
        /\ pc'[s][f] \in {"timer", "done"}
        /\ f # "send" => pc'[s][f] = "done"

LEMMA EnterStopFacts ==
  ASSUME TypeOK, NEW s \in Session, NEW f \in Fiber, EnterStop(s, f)
  PROVE  /\ state' \in [Session -> estate]
         /\ is_canceled' \in [Session -> BOOLEAN]
         /\ pc' \in [Session -> [Fiber -> Loc]]
         /\ StopOutcome(s, f)
<1>1. CASE state[s] \in {"starting", "started"}
  <2>1. /\ state' = [state EXCEPT ![s] = "stopping"]
        /\ is_canceled' = [is_canceled EXCEPT ![s] = TRUE]
        /\ pc' = [pc EXCEPT ![s] = [g \in Fiber |->
                    IF g = f THEN "erase"
                    ELSE IF g = "send" THEN Wake(pc[s][g]) ELSE pc[s][g]]]
    BY <1>1 DEF EnterStop, OwnTeardown, Uninit
  <2>2. \A g \in Fiber : pc'[s][g] = IF g = f THEN "erase"
                           ELSE IF g = "send" THEN Wake(pc[s][g]) ELSE pc[s][g]
    BY <2>1 DEF TypeOK
  <2>3. pc'[s] \in [Fiber -> Loc]
    BY <2>1 DEF TypeOK, Wake, Loc, StopLoc
  <2>4. pc' \in [Session -> [Fiber -> Loc]]
    BY <2>1, <2>3 DEF TypeOK
  <2> QED
    BY <1>1, <2>1, <2>2, <2>4 DEF TypeOK, Wake, estate, StopOutcome
<1>2. CASE state[s] \in {"stopping", "stopped"}
  <2>1. /\ pc' = [pc EXCEPT ![s][f] = AfterStop(s, f)]
        /\ UNCHANGED <<state, is_canceled>>
    BY <1>2 DEF EnterStop, Goto
  <2>2. /\ AfterStop(s, f) \in {"timer", "done"}
        /\ f # "send" => AfterStop(s, f) = "done"
    BY DEF AfterStop
  <2>3. AfterStop(s, f) \in Loc
    BY <2>2 DEF Loc
  <2>4. pc' \in [Session -> [Fiber -> Loc]]
    BY <2>1, <2>3 DEF TypeOK
  <2> QED
    BY <1>2, <2>1, <2>2, <2>4 DEF TypeOK, StopOutcome
<1> QED BY <1>1, <1>2 DEF EnterStop

\* A step of fiber f that is a call of co_stop and changes nothing else keeps the
\* invariant, provided f can run and is not inside the teardown already.
LEMMA EnterStopKeeps ==
  ASSUME IInv, NEW s \in Session, NEW f \in Fiber, EnterStop(s, f),
         pc[s][f] \notin StopLoc \cup {"idle", "emplace", "done"},
         CanRun(s, f),
         UNCHANGED <<socketOpen, sessions, queued, connects, disconnects, lateRecv>>
  PROVE  IInv'
<1> USE DEF Fiber
<1>1. /\ TypeOK'
      /\ StopOutcome(s, f)
  BY EnterStopFacts DEF IInv, TypeOK
<1>2. ASSUME NEW t \in Session
      PROVE  OwnerInv(t)' /\ EntryInv(t)' /\ LoopInv(t)'
  <2>1. CASE t # s
    BY <1>1, <2>1, Frame DEF IInv, TypeOK, StopOutcome
  <2>2. CASE t = s
    <3>1. f # "start" => pc[s]["start"] # "emplace"
      BY DEF CanRun, Running
    <3>2. OwnerInv(s)
      BY DEF IInv
    <3>3. OwnerInv(s)'
      <4>1. pc'[s]["start"] \in {"idle", "posted"} =>
              state'[s] = "stopped" /\ disconnects'[s] = 0
        BY <1>1, <3>2 DEF OwnerInv, StopOutcome
      <4>2. pc'[s]["start"] \in {"idle", "posted", "stream_start", "proto_start", "emplace"} =>
              connects'[s] = 0
        BY <1>1, <3>2 DEF OwnerInv, StopOutcome
      <4>9. connects'[s] = 0 => pc'[s]["send"] = "idle" /\ pc'[s]["recv"] = "idle"
        BY <1>1, <3>2 DEF OwnerInv, StopOutcome
      <4>3. pc'[s]["start"] = "emplace" => state'[s] = "started"
        BY <1>1, <3>1, <3>2 DEF OwnerInv, StopOutcome
      <4>4. state'[s] = "starting" => pc'[s]["start"] \in {"stream_start", "proto_start"}
        BY <1>1, <3>2 DEF OwnerInv, StopOutcome
      <4>5. state'[s] = "started" => s \in sessions' \/ pc'[s]["start"] = "emplace"
        BY <1>1, <3>2 DEF OwnerInv, StopOutcome
      <4>6. /\ state'[s] # "stopped" => disconnects'[s] = 0
            /\ connects'[s] \in {0, 1} /\ disconnects'[s] \in {0, 1}
        BY <1>1, <3>2 DEF OwnerInv, StopOutcome
      <4>7. \A g \in Fiber : pc'[s][g] \in StopLoc => state'[s] = "stopping"
        BY <1>1, <3>2 DEF OwnerInv, StopOutcome, StopLoc
      <4>8. \A g, h \in Fiber : pc'[s][g] \in StopLoc /\ pc'[s][h] \in StopLoc => g = h
        BY <1>1, <3>2 DEF OwnerInv, StopOutcome, StopLoc
      <4> QED BY <4>1, <4>2, <4>3, <4>4, <4>5, <4>6, <4>7, <4>8, <4>9 DEF OwnerInv
    <3>4. EntryInv(s)'
      <4>1. s \in sessions => connects'[s] = 1
        BY DEF IInv, EntryInv
      <4>2. ASSUME s \in sessions
            PROVE  state'[s] = "started"
                     \/ (state'[s] = "stopping" /\ \E g \in Fiber : pc'[s][g] = "erase")
        <5>1. CASE state[s] = "started"
          BY <1>1, <5>1 DEF StopOutcome
        <5>2. CASE state[s] = "stopping"
          <6>1. PICK g \in Fiber : pc[s][g] = "erase"
            BY <4>2, <5>2 DEF IInv, EntryInv
          <6>2. g # f
            BY <6>1 DEF StopLoc
          <6> QED BY <1>1, <5>2, <6>1, <6>2 DEF StopOutcome
        <5> QED BY <4>2, <5>1, <5>2 DEF IInv, EntryInv
      <4>3. disconnects'[s] = 1 => s \notin socketOpen'
        BY DEF IInv, EntryInv
      <4>4. ASSUME state'[s] = "stopping", StreamType = "binary", ProtoType = "none"
            PROVE  \E g \in Fiber : pc'[s][g] \in StopLoc
        <5>1. CASE state[s] \in {"starting", "started"}
          BY <1>1, <5>1 DEF StopOutcome, StopLoc
        <5>2. CASE state[s] \in {"stopping", "stopped"}
          <6>1. state[s] = "stopping"
            BY <1>1, <4>4, <5>2 DEF StopOutcome
          <6>2. PICK g \in Fiber : pc[s][g] \in StopLoc
            BY <4>4, <6>1 DEF IInv, EntryInv
          <6>3. pc'[s][g] = pc[s][g]
            BY <1>1, <6>2 DEF StopOutcome, StopLoc
          <6> QED BY <6>2, <6>3
        <5> QED BY <1>1, <5>1, <5>2 DEF StopOutcome
      <4> QED BY <4>1, <4>2, <4>3, <4>4 DEF EntryInv
    <3>5. LoopInv(s)'
      <4>1. pc'[s]["send"] = "writing" => pc[s]["send"] = "writing"
        BY <1>1 DEF StopOutcome
      <4>2. pc[s]["recv"] = "done" => pc'[s]["recv"] = "done"
        BY <1>1 DEF StopOutcome
      <4> QED BY <4>1, <4>2 DEF IInv, LoopInv
    <3> QED BY <2>2, <3>3, <3>4, <3>5
  <2> QED BY <2>1, <2>2
<1> QED BY <1>1, <1>2 DEF IInv

\* The shape of every proof below: types, then the sessions the step does not
\* touch, then the one it moves.
LEMMA StreamStartedStep ==
  ASSUME IInv, NEW s \in Session, StreamStarted(s)
  PROVE  IInv'
<1> USE DEF Fiber
<1>1. CASE EnterStop(s, "start")
  <2>1. /\ pc[s]["start"] = "stream_start"
        /\ CanRun(s, "start")
        /\ UNCHANGED <<socketOpen, sessions, queued, connects, disconnects, lateRecv>>
    BY DEF StreamStarted
  <2> QED BY <1>1, <2>1, EnterStopKeeps DEF StopLoc
<1>2. CASE Goto(s, "start", "proto_start") /\ UNCHANGED <<state, is_canceled>>
  <2>1. TypeOK'
    BY <1>2 DEF IInv, TypeOK, StreamStarted, Goto, Loc, StartLoc
  <2>2. ASSUME NEW t \in Session
        PROVE  OwnerInv(t)' /\ EntryInv(t)' /\ LoopInv(t)'
    <3>1. CASE t # s
      BY <1>2, <3>1, Frame DEF IInv, TypeOK, StreamStarted, Goto
    <3>2. CASE t = s
      <4>1. OwnerInv(s)'
        BY <1>2 DEF IInv, TypeOK, OwnerInv, StreamStarted, Goto, StopLoc
      <4>2. EntryInv(s)'
        <5>1. \A g \in Fiber : pc'[s][g] # pc[s][g] => pc[s][g] = "stream_start"
          BY <1>2 DEF IInv, TypeOK, StreamStarted, Goto
        <5> QED BY <1>2, <5>1 DEF IInv, EntryInv, StreamStarted, StopLoc
      <4>3. LoopInv(s)'
        BY <1>2 DEF IInv, TypeOK, LoopInv, StreamStarted, Goto
      <4> QED BY <3>2, <4>1, <4>2, <4>3
    <3> QED BY <3>1, <3>2
  <2> QED BY <2>1, <2>2 DEF IInv
<1> QED BY <1>1, <1>2 DEF StreamStarted

LEMMA ProtoStartedStep ==
  ASSUME IInv, NEW s \in Session, ProtoStarted(s)
  PROVE  IInv'
<1> USE DEF Fiber
<1>1. CASE EnterStop(s, "start")
  <2>1. /\ pc[s]["start"] = "proto_start"
        /\ CanRun(s, "start")
        /\ UNCHANGED <<socketOpen, sessions, queued, connects, disconnects, lateRecv>>
    BY DEF ProtoStarted
  <2> QED BY <1>1, <2>1, EnterStopKeeps DEF StopLoc
<1>2. CASE CommitStart(s)
  <2>1. TypeOK'
    BY <1>2 DEF IInv, TypeOK, ProtoStarted, CommitStart, Goto, Loc, StartLoc, estate
  <2>2. ASSUME NEW t \in Session
        PROVE  OwnerInv(t)' /\ EntryInv(t)' /\ LoopInv(t)'
    <3>1. CASE t # s
      BY <1>2, <3>1, Frame DEF IInv, TypeOK, ProtoStarted, CommitStart, Goto
    <3>2. CASE t = s
      <4>1. OwnerInv(s)'
        BY <1>2 DEF IInv, TypeOK, OwnerInv, ProtoStarted, CommitStart, Goto, StopLoc
      <4>2. EntryInv(s)'
        BY <1>2 DEF IInv, TypeOK, EntryInv, ProtoStarted, CommitStart, Goto
      <4>3. LoopInv(s)'
        BY <1>2 DEF IInv, TypeOK, LoopInv, ProtoStarted, CommitStart, Goto
      <4> QED BY <3>2, <4>1, <4>2, <4>3
    <3> QED BY <3>1, <3>2
  <2> QED BY <2>1, <2>2 DEF IInv
<1> QED BY <1>1, <1>2 DEF ProtoStarted

LEMMA EmplaceStep ==
  ASSUME IInv, NEW s \in Session, Emplace(s)
  PROVE  IInv'
<1> USE DEF Fiber
<1>1. TypeOK'
  BY DEF IInv, TypeOK, Emplace, Loc
<1>2. ASSUME NEW t \in Session
      PROVE  OwnerInv(t)' /\ EntryInv(t)' /\ LoopInv(t)'
  <2>1. CASE t # s
    BY <2>1, Frame DEF IInv, TypeOK, Emplace
  <2>2. CASE t = s
    <3>1. /\ connects[s] = 0 /\ connects'[s] = 1 /\ state[s] = "started"
          /\ disconnects[s] = 0
      BY DEF IInv, TypeOK, OwnerInv, Emplace
    <3>2. OwnerInv(s)'
      BY <3>1 DEF IInv, TypeOK, OwnerInv, Emplace, StopLoc
    <3>3. EntryInv(s)'
      BY <3>1 DEF IInv, TypeOK, EntryInv, Emplace
    <3>4. LoopInv(s)'
      BY <3>1 DEF IInv, TypeOK, LoopInv, Emplace
    <3> QED BY <2>2, <3>2, <3>3, <3>4
  <2> QED BY <2>1, <2>2
<1> QED BY <1>1, <1>2 DEF IInv

LEMMA PostStopStep ==
  ASSUME IInv, NEW s \in Session, NEW f \in Stopper, PostStop(s, f)
  PROVE  IInv'
<1> USE SessionAssumption DEF Fiber
<1>1. TypeOK'
  BY DEF IInv, TypeOK, PostStop, Goto, Loc
<1>2. ASSUME NEW t \in Session
      PROVE  OwnerInv(t)' /\ EntryInv(t)' /\ LoopInv(t)'
  <2>1. CASE t # s
    BY <2>1, Frame DEF IInv, TypeOK, PostStop, Goto
  <2>2. CASE t = s
    <3>1. OwnerInv(s)'
      BY DEF IInv, TypeOK, OwnerInv, PostStop, Goto, StopLoc
    <3>2. EntryInv(s)'
      <4>1. \A g \in Fiber : pc[s][g] \in StopLoc => pc'[s][g] = pc[s][g]
        BY DEF IInv, TypeOK, PostStop, Goto, StopLoc
      <4>2. "erase" \in StopLoc
        BY DEF StopLoc
      <4>3. EntryInv(s) /\ UNCHANGED <<state, socketOpen, sessions, connects, disconnects>>
        BY DEF IInv, PostStop
      <4> HIDE DEF Fiber
      <4> QED BY <4>1, <4>2, <4>3 DEF EntryInv
    <3>3. LoopInv(s)'
      BY DEF IInv, TypeOK, LoopInv, PostStop, Goto
    <3> QED BY <2>2, <3>1, <3>2, <3>3
  <2> QED BY <2>1, <2>2
<1> QED BY <1>1, <1>2 DEF IInv

LEMMA StopBeginStep ==
  ASSUME IInv, NEW s \in Session, NEW f \in Stopper, StopBegin(s, f)
  PROVE  IInv'
<1>1. /\ EnterStop(s, f) /\ CanRun(s, f) /\ pc[s][f] = "posted" /\ f \in Fiber
      /\ UNCHANGED <<socketOpen, sessions, queued, connects, disconnects, lateRecv>>
  BY DEF StopBegin, Fiber
<1> QED BY <1>1, EnterStopKeeps DEF StopLoc

LEMMA EraseStep ==
  ASSUME IInv, NEW s \in Session, NEW f \in Fiber, Erase(s, f)
  PROVE  IInv'
<1> USE SessionAssumption DEF Fiber
<1>1. TypeOK'
  BY DEF IInv, TypeOK, Erase, Goto, Loc, StopLoc
<1>2. ASSUME NEW t \in Session
      PROVE  OwnerInv(t)' /\ EntryInv(t)' /\ LoopInv(t)'
  <2>1. CASE t # s
    BY <2>1, Frame DEF IInv, TypeOK, Erase, Goto
  <2>2. CASE t = s
    <3>1. OwnerInv(s)'
      BY DEF IInv, TypeOK, OwnerInv, Erase, Goto, StopLoc
    <3>2. EntryInv(s)'
      <4>1. pc'[s][f] = "proto_stop"
        BY DEF IInv, TypeOK, Erase, Goto
      <4> QED BY <4>1 DEF IInv, EntryInv, Erase, StopLoc
    <3>3. LoopInv(s)'
      BY DEF IInv, TypeOK, LoopInv, Erase, Goto
    <3> QED BY <2>2, <3>1, <3>2, <3>3
  <2> QED BY <2>1, <2>2
<1> QED BY <1>1, <1>2 DEF IInv

\* co_stop returns to a place outside the teardown.
LEMMA AfterStopFacts ==
  ASSUME NEW s \in Session, NEW f \in Fiber
  PROVE  AfterStop(s, f) \in {"timer", "done"} /\ (f # "send" => AfterStop(s, f) = "done")
BY DEF AfterStop

\* A fiber inside the teardown, at proto_stop or stream_stop, moves on and leaves
\* everything else alone.
LEMMA TeardownMoveKeeps ==
  ASSUME IInv, NEW s \in Session, NEW f \in Fiber, NEW loc,
         pc[s][f] \in {"proto_stop", "stream_stop"},
         loc \in {"stream_stop", "done"} \/ (f = "send" /\ loc = "timer"),
         loc = "stream_stop" \/ StreamType = "ssl" \/ ProtoType = "ws",
         Goto(s, f, loc),
         UNCHANGED <<state, socketOpen, sessions, is_canceled, queued, connects,
                     disconnects, lateRecv>>
  PROVE  IInv'
<1> USE SessionAssumption DEF Fiber
<1>1. TypeOK'
  BY DEF IInv, TypeOK, Goto, Loc, StopLoc
<1>2. ASSUME NEW t \in Session
      PROVE  OwnerInv(t)' /\ EntryInv(t)' /\ LoopInv(t)'
  <2>1. CASE t # s
    BY <2>1, Frame DEF IInv, TypeOK, Goto
  <2>2. CASE t = s
    <3>0. \A g \in Fiber : pc'[s][g] = IF g = f THEN loc ELSE pc[s][g]
      BY DEF IInv, TypeOK, Goto
    <3>1. OwnerInv(s)'
      BY <3>0 DEF IInv, TypeOK, OwnerInv, StopLoc
    <3>2. EntryInv(s)'
      BY <3>0 DEF IInv, TypeOK, EntryInv, OwnerInv, StopLoc
    <3>3. LoopInv(s)'
      BY <3>0 DEF IInv, TypeOK, LoopInv
    <3> QED BY <2>2, <3>1, <3>2, <3>3
  <2> QED BY <2>1, <2>2
<1> QED BY <1>1, <1>2 DEF IInv

LEMMA ProtoStoppedStep ==
  ASSUME IInv, NEW s \in Session, NEW f \in Fiber, ProtoStopped(s, f)
  PROVE  IInv'
<1>1. CASE Goto(s, f, "stream_stop")
  BY <1>1, TeardownMoveKeeps DEF ProtoStopped
<1>2. CASE Goto(s, f, AfterStop(s, f))
  BY <1>2, TeardownMoveKeeps, AfterStopFacts DEF ProtoStopped
<1> QED BY <1>1, <1>2 DEF ProtoStopped

LEMMA ShutdownFailedStep ==
  ASSUME IInv, NEW s \in Session, NEW f \in Fiber, ShutdownFailed(s, f)
  PROVE  IInv'
BY TeardownMoveKeeps, AfterStopFacts DEF ShutdownFailed

LEMMA StreamStoppedStep ==
  ASSUME IInv, NEW s \in Session, NEW f \in Fiber, StreamStopped(s, f)
  PROVE  IInv'
<1> USE SessionAssumption DEF Fiber
<1> DEFINE loc == AfterStop(s, f)
<1>0. loc \in {"timer", "done"} /\ (f # "send" => loc = "done")
  BY AfterStopFacts
<1>1. /\ pc' = [pc EXCEPT ![s][f] = loc]
      /\ pc[s][f] = "stream_stop"
      /\ socketOpen' = socketOpen \ {s}
      /\ state[s] = "stopping"
      /\ state' = [state EXCEPT ![s] = "stopped"]
      /\ disconnects' = [disconnects EXCEPT ![s] = @ + 1]
      /\ UNCHANGED <<sessions, is_canceled, queued, connects, lateRecv>>
  BY DEF StreamStopped, Goto
<1> HIDE DEF loc
<1>2. TypeOK'
  <2>1. loc \in Loc
    BY <1>0 DEF Loc
  <2>2. pc' \in [Session -> [Fiber -> Loc]]
    BY <1>1, <2>1 DEF IInv, TypeOK
  <2>3. state' \in [Session -> estate] /\ disconnects' \in [Session -> Nat]
    BY <1>1 DEF IInv, TypeOK, estate
  <2>4. socketOpen' \subseteq Session
    BY <1>1 DEF IInv, TypeOK
  <2> QED BY <1>1, <2>2, <2>3, <2>4 DEF IInv, TypeOK
<1>3. ASSUME NEW t \in Session
      PROVE  OwnerInv(t)' /\ EntryInv(t)' /\ LoopInv(t)'
  <2>1. CASE t # s
    BY <1>1, <2>1, Frame DEF IInv, TypeOK
  <2>2. CASE t = s
    <3>0. \A g \in Fiber : pc'[s][g] = IF g = f THEN loc ELSE pc[s][g]
      BY <1>1 DEF IInv, TypeOK
    <3>1. /\ disconnects[s] = 0 /\ disconnects'[s] = 1
          /\ state[s] = "stopping" /\ state'[s] = "stopped"
          /\ s \notin socketOpen' /\ s \notin sessions'
          /\ \A g \in Fiber : pc'[s][g] \notin StopLoc
      BY <1>0, <1>1, <3>0 DEF IInv, TypeOK, OwnerInv, EntryInv, StopLoc
    <3>2. OwnerInv(s)'
      BY <1>0, <1>1, <3>0, <3>1 DEF IInv, TypeOK, OwnerInv, StopLoc
    <3>3. EntryInv(s)'
      BY <3>1 DEF EntryInv
    <3>4. LoopInv(s)'
      BY <1>0, <1>1, <3>0 DEF IInv, TypeOK, LoopInv
    <3> QED BY <2>2, <3>2, <3>3, <3>4
  <2> QED BY <2>1, <2>2
<1> QED BY <1>2, <1>3 DEF IInv

\* send_t and recv_t move among their own places.
LEMMA LoopMoveKeeps ==
  ASSUME IInv, NEW s \in Session, NEW f \in {"send", "recv"}, NEW loc,
         pc[s][f] \in {"posted", "woken", "writing", "reading", "timer"},
         \/ f = "send" /\ loc \in {"writing", "timer", "woken", "done"}
         \/ f = "recv" /\ loc \in {"reading", "done"},
         Goto(s, f, loc),
         queued' \in [Session -> 0 .. MaxQueue],
         \A t \in Session \ {s} : queued'[t] = queued[t],
         f = "recv" => queued' = queued,
         f = "send" /\ loc = "writing" => queued'[s] > 0,
         lateRecv' \in [Session -> Nat],
         \A t \in Session \ {s} : lateRecv'[t] = lateRecv[t],
         lateRecv'[s] # lateRecv[s] => f = "recv" /\ loc = "done" /\ lateRecv'[s] = lateRecv[s] + 1,
         UNCHANGED <<state, socketOpen, sessions, is_canceled, connects, disconnects>>
  PROVE  IInv'
<1> USE SessionAssumption DEF Fiber
<1>1. TypeOK'
  BY DEF IInv, TypeOK, Goto, Loc, StopLoc
<1>2. ASSUME NEW t \in Session
      PROVE  OwnerInv(t)' /\ EntryInv(t)' /\ LoopInv(t)'
  <2>1. CASE t # s
    BY <2>1, Frame DEF IInv, TypeOK, Goto
  <2>2. CASE t = s
    <3>0. \A g \in Fiber : pc'[s][g] = IF g = f THEN loc ELSE pc[s][g]
      BY DEF IInv, TypeOK, Goto
    <3>1. OwnerInv(s)'
      BY <3>0 DEF IInv, TypeOK, OwnerInv, StopLoc
    <3>2. EntryInv(s)'
      BY <3>0 DEF IInv, TypeOK, EntryInv, OwnerInv, StopLoc
    <3>3. LoopInv(s)'
      <4>1. connects[s] = 1
        BY DEF IInv, OwnerInv, TypeOK
      <4>2. pc'[s]["send"] = "writing" => queued'[s] > 0
        BY <3>0 DEF IInv, LoopInv
      <4>3. lateRecv'[s] \in {0, 1} /\ (lateRecv'[s] = 1 => pc'[s]["recv"] = "done")
        <5>1. CASE lateRecv'[s] = lateRecv[s]
          BY <3>0, <5>1 DEF IInv, LoopInv
        <5>2. CASE lateRecv'[s] # lateRecv[s]
          BY <3>0, <5>2 DEF IInv, LoopInv
        <5> QED BY <5>1, <5>2
      <4> QED BY <4>1, <4>2, <4>3 DEF LoopInv
    <3> QED BY <2>2, <3>1, <3>2, <3>3
  <2> QED BY <2>1, <2>2
<1> QED BY <1>1, <1>2 DEF IInv

\* What dequeue and recv_t's loop test may answer.
LEMMA DequeueFacts ==
  ASSUME NEW s \in Session, NEW n
  PROVE  /\ Dequeue(s, n) \in {"writing", "timer", "done"}
         /\ Dequeue(s, n) = "writing" => n > 0
BY DEF Dequeue

LEMMA SendLoopStep ==
  ASSUME IInv, NEW s \in Session, SendLoop(s)
  PROVE  IInv'
<1> DEFINE loc == IF is_started(s) THEN Dequeue(s, queued[s]) ELSE "done"
<1>1. loc \in {"writing", "timer", "done"} /\ (loc = "writing" => queued[s] > 0)
  BY DequeueFacts
<1>2. Goto(s, "send", loc)
  BY DEF SendLoop
<1> HIDE DEF loc
<1>3. /\ pc[s]["send"] \in {"posted", "woken"}
      /\ UNCHANGED <<state, socketOpen, sessions, is_canceled, queued, connects,
                     disconnects, lateRecv>>
  BY DEF SendLoop
<1>4. /\ queued' \in [Session -> 0 .. MaxQueue]
      /\ queued'[s] = queued[s]
      /\ \A t \in Session \ {s} : queued'[t] = queued[t]
      /\ lateRecv' \in [Session -> Nat]
      /\ \A t \in Session : lateRecv'[t] = lateRecv[t]
  BY <1>3 DEF IInv, TypeOK
<1>5. pc[s]["send"] \in {"posted", "woken", "writing", "reading", "timer"}
  BY <1>3
<1> QED BY <1>1, <1>2, <1>3, <1>4, <1>5, LoopMoveKeeps

LEMMA RecvLoopStep ==
  ASSUME IInv, NEW s \in Session, RecvLoop(s)
  PROVE  IInv'
<1> DEFINE loc == ReadNext(s)
<1>1. loc \in {"reading", "done"}
  BY DEF ReadNext
<1>2. Goto(s, "recv", loc)
  BY DEF RecvLoop
<1> HIDE DEF loc
<1>3. /\ pc[s]["recv"] = "posted"
      /\ UNCHANGED <<state, socketOpen, sessions, is_canceled, queued, connects,
                     disconnects, lateRecv>>
  BY DEF RecvLoop
<1> QED BY <1>1, <1>2, <1>3, LoopMoveKeeps DEF IInv, TypeOK

LEMMA WrittenStep ==
  ASSUME IInv, NEW s \in Session, Written(s)
  PROVE  IInv'
<1>1. /\ pc[s]["send"] = "writing"
      /\ CanRun(s, "send")
      /\ UNCHANGED <<socketOpen, sessions, connects, disconnects, lateRecv>>
  BY DEF Written
<1>2. CASE EnterStop(s, "send") /\ UNCHANGED queued
  BY <1>1, <1>2, EnterStopKeeps DEF StopLoc, Fiber
<1>3. CASE /\ queued' = [queued EXCEPT ![s] = @ - 1]
           /\ Goto(s, "send", Dequeue(s, queued[s] - 1))
           /\ UNCHANGED <<state, is_canceled>>
  <2> DEFINE loc == Dequeue(s, queued[s] - 1)
  <2>1. loc \in {"writing", "timer", "done"} /\ (loc = "writing" => queued[s] - 1 > 0)
    BY DequeueFacts
  <2>2. Goto(s, "send", loc)
    BY <1>3
  <2> HIDE DEF loc
  <2>3. queued[s] > 0 /\ queued[s] \in 0 .. MaxQueue
    BY <1>1 DEF IInv, LoopInv, TypeOK
  <2>4. /\ queued' \in [Session -> 0 .. MaxQueue]
        /\ \A t \in Session \ {s} : queued'[t] = queued[t]
        /\ queued'[s] = queued[s] - 1
    BY <1>3, <2>3, SessionAssumption DEF IInv, TypeOK
  <2> QED BY <1>1, <1>3, <2>1, <2>2, <2>4, LoopMoveKeeps DEF IInv, TypeOK
<1> QED BY <1>2, <1>3 DEF Written

LEMMA ReceivedStep ==
  ASSUME IInv, NEW s \in Session, Received(s)
  PROVE  IInv'
<1>1. /\ pc[s]["recv"] = "reading"
      /\ CanRun(s, "recv")
      /\ UNCHANGED <<socketOpen, sessions, queued, connects, disconnects>>
  BY DEF Received
<1>2. CASE EnterStop(s, "recv") /\ UNCHANGED lateRecv
  BY <1>1, <1>2, EnterStopKeeps DEF StopLoc, Fiber
<1>3. CASE /\ lateRecv' = [lateRecv EXCEPT ![s] =
                             IF state[s] = "started" THEN @ ELSE @ + 1]
           /\ Goto(s, "recv", ReadNext(s))
           /\ UNCHANGED <<state, is_canceled>>
  <2> DEFINE loc == ReadNext(s)
  <2>1. loc \in {"reading", "done"} /\ (state[s] # "started" => loc = "done")
    BY DEF ReadNext, is_started
  <2>2. Goto(s, "recv", loc)
    BY <1>3
  <2> HIDE DEF loc
  <2>3. /\ lateRecv' \in [Session -> Nat]
        /\ \A t \in Session \ {s} : lateRecv'[t] = lateRecv[t]
        /\ lateRecv'[s] # lateRecv[s] =>
             state[s] # "started" /\ lateRecv'[s] = lateRecv[s] + 1
    BY <1>3 DEF IInv, TypeOK
  <2> QED BY <1>1, <1>3, <2>1, <2>2, <2>3, LoopMoveKeeps DEF IInv, TypeOK
<1> QED BY <1>2, <1>3 DEF Received

LEMMA EnqueueStep ==
  ASSUME IInv, NEW s \in Session, Enqueue(s)
  PROVE  IInv'
<1> USE SessionAssumption DEF Fiber
<1>1. TypeOK'
  <2>1. queued' \in [Session -> 0 .. MaxQueue]
    BY DEF IInv, TypeOK, Enqueue
  <2>2. pc' \in [Session -> [Fiber -> Loc]]
    BY DEF IInv, TypeOK, Enqueue, Loc
  <2> QED BY <2>1, <2>2 DEF IInv, TypeOK, Enqueue
<1>2. ASSUME NEW t \in Session
      PROVE  OwnerInv(t)' /\ EntryInv(t)' /\ LoopInv(t)'
  <2>1. CASE t # s
    BY <2>1, Frame DEF IInv, TypeOK, Enqueue
  <2>2. CASE t = s
    <3>0. /\ \A g \in Fiber \ {"send"} : pc'[s][g] = pc[s][g]
          /\ pc'[s]["send"] = (IF pc[s]["send"] = "timer" THEN "woken" ELSE pc[s]["send"])
      BY DEF IInv, TypeOK, Enqueue
    <3>1. OwnerInv(s)'
      BY <3>0 DEF IInv, TypeOK, OwnerInv, Enqueue, StopLoc
    <3>2. EntryInv(s)'
      BY <3>0 DEF IInv, TypeOK, EntryInv, Enqueue, StopLoc
    <3>3. LoopInv(s)'
      BY <3>0 DEF IInv, TypeOK, LoopInv, Enqueue
    <3> QED BY <2>2, <3>1, <3>2, <3>3
  <2> QED BY <2>1, <2>2
<1> QED BY <1>1, <1>2 DEF IInv

-----------------------------------------------------------------------------
LEMMA InitIInv == SessInit => IInv
BY SessionAssumption DEF SessInit, IInv, TypeOK, OwnerInv, EntryInv, LoopInv, Fiber, Loc,
   StartLoc, StopLoc, estate

LEMMA NextIInv == IInv /\ [SessNext]_sessVars => IInv'
<1> SUFFICES ASSUME IInv, [SessNext]_sessVars PROVE IInv'
  OBVIOUS
<1>1. CASE UNCHANGED sessVars
  BY <1>1 DEF IInv, TypeOK, OwnerInv, EntryInv, LoopInv, sessVars
<1>2. ASSUME NEW s \in Session, PostStart(s) PROVE IInv'
  BY <1>2, PostStartStep
<1>3. ASSUME NEW s \in Session, NEW f \in Stopper, PostStop(s, f) PROVE IInv'
  BY <1>3, PostStopStep
<1>4. ASSUME NEW s \in Session, SessionStep(s) PROVE IInv'
  BY <1>4, StartBeginStep, StreamStartedStep, ProtoStartedStep, EmplaceStep,
     StopBeginStep, EraseStep, ProtoStoppedStep, StreamStoppedStep,
     ShutdownFailedStep, SendLoopStep, WrittenStep, RecvLoopStep, ReceivedStep,
     EnqueueStep
  DEF SessionStep
<1> QED BY <1>1, <1>2, <1>3, <1>4 DEF SessNext

\* Each place of co_start and co_stop knows what IInv says it knows, in every
\* behaviour of any number of sessions and stoppers.
THEOREM InvariantHolds == SessSpec => []IInv
BY InitIInv, NextIInv, PTL DEF SessSpec

\* The variables keep their types.
THEOREM TypeCorrect == SessSpec => []TypeOK
<1>1. IInv => TypeOK
  BY DEF IInv
<1> QED BY <1>1, InvariantHolds, PTL

\* One fiber at a time owns a teardown, and the state is "stopping" until it is
\* done: the assertion at the end of co_stop cannot fail.
THEOREM OneTeardownHolds == SessSpec => []OneTeardown
<1>1. IInv => OneTeardown
  BY DEF IInv, OwnerInv, OneTeardown
<1> QED BY <1>1, InvariantHolds, PTL

\* The manager and the state machine agree.
THEOREM ManagerAgreesHolds == SessSpec => []ManagerAgrees
<1>1. IInv => ManagerAgrees
  BY DEF IInv, OwnerInv, EntryInv, ManagerAgrees
<1> QED BY <1>1, InvariantHolds, PTL

\* At most one event::recv after the session stopped being started.
THEOREM OneLateRecvHolds == SessSpec => []OneLateRecv
<1>1. IInv => OneLateRecv
  <2> SUFFICES ASSUME IInv, NEW s \in Session PROVE lateRecv[s] <= 1
    BY DEF OneLateRecv
  <2>1. lateRecv[s] \in {0, 1}
    BY DEF IInv, LoopInv
  <2> QED BY <2>1
<1> QED BY <1>1, InvariantHolds, PTL

\* What a session that ended leaves behind.
THEOREM NothingLeftHolds == SessSpec => []NothingLeft
<1>1. IInv => NothingLeft
  <2> SUFFICES ASSUME IInv, NEW s \in Session, Quiet(s)
               PROVE  /\ disconnects[s] > 0 =>
                           state[s] = "stopped" /\ s \notin socketOpen /\ s \notin sessions
                      /\ state[s] = "stopping" =>
                           s \notin sessions /\ (StreamType = "ssl" \/ ProtoType = "ws")
    BY DEF NothingLeft
  <2>1. \A f \in Fiber : pc[s][f] \notin StopLoc
    BY DEF Quiet, StopLoc
  <2>2. OwnerInv(s) /\ EntryInv(s) /\ disconnects[s] \in {0, 1}
    BY DEF IInv, OwnerInv
  <2>3. ASSUME disconnects[s] > 0
        PROVE  state[s] = "stopped" /\ s \notin socketOpen /\ s \notin sessions
    <3>1. disconnects[s] = 1
      BY <2>2, <2>3
    <3> QED BY <2>2, <3>1 DEF OwnerInv, EntryInv
  <2>4. ASSUME state[s] = "stopping"
        PROVE  s \notin sessions /\ (StreamType = "ssl" \/ ProtoType = "ws")
    BY <2>1, <2>2, <2>4, SessionAssumption DEF EntryInv, StopLoc
  <2> QED BY <2>3, <2>4
<1> QED BY <1>1, InvariantHolds, PTL

-----------------------------------------------------------------------------
(***************************************************************************)
(* The session implements SessionLife.                                     *)
(***************************************************************************)

LEMMA EmplaceOpens ==
  ASSUME IInv, NEW s \in Session, Emplace(s)
  PROVE  Life!Open(s)
<1>1. connects[s] = 0 /\ disconnects[s] = 0
  BY DEF IInv, OwnerInv, Emplace
<1>2. connects' = [connects EXCEPT ![s] = 1]
  BY <1>1 DEF Emplace
<1> QED BY <1>1, <1>2 DEF Life!Open, Emplace

LEMMA EraseWithdraws ==
  ASSUME NEW s \in Session, NEW f \in Fiber, Erase(s, f)
  PROVE  Life!Withdraw(s) \/ UNCHANGED Life!lifeVars
BY DEF Erase, Life!Withdraw, Life!lifeVars

LEMMA StreamStoppedCloses ==
  ASSUME IInv, NEW s \in Session, NEW f \in Fiber, StreamStopped(s, f)
  PROVE  Life!Close(s)
<1>1. state[s] = "stopping" /\ pc[s][f] = "stream_stop"
  BY DEF StreamStopped
<1>2. disconnects[s] = 0
  BY <1>1 DEF IInv, OwnerInv
<1>3. s \notin sessions
  BY <1>1 DEF IInv, OwnerInv, EntryInv, StopLoc
<1>4. disconnects' = [disconnects EXCEPT ![s] = 1]
  BY <1>2 DEF StreamStopped, IInv, TypeOK
<1> QED BY <1>2, <1>3, <1>4 DEF StreamStopped, Life!Close

\* Every step of the sessions is a step of SessionLife or changes nothing the
\* application sees.
LEMMA StepRefines ==
  ASSUME IInv, [SessNext]_sessVars
  PROVE  [Life!LifeNext]_(Life!lifeVars)
<1>1. CASE UNCHANGED sessVars
  BY <1>1 DEF sessVars, Life!lifeVars
<1>2. ASSUME NEW s \in Session, Emplace(s)
      PROVE  Life!LifeNext
  BY <1>2, EmplaceOpens DEF Life!LifeNext
<1>3. ASSUME NEW s \in Session, NEW f \in Fiber, Erase(s, f)
      PROVE  [Life!LifeNext]_(Life!lifeVars)
  BY <1>3, EraseWithdraws DEF Life!LifeNext
<1>4. ASSUME NEW s \in Session, NEW f \in Fiber, StreamStopped(s, f)
      PROVE  Life!LifeNext
  BY <1>4, StreamStoppedCloses DEF Life!LifeNext
<1>5. ASSUME NEW s \in Session,
             \/ PostStart(s) \/ \E f \in Stopper : PostStop(s, f)
             \/ StartBegin(s) \/ StreamStarted(s) \/ ProtoStarted(s)
             \/ \E f \in Stopper : StopBegin(s, f)
             \/ \E f \in Fiber : ProtoStopped(s, f) \/ ShutdownFailed(s, f)
             \/ SendLoop(s) \/ Written(s) \/ RecvLoop(s) \/ Received(s) \/ Enqueue(s)
      PROVE  UNCHANGED Life!lifeVars
  BY <1>5 DEF Life!lifeVars, PostStart, PostStop, StartBegin, StreamStarted,
     ProtoStarted, StopBegin, ProtoStopped, ShutdownFailed, SendLoop, Written,
     RecvLoop, Received, Enqueue
<1> QED BY <1>1, <1>2, <1>3, <1>4, <1>5 DEF SessNext, SessionStep

\* The session keeps its promise to the application's connect and disconnect
\* handlers and to whoever iterates over the manager.
THEOREM SessionImplementsLife == SessSpec => SessionLifeSpec
<1>1. SessInit => Life!LifeInit
  BY DEF SessInit, Life!LifeInit
<1>2. IInv /\ [SessNext]_sessVars => [Life!LifeNext]_(Life!lifeVars)
  BY StepRefines
<1> QED BY <1>1, <1>2, InvariantHolds, PTL DEF SessSpec, SessionLifeSpec, Life!LifeSpec
=============================================================================
