---------------------------- MODULE Requests_proofs ----------------------------
(* Proofs about the requests of an http client: its types, that a response reaches the
   callback of its own request, that a request ends in exactly one call or one failed
   write, and that one coroutine at a time is at work in the send loop. *)
EXTENDS Requests, SequenceTheorems, FiniteSetTheorems, TLAPS

\* Where a recv_t is that will still hand out responses.
Receiving == {"posted", "reading", "readOver"}

\* At most the newest recv_t hands out responses, none while a session starts, and
\* none waits for data on a connection that is down.
OneReceiver ==
  \A c \in Conn :
    /\ pc[<<"recv", c>>] # "timer"
    /\ pc[<<"recv", c>>] \in Receiving =>
         /\ c = opened
         /\ link # "starting"
         /\ pc[<<"recv", c>>] = "reading" => link = "up"

\* The callbacks that wait are those of the requests that are not answered, in the
\* same order, as long as there is no reason why they should not be.
Aligned ==
  \A c \in Conn : pc[<<"recv", c>>] \in Receiving /\ skew = {} => callbacks = wire

\* One fiber at a time waits to connect again, and the session is down until it does.
OneSleeper ==
  \A f \in Fiber : pc[f] = "sleep" =>
    link = "down" /\ \A g \in Fiber : pc[g] = "sleep" => g = f

RqIInv ==
  /\ pc \in [Fiber -> Loc]
  /\ link \in {"down", "starting", "up"}
  /\ opened \in Nat
  /\ OneReceiver
  /\ Aligned
  /\ OneSleeper

\* RqIInv holds of the initial states.
LEMMA InitIInv == RqInit => RqIInv
  BY DEF RqInit, RqIInv, OneReceiver, Aligned, OneSleeper, Receiving, Fiber, Conn, Loc, Ready, Chain

\* The locations the model names are locations.
LEMMA Locations ==
  /\ \A l \in Loc : Over(l) \in Loc
  /\ \A f \in Fiber, up \in BOOLEAN : ReturnLoc(f, up) \in Loc
  /\ {"sleep", "gone", "timer", "posted", "working", "reading", "armed", "fired",
      "resolving", "connecting"} \subseteq Loc
  BY DEF Loc, Ready, Chain, Over, Aborted, ReturnLoc

\* A recv_t of a connection is a fiber.
LEMMA RecvFiber == \A c \in Conn : <<"recv", c>> \in Fiber
  BY DEF Fiber, Conn

\* A teardown leaves a recv_t where it was ready, or makes the read it waits for end.
LEMMA OverReceives ==
  \A l \in Loc : /\ Over(l) \in Receiving => l \in Receiving \cup {"timer"}
                 /\ Over(l) # "reading"
                 /\ Over(l) = "sleep" => l = "sleep"
  BY DEF Over, Aborted, Receiving, Loc, Ready, Chain

-----------------------------------------------------------------------------
\* What every step but a new connection does: no recv_t comes to receive.
Kept ==
  /\ pc' \in [Fiber -> Loc]
  /\ link' \in {"down", "starting", "up"}
  /\ opened' \in Nat
  /\ OneReceiver'
  /\ OneSleeper'
  /\ \A c \in Conn : pc'[<<"recv", c>>] \in Receiving => pc[<<"recv", c>>] \in Receiving

\* One fiber moves; if it is a recv_t, not to where it would receive again.
LEMMA Moves ==
  ASSUME RqIInv, NEW f \in Fiber, NEW l \in Loc \ {"sleep"}, Goto(f, l),
         link' = link, opened' = opened,
         f[1] = "recv" => \/ l \notin Receiving \cup {"timer"}
                          \/ pc[f] \in Receiving /\ l = "reading" /\ link = "up"
  PROVE  Kept
  <1>1. pc' = [pc EXCEPT ![f] = l] /\ pc \in [Fiber -> Loc]
    BY DEF Goto, RqIInv
  <1>2. pc' \in [Fiber -> Loc]
    BY <1>1
  <1>3. ASSUME NEW c \in Conn
        PROVE  /\ pc'[<<"recv", c>>] # "timer"
               /\ pc'[<<"recv", c>>] \in Receiving =>
                    /\ pc[<<"recv", c>>] \in Receiving
                    /\ c = opened
                    /\ link # "starting"
                    /\ pc'[<<"recv", c>>] = "reading" => link = "up"
    <2>1. <<"recv", c>> \in Fiber
      BY RecvFiber
    <2>2. CASE f = <<"recv", c>>
      BY <1>1, <2>1, <2>2 DEF RqIInv, OneReceiver, Receiving
    <2>3. CASE f # <<"recv", c>>
      BY <1>1, <2>1, <2>3 DEF RqIInv, OneReceiver
    <2>4. QED
      BY <2>2, <2>3
  <1>4. OneSleeper'
    BY <1>1 DEF RqIInv, OneSleeper
  <1>5. QED
    BY <1>2, <1>3, <1>4 DEF Kept, RqIInv, OneReceiver

\* The session goes down, and every operation in progress with it.
LEMMA GoesDown ==
  ASSUME RqIInv, NEW f \in Fiber, NEW l \in {"sleep", "gone"},
         pc' = [g \in Fiber |-> IF g = f THEN l ELSE Over(pc[g])],
         link # "down", link' = "down", opened' = opened
  PROVE  Kept
  <1>1. l \in Loc /\ l \notin Receiving /\ l # "timer"
    BY Locations DEF Receiving
  <1>2. pc' \in [Fiber -> Loc]
    BY <1>1, Locations DEF RqIInv
  <1>3. ASSUME NEW c \in Conn
        PROVE  /\ pc'[<<"recv", c>>] # "timer"
               /\ pc'[<<"recv", c>>] \in Receiving =>
                    /\ pc[<<"recv", c>>] \in Receiving
                    /\ c = opened
                    /\ pc'[<<"recv", c>>] # "reading"
    <2>1. <<"recv", c>> \in Fiber
      BY RecvFiber
    <2>2. CASE f = <<"recv", c>>
      BY <1>1, <2>1, <2>2
    <2>3. CASE f # <<"recv", c>>
      <3>1. pc'[<<"recv", c>>] = Over(pc[<<"recv", c>>]) /\ pc[<<"recv", c>>] \in Loc
        BY <2>1, <2>3 DEF RqIInv
      <3>2. Over(pc[<<"recv", c>>]) # "timer"
        BY <3>1 DEF Over, Aborted, RqIInv, OneReceiver
      <3>3. QED
        BY <3>1, <3>2, OverReceives DEF RqIInv, OneReceiver
    <2>4. QED
      BY <2>2, <2>3
  <1>4. OneSleeper'
    BY OverReceives DEF RqIInv, OneSleeper
  <1>5. QED
    BY <1>2, <1>3, <1>4 DEF Kept, RqIInv, OneReceiver

\* co_stop, when it returns without a connection or falls asleep.
LEMMA CoStopKeeps ==
  ASSUME RqIInv, NEW f \in Fiber, CoStop(f)
  PROVE  Kept /\ skew' = skew
  <1>1. ReturnLoc(f, FALSE) = "gone"
    BY DEF ReturnLoc
  <1>2. CASE \E retries \in BOOLEAN : Teardown(f, retries)
    BY <1>1, <1>2, GoesDown DEF Teardown
  <1>3. CASE link = "down" /\ Goto(f, ReturnLoc(f, FALSE)) /\ Returned(f)
             /\ UNCHANGED <<fixed, link, opened, skew, revived, corrupt>>
    BY <1>1, <1>3, Moves, Locations DEF Receiving
  <1>4. QED
    BY <1>2, <1>3 DEF CoStop

\* What is left to show of a step that keeps the receivers.
LEMMA KeptAligned ==
  ASSUME RqIInv, Kept, skew' = {} => skew = {},
         skew' = {} /\ callbacks = wire => callbacks' = wire'
  PROVE  RqIInv'
  BY DEF RqIInv, Kept, Aligned

-----------------------------------------------------------------------------
\* The steps of co_stop and of the chain, but for the connection itself.
LEMMA StopSteps ==
  ASSUME RqIInv, NEW f \in Fiber,
         \/ SleepEnds(f) \/ Resolved(f) \/ ConnectFails(f) \/ PostStop(f)
         \/ StopBegin(f) \/ WorkFails(f)
         \/ CoStop(f) /\ UNCHANGED dataVars
  PROVE  RqIInv'
  <1>1. CASE CoStop(f) /\ UNCHANGED dataVars
    BY <1>1, CoStopKeeps, KeptAligned DEF dataVars
  <1>2. CASE SleepEnds(f)
    <2>1. Goto(f, "resolving") /\ link' = "starting" /\ opened' = opened
          /\ UNCHANGED <<callbacks, wire, skew>>
      BY <1>2 DEF SleepEnds, dataVars
    <2>2. \A c \in Conn : pc[<<"recv", c>>] \notin Receiving
      BY <1>2, RecvFiber DEF SleepEnds, Ready, Receiving, RqIInv, OneReceiver, OneSleeper
    <2>3. pc' = [pc EXCEPT ![f] = "resolving"] /\ pc' \in [Fiber -> Loc]
      BY <2>1, Locations DEF Goto, RqIInv
    <2>4. \A c \in Conn : pc'[<<"recv", c>>] \notin Receiving \cup {"timer"}
      BY <2>2, <2>3, RecvFiber DEF RqIInv, OneReceiver, Receiving
    <2>5. OneSleeper'
      BY <1>2, <2>3 DEF SleepEnds, RqIInv, OneSleeper
    <2>6. QED
      BY <2>1, <2>3, <2>4, <2>5 DEF RqIInv, OneReceiver, Aligned
  <1>3. CASE Resolved(f)
    BY <1>3, Moves, Locations, KeptAligned DEF Resolved, Receiving, dataVars
  <1>4. CASE PostStop(f)
    <2>1. f[1] # "recv"
      BY <1>4 DEF PostStop
    <2>2. QED
      BY <1>4, <2>1, Moves, Locations, KeptAligned DEF PostStop, dataVars
  <1>5. QED
    BY <1>1, <1>2, <1>3, <1>4 DEF ConnectFails, StopBegin, WorkFails

\* A connection is made: the one recv_t that may receive is the new one, and it finds
\* no request written.
LEMMA CommitStep ==
  ASSUME RequestsAssumption, RqIInv, NEW f \in Fiber, Commit(f)
  PROVE  RqIInv'
  <1>1. /\ link = "starting" /\ opened < MaxConn
        /\ link' = "up" /\ opened' = opened + 1 /\ wire' = <<>>
        /\ callbacks' = callbacks
        /\ pc' = [g \in Fiber |-> IF g \in Spawned THEN "posted"
                                  ELSE IF g = f THEN ReturnLoc(f, TRUE) ELSE pc[g]]
    BY DEF Commit
  <1>2. skew' = {} => callbacks = <<>>
    BY DEF Commit, StartSkew
  <1>3. pc' \in [Fiber -> Loc]
    BY <1>1, Locations DEF RqIInv
  <1>4. ASSUME NEW c \in Conn
        PROVE  /\ pc'[<<"recv", c>>] # "timer"
               /\ pc'[<<"recv", c>>] \in Receiving => c = opened + 1
    <2>1. <<"recv", c>> \in Fiber
      BY RecvFiber
    <2>2. <<"recv", c>> \in Spawned => c = opened + 1
      BY DEF Spawned
    <2>3. f = <<"recv", c>> => ReturnLoc(f, TRUE) = "gone"
      BY DEF ReturnLoc
    <2>4. pc[<<"recv", c>>] \notin Receiving \cup {"timer"}
      BY <1>1 DEF RqIInv, OneReceiver
    <2>5. CASE <<"recv", c>> \in Spawned
      BY <1>1, <2>1, <2>2, <2>5
    <2>6. CASE <<"recv", c>> \notin Spawned
      BY <1>1, <2>1, <2>3, <2>4, <2>6 DEF Receiving
    <2>7. QED
      BY <2>5, <2>6
  <1>5. OneSleeper'
    BY <1>1 DEF RqIInv, OneSleeper, ReturnLoc
  <1>6. link' \in {"down", "starting", "up"} /\ opened' \in Nat
    BY <1>1 DEF RqIInv
  <1>7. OneReceiver'
    BY <1>1, <1>4 DEF OneReceiver
  <1>8. Aligned'
    BY <1>1, <1>2 DEF Aligned
  <1>9. QED
    BY <1>3, <1>5, <1>6, <1>7, <1>8 DEF RqIInv

\* The requests and the send loops: a callback is queued when its request is written.
LEMMA SendSteps ==
  ASSUME RqIInv, NEW f \in Fiber,
         SendLoop(f) \/ Written(f) \/ Exchanged(f)
  PROVE  RqIInv'
  <1>1. f[1] = "send"
    BY DEF SendLoop, Written, Exchanged
  <1>2. \A q : Dequeue(q) \in Loc \ {"sleep"}
    BY Locations DEF Dequeue
  <1>3. PICK l \in Loc \ {"sleep"} : Goto(f, l)
    BY <1>2, Locations DEF SendLoop, Written, Exchanged, Popped
  <1>4. link' = link /\ opened' = opened
    BY DEF SendLoop, Written, Exchanged
  <1>5. Kept
    BY <1>1, <1>3, <1>4, Moves
  <1>6. CASE SendLoop(f) \/ Exchanged(f)
    BY <1>5, <1>6, KeptAligned DEF SendLoop, Exchanged, dataVars
  <1>7. CASE Written(f)
    <2>1. CASE Head(queue) \in silent
      BY <1>5, <1>7, <2>1, KeptAligned DEF Written
    <2>2. CASE Head(queue) \notin silent
      BY <1>5, <1>7, <2>2, KeptAligned DEF Written, HandleFunc
    <2>3. QED
      BY <2>1, <2>2
  <1>8. QED
    BY <1>6, <1>7

\* send: it wakes a loop and sets the timer.
LEMMA SendStep ==
  ASSUME RqIInv, Send
  PROVE  RqIInv'
  <1>1. PICK p \in Woken :
          pc' = IF kind = "pipeline" /\ sent' \notin silent THEN Rearm(p, sent') ELSE p
    BY DEF Send
  <1>2. /\ p \in [Fiber -> Loc]
        /\ \A c \in Conn : p[<<"recv", c>>] = pc[<<"recv", c>>]
        /\ \A g \in Fiber : p[g] = "sleep" => pc[g] = "sleep"
    <2>1. CASE p = pc
      BY <2>1 DEF RqIInv
    <2>2. CASE \E g \in Fiber : pc[g] = "timer" /\ p = [pc EXCEPT ![g] = "posted"]
      BY <2>2, RecvFiber, Locations DEF RqIInv, OneReceiver
    <2>3. QED
      BY <2>1, <2>2 DEF Woken
  <1>3. /\ Rearm(p, sent') \in [Fiber -> Loc]
        /\ \A c \in Conn : Rearm(p, sent')[<<"recv", c>>] = p[<<"recv", c>>]
        /\ \A g \in Fiber : Rearm(p, sent')[g] = "sleep" => p[g] = "sleep"
    <2>1. Rearm(p, sent') \in [Fiber -> Loc]
      BY <1>2, Locations DEF Rearm
    <2>2. ASSUME NEW c \in Conn
          PROVE  Rearm(p, sent')[<<"recv", c>>] = p[<<"recv", c>>]
      BY RecvFiber DEF Rearm
    <2>3. \A g \in Fiber : Rearm(p, sent')[g] = "sleep" => p[g] = "sleep"
      BY DEF Rearm
    <2>4. QED
      BY <2>1, <2>2, <2>3
  <1>4. /\ pc' \in [Fiber -> Loc]
        /\ \A c \in Conn : pc'[<<"recv", c>>] = pc[<<"recv", c>>]
        /\ \A g \in Fiber : pc'[g] = "sleep" => pc[g] = "sleep"
    BY <1>1, <1>2, <1>3
  <1>5. QED
    BY <1>4 DEF Send, RqIInv, OneReceiver, Aligned, OneSleeper

\* The receive loop and the request timer: a response takes the oldest callback and the
\* oldest request; a read that fails ends the loop; a flush is a reason for skew.
LEMMA ReceiveSteps ==
  ASSUME RqIInv, NEW f \in Fiber,
         RecvLoop(f) \/ Response(f) \/ ReadFails(f) \/ TimerFires(f) \/ TimerRuns(f)
  PROVE  RqIInv'
  <1>1. f[1] = "recv" => \E c \in Conn : f = <<"recv", c>>
    BY DEF Fiber
  <1>2. CASE RecvLoop(f)
    <2>1. PICK l \in {"reading", "gone"} : Goto(f, l) /\ (l = "reading" => link = "up")
      BY <1>2 DEF RecvLoop, Up
    <2>2. Kept
      BY <1>2, <2>1, Moves, Locations DEF RecvLoop, Receiving
    <2>3. QED
      BY <1>2, <2>2, KeptAligned DEF RecvLoop, dataVars
  <1>3. CASE Response(f)
    <2>1. PICK c \in Conn : f = <<"recv", c>>
      BY <1>1, <1>3 DEF Response
    <2>2. pc[f] \in Receiving
      BY <1>3 DEF Response, Receiving
    <2>3. PICK l \in {"reading", "gone"} : Goto(f, l) /\ (l = "reading" => link = "up")
      BY <1>3 DEF Response, Up
    <2>4. Kept
      BY <1>3, <2>2, <2>3, Moves, Locations DEF Response, Receiving
    <2>5. skew = {} => callbacks = wire
      BY <2>1, <2>2 DEF RqIInv, Aligned
    <2>6. callbacks = wire => callbacks' = wire'
      BY <1>3 DEF Response, Handle
    <2>7. skew' = {} => skew = {}
      BY <1>3 DEF Response, LeftInBuffer
    <2>8. QED
      BY <2>4, <2>5, <2>6, <2>7, KeptAligned
  <1>4. CASE ReadFails(f)
    <2>1. PICK c \in Conn : f = <<"recv", c>>
      BY <1>1, <1>4 DEF ReadFails
    <2>2. c = opened
      BY <1>4, <2>1 DEF ReadFails, Receiving, RqIInv, OneReceiver
    <2>3. Kept /\ pc'[f] \in {"sleep", "gone"}
      <3>1. CASE /\ link # "down" /\ link' = "down"
                 /\ \E retries \in BOOLEAN :
                      pc' = [g \in Fiber |-> IF g = f
                                            THEN (IF retries THEN "sleep" ELSE "gone")
                                            ELSE Over(pc[g])]
        <4>1. PICK l \in {"sleep", "gone"} :
                pc' = [g \in Fiber |-> IF g = f THEN l ELSE Over(pc[g])]
          BY <3>1
        <4>2. QED
          BY <1>4, <3>1, <4>1, GoesDown DEF ReadFails
      <3>2. CASE Goto(f, "gone") /\ UNCHANGED link
        <4>1. Kept
          BY <1>4, <3>2, Moves, Locations DEF ReadFails, Receiving
        <4>2. QED
          BY <3>2, <4>1 DEF Goto, RqIInv
      <3>3. QED
        BY <1>4, <3>1, <3>2 DEF ReadFails
    <2>4. \A d \in Conn : pc'[<<"recv", d>>] \notin Receiving
      <3>1. ASSUME NEW d \in Conn, pc'[<<"recv", d>>] \in Receiving
            PROVE  FALSE
        <4>1. pc[<<"recv", d>>] \in Receiving
          BY <2>3, <3>1 DEF Kept
        <4>2. d = c
          BY <2>2, <4>1 DEF RqIInv, OneReceiver
        <4>3. QED
          BY <2>1, <2>3, <3>1, <4>2 DEF Receiving
      <3>2. QED
        BY <3>1
    <2>5. QED
      BY <2>3, <2>4 DEF Kept, RqIInv, Aligned
  <1>5. CASE TimerFires(f)
    BY <1>5, Moves, Locations, KeptAligned DEF TimerFires, Receiving, dataVars
  <1>6. CASE TimerRuns(f)
    <2>1. PICK l \in {"gone", "posted"} : Goto(f, l)
      BY <1>6 DEF TimerRuns
    <2>2. Kept
      BY <1>6, <2>1, Moves, Locations DEF TimerRuns
    <2>3. CASE callbacks = <<>>
      BY <1>6, <2>2, <2>3, KeptAligned DEF TimerRuns
    <2>4. CASE callbacks # <<>>
      <3>1. skew' # {}
        BY <1>6, <2>4 DEF TimerRuns
      <3>2. QED
        BY <2>2, <3>1, KeptAligned
    <2>5. QED
      BY <2>3, <2>4
  <1>7. QED
    BY <1>2, <1>3, <1>4, <1>5, <1>6

\* RqIInv is inductive.
LEMMA NextIInv ==
  ASSUME RequestsAssumption, RqIInv, [RqNext]_rqVars
  PROVE  RqIInv'
  <1>1. CASE Send
    BY <1>1, SendStep
  <1>2. ASSUME NEW f \in Fiber, Run(f)
        PROVE  RqIInv'
    BY <1>2, StopSteps, SendSteps, ReceiveSteps DEF Run
  <1>3. ASSUME NEW f \in Fiber, Work(f)
        PROVE  RqIInv'
    BY <1>3, StopSteps, SendSteps DEF Work
  <1>4. ASSUME NEW f \in Fiber, Read(f)
        PROVE  RqIInv'
    BY <1>4, ReceiveSteps DEF Read
  <1>5. ASSUME NEW f \in Fiber, Connect(f)
        PROVE  RqIInv'
    <2>1. CASE Commit(f)
      BY <2>1, CommitStep
    <2>2. CASE CoStop(f) /\ UNCHANGED dataVars
      BY <2>2, StopSteps
    <2>3. CASE Resolved(f) \/ ConnectFails(f)
      BY <2>3, StopSteps
    <2>4. QED
      BY <1>5, <2>1, <2>2, <2>3 DEF Connect, Connected
  <1>6. ASSUME NEW f \in Fiber, SleepEnds(f) \/ PostStop(f) \/ TimerFires(f)
        PROVE  RqIInv'
    BY <1>6, StopSteps, ReceiveSteps
  <1>7. CASE UNCHANGED rqVars
    BY <1>7 DEF rqVars, RqIInv, OneReceiver, Aligned, OneSleeper
  <1>8. QED
    BY <1>1, <1>2, <1>3, <1>4, <1>5, <1>6, <1>7 DEF RqNext

\* A step that hands a response to a callback hands it to the callback of its own
\* request, unless the connection has a reason for skew.
LEMMA OwnResponseStep ==
  ASSUME RqIInv, [RqNext]_rqVars, NEW a \in answers' \ answers, skew = {}
  PROVE  a[1] = a[2]
  <1>1. (\E f \in Fiber : Exchanged(f) \/ Response(f)) \/ answers' = answers
    BY DEF RqNext, rqVars, dataVars, Send, Run, Work, Read, Connect, StopBegin, SendLoop,
           RecvLoop, TimerRuns, Written, WorkFails, ReadFails, Resolved, Connected, Commit,
           ConnectFails, SleepEnds, PostStop, TimerFires
  <1>2. CASE answers' = answers
    BY <1>2
  <1>3. ASSUME NEW f \in Fiber, Exchanged(f)
        PROVE  a[1] = a[2]
    BY <1>3 DEF Exchanged
  <1>4. ASSUME NEW f \in Fiber, Response(f)
        PROVE  a[1] = a[2]
    <2>1. PICK c \in Conn : f = <<"recv", c>>
      BY <1>4 DEF Response, Fiber
    <2>2. callbacks = wire
      BY <1>4, <2>1 DEF Response, Receiving, RqIInv, Aligned
    <2>3. a = <<Head(callbacks), Head(wire)>>
      BY <1>4 DEF Response
    <2>4. QED
      BY <2>2, <2>3
  <1>5. QED
    BY <1>1, <1>2, <1>3, <1>4

\* On a connection without a reason for skew, responses reach the callbacks of their own
\* requests: any number of requests, connections, stops and timeouts.
THEOREM ResponsesReachTheirCallbacks == RqSpec => OwnResponse
  <1>1. RqInit => RqIInv
    BY InitIInv
  <1>2. RqIInv /\ [RqNext]_rqVars => RqIInv'
    BY NextIInv, RequestsAssumption
  <1>3. RqIInv /\ [RqNext]_rqVars
          => [\A a \in answers' \ answers : a[1] # a[2] => skew # {}]_rqVars
    BY OwnResponseStep
  <1>4. QED
    BY <1>1, <1>2, <1>3, PTL DEF RqSpec, OwnResponse

\* One fiber at a time waits to connect again, for a session that stays down meanwhile:
\* co_start, after the wait, never finds the session started by another.
THEOREM ReconnectsFindTheSessionDown == RqSpec => []OneSleeper
  <1>1. RqInit => RqIInv
    BY InitIInv
  <1>2. RqIInv /\ [RqNext]_rqVars => RqIInv'
    BY NextIInv, RequestsAssumption
  <1>3. RqIInv => OneSleeper
    BY DEF RqIInv
  <1>4. QED
    BY <1>1, <1>2, <1>3, PTL DEF RqSpec

-----------------------------------------------------------------------------
(***************************************************************************)
(* How often an element occurs in a sequence.                              *)
(***************************************************************************)
Places(s, r) == {i \in DOMAIN s : s[i] = r}
Count(s, r) == Cardinality(Places(s, r))

LEMMA CountType ==
  ASSUME NEW S, NEW s \in Seq(S), NEW r
  PROVE  IsFiniteSet(Places(s, r)) /\ Count(s, r) \in Nat
  <1>1. DOMAIN s = 1 .. Len(s) /\ Len(s) \in Nat
    BY LenProperties
  <1>2. IsFiniteSet(DOMAIN s)
    BY <1>1, FS_Interval
  <1>3. Places(s, r) \in SUBSET DOMAIN s
    BY DEF Places
  <1>4. QED
    BY <1>2, <1>3, FS_Subset, FS_CardinalityType DEF Count

LEMMA CountEmpty ==
  ASSUME NEW r
  PROVE  Count(<<>>, r) = 0
  <1>1. Places(<<>>, r) = {}
    BY DEF Places
  <1>2. QED
    BY <1>1, FS_EmptySet DEF Count

LEMMA CountAppend ==
  ASSUME NEW S, NEW s \in Seq(S), NEW e \in S, NEW r
  PROVE  Count(Append(s, e), r) = Count(s, r) + (IF e = r THEN 1 ELSE 0)
  <1> DEFINE t == Append(s, e)
  <1>1. /\ t \in Seq(S) /\ Len(t) = Len(s) + 1 /\ Len(s) \in Nat
        /\ \A i \in 1 .. Len(s) : t[i] = s[i]
        /\ t[Len(s) + 1] = e
    BY AppendProperties, LenProperties
  <1>2. DOMAIN s = 1 .. Len(s) /\ DOMAIN t = 1 .. Len(s) + 1
    <2> HIDE DEF t
    <2> QED BY <1>1, LenProperties
  <1> HIDE DEF t
  <1>3. IsFiniteSet(Places(s, r)) /\ Count(s, r) \in Nat
    BY CountType
  <1>4. Len(s) + 1 \notin Places(s, r)
    BY <1>1, <1>2 DEF Places
  <1>5. CASE e = r
    <2>1. Places(t, r) = Places(s, r) \cup {Len(s) + 1}
      BY <1>1, <1>2, <1>5 DEF Places
    <2>2. Cardinality(Places(t, r)) = Cardinality(Places(s, r)) + 1
      BY <1>3, <1>4, <2>1, FS_AddElement
    <2>3. QED
      BY <1>5, <2>2 DEF Count, t
  <1>6. CASE e # r
    <2>1. Places(t, r) = Places(s, r)
      BY <1>1, <1>2, <1>6 DEF Places
    <2>2. QED
      BY <1>3, <1>6, <2>1 DEF Count, t
  <1>7. QED
    BY <1>5, <1>6

LEMMA CountTail ==
  ASSUME NEW S, NEW s \in Seq(S), s # <<>>, NEW r
  PROVE  Count(s, r) = Count(Tail(s), r) + (IF Head(s) = r THEN 1 ELSE 0)
  <1> DEFINE t == Tail(s)
  <1>1. /\ t \in Seq(S) /\ Len(t) = Len(s) - 1
        /\ \A i \in 1 .. Len(t) : t[i] = s[i + 1]
        /\ Head(s) = s[1] /\ Len(s) \in Nat \ {0}
    BY HeadTailProperties, EmptySeq, LenProperties
  <1>2. DOMAIN s = 1 .. Len(s) /\ DOMAIN t = 1 .. Len(s) - 1
    <2> HIDE DEF t
    <2> QED BY <1>1, LenProperties
  <1> HIDE DEF t
  <1>3. IsFiniteSet(Places(t, r)) /\ IsFiniteSet(Places(s, r)) /\ Count(t, r) \in Nat
         /\ Count(s, r) \in Nat
    BY <1>1, CountType
  <1> DEFINE rest == Places(s, r) \ {1}
             f == [i \in Places(t, r) |-> i + 1]
  <1>4. f \in Bijection(Places(t, r), rest)
    <2>1. \A i \in Places(t, r) : i \in Int /\ i + 1 \in rest
      BY <1>1, <1>2 DEF Places
    <2>2. \A j \in rest : j - 1 \in Places(t, r) /\ (j - 1) + 1 = j
      <3>1. ASSUME NEW j \in rest
            PROVE  j - 1 \in Places(t, r) /\ (j - 1) + 1 = j
        <4>1. j \in 2 .. Len(s) /\ s[j] = r
          BY <1>1, <1>2, <3>1 DEF Places
        <4>2. j - 1 \in 1 .. Len(t) /\ (j - 1) + 1 = j
          BY <1>1, <4>1
        <4>3. t[j - 1] = s[(j - 1) + 1]
          BY <1>1, <4>2
        <4>4. QED
          BY <1>1, <1>2, <4>1, <4>2, <4>3 DEF Places
      <3>2. QED
        BY <3>1
    <2>3. f \in [Places(t, r) -> rest]
      BY <2>1
    <2>4. \A a, b \in Places(t, r) : f[a] = f[b] => a = b
      BY <2>1
    <2>5. \A y \in rest : \E x \in Places(t, r) : f[x] = y
      BY <2>2
    <2>6. DOMAIN f = Places(t, r)
      OBVIOUS
    <2> HIDE DEF f, rest
    <2>7. QED
      BY <2>3, <2>4, <2>5, <2>6 DEF Bijection, Injection, Surjection, IsInjective
  <1>5. Cardinality(rest) = Count(t, r)
    <2>1. ExistsBijection(Places(t, r), rest)
      BY <1>4 DEF ExistsBijection
    <2> HIDE DEF rest
    <2>2. QED
      BY <1>3, <2>1, FS_Bijection DEF Count
  <1>6. Cardinality(rest) = IF 1 \in Places(s, r) THEN Count(s, r) - 1 ELSE Count(s, r)
    BY <1>3, FS_RemoveElement DEF Count
  <1>7. 1 \in Places(s, r) <=> Head(s) = r
    BY <1>1, <1>2 DEF Places
  <1>8. QED
    BY <1>3, <1>5, <1>6, <1>7 DEF t

-----------------------------------------------------------------------------
(***************************************************************************)
(* The send loops, over any number of reconnects.                          *)
(***************************************************************************)
\* Where a send_t is on its way round the queue.
Looping == {"posted", "timer", "working", "workOver"}

SendLocs ==
  \A f \in Fiber :
    /\ f[1] = "send" => pc[f] \in {"idle", "gone"} \cup Looping \cup Chain
    /\ pc[f] \in {"timer", "working", "workOver"} => f[1] = "send"

\* The loops of a session that is down are on their way out, and have left before the
\* next attempt begins.
SendPhases ==
  \A f \in Fiber : f[1] = "send" =>
    /\ link = "down" => pc[f] \notin {"timer", "working"}
    /\ link = "starting" => pc[f] \notin Looping
    /\ link = "up" => pc[f] # "workOver"

\* Until a send loop outlives its connection there is one.
Single ==
  revived = 0 => \A f \in Fiber : f[1] = "send" /\ pc[f] \in Looping => f = <<"send", opened>>

Loops ==
  /\ opened \in 0 .. MaxConn /\ revived \in Nat
  /\ SendLocs /\ SendPhases /\ Single

\* Loops holds of the initial states.
LEMMA InitLoops == RequestsAssumption /\ RqInit => Loops
  <1> SUFFICES ASSUME RequestsAssumption, RqInit PROVE Loops
    OBVIOUS
  <1>1. \A f \in Fiber : IF f[1] = "send" THEN pc[f] = "idle"
                                          ELSE pc[f] \in {"idle", "resolving"}
    BY DEF RqInit, Fiber
  <1>2. SendLocs /\ SendPhases /\ Single
    BY <1>1 DEF SendLocs, SendPhases, Single, Looping
  <1>3. QED
    BY <1>2 DEF RequestsAssumption, RqInit, Loops

\* What a teardown makes of the loops.
LEMMA OverLoops ==
  ASSUME NEW l \in Loc
  PROVE  /\ Over(l) \notin {"timer", "working"}
         /\ Over(l) = "workOver" <=> l \in {"working", "workOver"}
         /\ l \in Looping => Over(l) \in Looping
         /\ Over(l) \in {"idle", "gone"} \cup Chain
              => l \in {"idle", "gone", "armed"} \cup Chain
         /\ l \in {"idle", "gone"} \cup Chain => Over(l) \in {"idle", "gone"} \cup Chain
         /\ Over(l) \in Looping => l \in Looping
  BY DEF Over, Aborted, Looping, Loc, Ready, Chain

\* One fiber moves and the session stays as it is.
LEMMA LoopMoves ==
  ASSUME RqIInv, Loops, NEW f \in Fiber, NEW l \in Loc, Goto(f, l),
         UNCHANGED <<link, opened, revived>>,
         \/ f[1] # "send" /\ l \notin {"timer", "working", "workOver"}
         \/ l = "gone"
         \/ l \in Chain /\ pc[f] \in Chain
         \/ l \in {"timer", "working"} /\ link = "up" /\ pc[f] \in Looping /\ f[1] = "send"
  PROVE  Loops'
  <1>1. /\ pc \in [Fiber -> Loc] /\ pc' = [pc EXCEPT ![f] = l]
        /\ pc'[f] = l /\ \A g \in Fiber : g # f => pc'[g] = pc[g]
    BY DEF RqIInv, Goto
  <1>2. SendLocs'
    BY <1>1 DEF Loops, SendLocs, Looping, Chain
  <1>3. SendPhases'
    BY <1>1 DEF Loops, SendPhases, Looping, Chain
  <1>4. Single'
    <2>1. \A g \in Fiber : g[1] = "send" /\ pc'[g] \in Looping => pc[g] \in Looping
      BY <1>1 DEF Looping, Chain
    <2>2. QED
      BY <2>1 DEF Loops, Single
  <1>5. QED
    BY <1>2, <1>3, <1>4 DEF Loops

\* The session goes down.
LEMMA LoopsFall ==
  ASSUME RqIInv, Loops, NEW f \in Fiber, NEW l \in {"sleep", "gone"},
         pc' = [g \in Fiber |-> IF g = f THEN l ELSE Over(pc[g])],
         link' = "down", UNCHANGED <<opened, revived>>
  PROVE  Loops'
  <1>1. pc \in [Fiber -> Loc]
    BY DEF RqIInv
  <1>2. \A g \in Fiber : pc'[g] = l \/ (pc'[g] = Over(pc[g]) /\ pc[g] \in Loc)
    BY <1>1
  <1>3. SendLocs'
    <2>1. ASSUME NEW g \in Fiber, pc'[g] = Over(pc[g]), pc[g] \in Loc
          PROVE  /\ g[1] = "send" => pc'[g] \in {"idle", "gone"} \cup Looping \cup Chain
                 /\ pc'[g] \in {"timer", "working", "workOver"} => g[1] = "send"
      BY <2>1, OverLoops DEF Loops, SendLocs
    <2>2. l \in {"idle", "gone"} \cup Chain /\ l \notin {"timer", "working", "workOver"}
      BY DEF Chain
    <2>3. QED
      BY <1>2, <2>1, <2>2 DEF SendLocs
  <1>4. SendPhases'
    BY <1>2, OverLoops DEF SendPhases
  <1>5. Single'
    <2>1. l \notin Looping
      BY DEF Looping
    <2>2. \A g \in Fiber : pc'[g] \in Looping => pc[g] \in Looping
      BY <1>2, <2>1, OverLoops
    <2>3. QED
      BY <2>2 DEF Loops, Single
  <1>6. QED
    BY <1>3, <1>4, <1>5 DEF Loops

\* co_stop, when it returns without a connection or falls asleep.
LEMMA CoStopLoops ==
  ASSUME RqIInv, Loops, NEW f \in Fiber, CoStop(f)
  PROVE  Loops'
  <1>1. ReturnLoc(f, FALSE) = "gone"
    BY DEF ReturnLoc
  <1>2. CASE \E retries \in BOOLEAN : Teardown(f, retries)
    BY <1>1, <1>2, LoopsFall DEF Teardown
  <1>3. CASE link = "down" /\ Goto(f, ReturnLoc(f, FALSE)) /\ Returned(f)
             /\ UNCHANGED <<fixed, link, opened, skew, revived, corrupt>>
    BY <1>1, <1>3, LoopMoves, Locations
  <1>4. QED
    BY <1>2, <1>3 DEF CoStop

\* The wait of the chain ends: no loop is left.
LEMMA SleepEndsLoops ==
  ASSUME RqIInv, Loops, NEW f \in Fiber, SleepEnds(f)
  PROVE  Loops'
  <1>1. /\ pc \in [Fiber -> Loc] /\ pc' = [pc EXCEPT ![f] = "resolving"]
        /\ link = "down" /\ link' = "starting" /\ pc[f] = "sleep"
        /\ UNCHANGED <<opened, revived>>
        /\ \A g \in Fiber : pc[g] \notin Ready
    BY DEF SleepEnds, Goto, RqIInv, OneSleeper
  <1>2. \A g \in Fiber : g[1] = "send" => pc'[g] \notin Looping
    BY <1>1 DEF Loops, SendPhases, Looping, Ready
  <1>3. SendLocs'
    BY <1>1 DEF Loops, SendLocs, Looping, Chain
  <1>4. QED
    BY <1>1, <1>2, <1>3 DEF Loops, SendPhases, Single

\* The connection is made: the new loop, and the one, if any, that made it.
LEMMA CommitLoops ==
  ASSUME RequestsAssumption, RqIInv, Loops, NEW f \in Fiber, Commit(f)
  PROVE  Loops'
  <1>1. /\ link = "starting" /\ opened < MaxConn /\ link' = "up" /\ opened' = opened + 1
        /\ revived' = revived + (IF f[1] = "send" THEN 1 ELSE 0)
        /\ pc' = [g \in Fiber |-> IF g \in Spawned THEN "posted"
                                  ELSE IF g = f THEN ReturnLoc(f, TRUE) ELSE pc[g]]
    BY DEF Commit
  <1>2. ReturnLoc(f, TRUE) = IF f[1] = "send" THEN "timer" ELSE "gone"
    BY DEF ReturnLoc
  <1>3. \A g \in Spawned : g[1] = "send" => g = <<"send", opened + 1>>
    BY DEF Spawned
  <1>4. \A g \in Fiber : g[1] = "send" => pc[g] \notin Looping
    BY <1>1 DEF Loops, SendPhases
  <1>5. opened' \in 0 .. MaxConn /\ revived' \in Nat /\ (revived' = 0 => f[1] # "send")
    BY <1>1 DEF Loops, RequestsAssumption
  <1>6. SendLocs'
    BY <1>1, <1>2, <1>3 DEF Loops, SendLocs, Looping
  <1>7. SendPhases'
    BY <1>1, <1>2, <1>4 DEF SendPhases, Looping
  <1>8. Single'
    BY <1>1, <1>3, <1>4, <1>5 DEF Single
  <1>9. QED
    BY <1>5, <1>6, <1>7, <1>8 DEF Loops

\* send wakes a loop; the request timer is no loop.
LEMMA SendLoops ==
  ASSUME RqIInv, Loops, Send
  PROVE  Loops' /\ \A f \in Fiber : Inside(f)' => Inside(f)
  <1>1. PICK p \in Woken :
          pc' = IF kind = "pipeline" /\ sent' \notin silent THEN Rearm(p, sent') ELSE p
    BY DEF Send
  <1>2. UNCHANGED <<link, opened, revived>> /\ pc \in [Fiber -> Loc]
    BY DEF Send, RqIInv
  <1>3. \A g \in Fiber : p[g] = pc[g] \/ (pc[g] = "timer" /\ p[g] = "posted")
    <2>1. CASE p = pc
      BY <2>1
    <2>2. CASE \E g \in Fiber : pc[g] = "timer" /\ p = [pc EXCEPT ![g] = "posted"]
      BY <1>2, <2>2
    <2>3. QED
      BY <2>1, <2>2 DEF Woken
  <1>4. \A g \in Fiber : \/ pc'[g] = pc[g] \/ (pc[g] = "timer" /\ pc'[g] = "posted")
                         \/ g[1] = "timeout" /\ pc'[g] \in {"armed", "gone"}
    <2>1. CASE pc' = p
      BY <1>3, <2>1
    <2>2. CASE pc' = Rearm(p, sent')
      BY <1>3, <2>2 DEF Rearm
    <2>3. QED
      BY <1>1, <2>1, <2>2
  <1>5. SendLocs'
    BY <1>4 DEF Loops, SendLocs, Looping
  <1>6. SendPhases'
    BY <1>2, <1>4 DEF Loops, SendPhases, Looping
  <1>7. Single'
    BY <1>2, <1>4 DEF Loops, Single, Looping
  <1>8. \A f \in Fiber : Inside(f)' => Inside(f)
    BY <1>4 DEF Inside, SendIdle
  <1>9. QED
    BY <1>2, <1>5, <1>6, <1>7, <1>8 DEF Loops

\* Loops is kept.
LEMMA NextLoops ==
  ASSUME RequestsAssumption, RqIInv, Loops, [RqNext]_rqVars
  PROVE  Loops'
  <1>1. CASE Send
    BY <1>1, SendLoops
  <1>2. ASSUME NEW f \in Fiber, CoStop(f)
        PROVE  Loops'
    BY <1>2, CoStopLoops
  <1>3. ASSUME NEW f \in Fiber, SendLoop(f) \/ Written(f) \/ Exchanged(f)
        PROVE  Loops'
    <2>1. f[1] = "send" /\ pc[f] \in Looping /\ UNCHANGED <<link, opened, revived>>
      BY <1>3 DEF SendLoop, Written, Exchanged, Looping
    <2>2. PICK l \in {"working", "timer", "gone"} : Goto(f, l) /\ (l # "gone" => link = "up")
      BY <1>3 DEF SendLoop, Written, Exchanged, Popped, Dequeue, Up
    <2>3. QED
      BY <2>1, <2>2, LoopMoves, Locations
  <1>4. ASSUME NEW f \in Fiber, RecvLoop(f) \/ TimerRuns(f) \/ Response(f)
                                \/ PostStop(f) \/ TimerFires(f)
        PROVE  Loops'
    <2>1. f[1] # "send" /\ UNCHANGED <<link, opened, revived>>
      BY <1>4 DEF RecvLoop, TimerRuns, Response, PostStop, TimerFires
    <2>2. PICK l \in {"reading", "gone", "posted", "fired"} : Goto(f, l)
      BY <1>4 DEF RecvLoop, TimerRuns, Response, PostStop, TimerFires
    <2>3. QED
      BY <2>1, <2>2, LoopMoves, Locations
  <1>5. ASSUME NEW f \in Fiber, ReadFails(f)
        PROVE  Loops'
    <2>1. UNCHANGED <<opened, revived>>
      BY <1>5 DEF ReadFails
    <2>2. CASE Goto(f, "gone") /\ UNCHANGED link
      BY <2>1, <2>2, LoopMoves, Locations
    <2>3. ASSUME NEW l \in {"sleep", "gone"}, link' = "down",
                 pc' = [g \in Fiber |-> IF g = f THEN l ELSE Over(pc[g])]
          PROVE  Loops'
      BY <2>1, <2>3, LoopsFall
    <2>4. QED
      BY <1>5, <2>2, <2>3 DEF ReadFails
  <1>6. ASSUME NEW f \in Fiber, Resolved(f)
        PROVE  Loops'
    BY <1>6, LoopMoves, Locations DEF Resolved, Chain
  <1>7. ASSUME NEW f \in Fiber, Connected(f)
        PROVE  Loops'
    BY <1>2, <1>7, CommitLoops DEF Connected
  <1>8. ASSUME NEW f \in Fiber, SleepEnds(f)
        PROVE  Loops'
    BY <1>8, SleepEndsLoops
  <1>9. ASSUME NEW f \in Fiber, StopBegin(f) \/ WorkFails(f) \/ ConnectFails(f)
        PROVE  Loops'
    BY <1>2, <1>9 DEF StopBegin, WorkFails, ConnectFails
  <1>10. CASE UNCHANGED rqVars
    BY <1>10 DEF rqVars, Loops, SendLocs, SendPhases, Single
  <1>11. QED
    BY <1>1, <1>3, <1>4, <1>5, <1>6, <1>7, <1>8, <1>9, <1>10
       DEF RqNext, Run, Work, Read, Connect

-----------------------------------------------------------------------------
(***************************************************************************)
(* The requests: where each one is, and how often its callback was called. *)
(***************************************************************************)
RequestTypes ==
  /\ kind \in Kinds /\ silent \subseteq Req
  /\ sent \in 0 .. MaxReq
  /\ queue \in Seq(Req) /\ callbacks \in Seq(Req \ silent) /\ wire \in Seq(Req)
  /\ skew \subseteq {"leftover", "residue", "silent", "flushed"}
  /\ answers \subseteq Req \X Req
  /\ calls \in [Req -> Nat] /\ failedWrites \in [Req -> Nat]
  /\ corrupt \in BOOLEAN

\* A loop inside the coroutine at the front has a front to be in.
Busy == ~ corrupt => \A f \in Fiber : Inside(f) => queue # <<>>

\* A request is in the queue or its callback waits, or was called: once, when it is sent.
Balance(r) == Count(queue, r) + Count(callbacks, r) + calls[r] - failedWrites[r]
Balanced == ~ corrupt => \A r \in Req \ silent : Balance(r) = IF r <= sent THEN 1 ELSE 0

Requests2 == RequestTypes /\ Busy /\ Balanced /\ OneInFlight

LEMMA InitRequests == RequestsAssumption /\ RqInit => Requests2
  <1> SUFFICES ASSUME RequestsAssumption, RqInit PROVE Requests2
    OBVIOUS
  <1>1. silent \subseteq Req
    BY DEF RequestsAssumption, RqInit, Req
  <1>2. 0 \in 0 .. MaxReq /\ <<>> \in Seq(Req) /\ <<>> \in Seq(Req \ silent)
    BY EmptySeq DEF RequestsAssumption
  <1>3. RequestTypes
    BY <1>1, <1>2 DEF RqInit, RequestTypes
  <1>4. Busy
    BY DEF RqInit, Busy, Inside, SendIdle, Fiber
  <1>5. Balanced
    <2>1. ASSUME NEW r \in Req \ silent PROVE Balance(r) = 0 /\ ~ (r <= sent)
      BY CountEmpty DEF RqInit, Balance, Req
    <2>2. QED
      BY <2>1 DEF Balanced
  <1>6. OneInFlight
    BY DEF RqInit, OneInFlight
  <1>7. QED
    BY <1>3, <1>4, <1>5, <1>6 DEF Requests2

\* A refused write calls and counts in the same request.
Even ==
  /\ calls' \in [Req -> Nat] /\ failedWrites' \in [Req -> Nat]
  /\ \A r \in Req : calls'[r] - failedWrites'[r] = calls[r] - failedWrites[r]

LEMMA BothCount ==
  ASSUME RequestTypes, NEW q,
         \/ Called(q) /\ failedWrites' = [failedWrites EXCEPT ![q] = @ + 1]
         \/ UNCHANGED <<calls, failedWrites>>
  PROVE  Even
  <1>1. calls \in [Req -> Nat] /\ failedWrites \in [Req -> Nat]
    BY DEF RequestTypes
  <1>2. CASE UNCHANGED <<calls, failedWrites>>
    BY <1>1, <1>2 DEF Even
  <1>3. CASE Called(q) /\ failedWrites' = [failedWrites EXCEPT ![q] = @ + 1]
    <2>1. /\ calls' = [calls EXCEPT ![q] = calls[q] + 1]
          /\ failedWrites' = [failedWrites EXCEPT ![q] = failedWrites[q] + 1]
      BY <1>3 DEF Called
    <2>2. \A r \in Req : /\ calls'[r] = IF r = q THEN calls[r] + 1 ELSE calls[r]
                         /\ failedWrites'[r] = IF r = q THEN failedWrites[r] + 1
                                               ELSE failedWrites[r]
      BY <1>1, <2>1
    <2>3. DOMAIN calls' = Req /\ DOMAIN failedWrites' = Req
      BY <1>1, <2>1
    <2>4. \A r \in Req : /\ calls[r] \in Nat /\ failedWrites[r] \in Nat
                         /\ calls'[r] \in Nat /\ failedWrites'[r] \in Nat
      BY <1>1, <2>2
    <2>5. calls' \in [Req -> Nat]
      BY <1>1, <2>1, <2>4
    <2>6. failedWrites' \in [Req -> Nat]
      BY <1>1, <2>1, <2>4
    <2>7. QED
      BY <2>2, <2>4, <2>5, <2>6 DEF Even
  <1>4. QED
    BY <1>2, <1>3

\* A step that moves no request, and lets no loop into the front.
Unmoved ==
  /\ UNCHANGED <<fixed, sent, queue, callbacks, answers, corrupt>>
  /\ wire' \in Seq(Req)
  /\ skew' \subseteq {"leftover", "residue", "silent", "flushed"}
  /\ Even
  /\ \A f \in Fiber : Inside(f)' => Inside(f)

LEMMA UnmovedKeeps ==
  ASSUME Requests2, ~ corrupt, Unmoved
  PROVE  Requests2'
  <1>1. /\ UNCHANGED <<kind, silent, sent, queue, callbacks, answers, corrupt>>
        /\ Even
    BY DEF Unmoved, fixed
  <1>2. RequestTypes'
    BY <1>1 DEF Requests2, RequestTypes, Unmoved, Even
  <1>3. Busy'
    BY <1>1 DEF Requests2, Busy, Unmoved
  <1>4. Balanced'
    <2>1. ASSUME NEW r \in Req \ silent
          PROVE  Balance(r)' = Balance(r)
      <3>1. /\ Count(queue, r)' = Count(queue, r) /\ Count(callbacks, r)' = Count(callbacks, r)
            /\ calls'[r] - failedWrites'[r] = calls[r] - failedWrites[r]
            /\ calls'[r] \in Nat /\ failedWrites'[r] \in Nat
            /\ calls[r] \in Nat /\ failedWrites[r] \in Nat
        BY <1>1 DEF Even, Requests2, RequestTypes
      <3>2. Count(queue, r) \in Nat /\ Count(callbacks, r) \in Nat
        BY CountType DEF Requests2, RequestTypes
      <3>3. QED
        BY <3>1, <3>2 DEF Balance
    <2>2. QED
      BY <1>1, <2>1 DEF Requests2, Balanced
  <1>5. OneInFlight'
    BY <1>1 DEF OneInFlight
  <1>6. QED
    BY <1>2, <1>3, <1>4, <1>5 DEF Requests2

\* The balance is kept, or grows by the request that is sent.
LEMMA BalanceKeeps ==
  ASSUME Requests2, ~ corrupt, UNCHANGED <<silent, sent>>,
         RequestTypes', Busy', OneInFlight',
         \A r \in Req \ silent : Balance(r)' = Balance(r)
  PROVE  Requests2'
  <1>1. Balanced'
    BY DEF Requests2, Balanced
  <1>2. QED
    BY <1>1 DEF Requests2

\* co_stop, for a loop that is inside the front or for another fiber.
LEMMA CoStopUnmoved ==
  ASSUME RqIInv, Requests2, NEW f \in Fiber, CoStop(f), UNCHANGED dataVars,
         f[1] = "send" => Inside(f)
  PROVE  Unmoved
  <1>1. UNCHANGED <<fixed, sent, queue, callbacks, wire, answers, corrupt, skew>>
    BY DEF CoStop, Teardown, dataVars
  <1>2. pc \in [Fiber -> Loc]
    BY DEF RqIInv
  <1>3. Even
    <2>1. Refused \/ UNCHANGED <<calls, failedWrites>>
      BY DEF CoStop, Teardown, Returned
    <2>2. QED
      BY <2>1, BothCount DEF Refused, Requests2
  <1>4. ASSUME NEW g \in Fiber, Inside(g)'
        PROVE  Inside(g)
    <2>1. CASE g = f
      BY <1>4, <2>1 DEF Inside
    <2>2. CASE g # f
      <3>1. pc'[g] = pc[g] \/ pc'[g] = Over(pc[g])
        BY <1>2, <2>2 DEF CoStop, Teardown, Goto
      <3>2. pc[g] \in SendIdle => pc'[g] \in SendIdle
        BY <3>1 DEF Over, Aborted, SendIdle
      <3>3. QED
        BY <1>4, <3>2 DEF Inside
    <2>3. QED
      BY <2>1, <2>2
  <1>5. QED
    BY <1>1, <1>3, <1>4 DEF Unmoved, Requests2, RequestTypes

\* The steps that move no request.
LEMMA UnmovedSteps ==
  ASSUME RqIInv, Loops, Requests2, NEW f \in Fiber,
         \/ SleepEnds(f) \/ Resolved(f) \/ Connected(f) \/ ConnectFails(f) \/ PostStop(f)
         \/ StopBegin(f) \/ WorkFails(f) \/ RecvLoop(f) \/ TimerFires(f)
  PROVE  Unmoved
  <1>1. pc \in [Fiber -> Loc]
    BY DEF RqIInv
  <1>2. ASSUME NEW l, Goto(f, l), f[1] = "send" => Inside(f),
               UNCHANGED <<fixed, skew, calls, failedWrites, corrupt, dataVars>>
        PROVE  Unmoved
    <2>1. \A g \in Fiber : Inside(g)' => Inside(g)
      BY <1>1, <1>2 DEF Inside, Goto
    <2>2. Even
      BY <1>2, BothCount DEF Requests2
    <2>3. QED
      BY <1>2, <2>1, <2>2 DEF Unmoved, Requests2, RequestTypes, dataVars
  <1>3. pc[f] \in Chain => (f[1] = "send" => Inside(f))
    BY DEF Chain, Inside, SendIdle
  <1>4. CASE SleepEnds(f) \/ Resolved(f)
    BY <1>2, <1>3, <1>4 DEF SleepEnds, Resolved, Chain
  <1>5. CASE PostStop(f) \/ RecvLoop(f) \/ TimerFires(f)
    BY <1>2, <1>5 DEF PostStop, RecvLoop, TimerFires
  <1>6. CASE StopBegin(f) \/ WorkFails(f) \/ ConnectFails(f)
    <2>1. CoStop(f) /\ UNCHANGED dataVars
      BY <1>6 DEF StopBegin, WorkFails, ConnectFails
    <2>2. f[1] = "send" => Inside(f)
      BY <1>6 DEF StopBegin, WorkFails, ConnectFails, Inside, SendIdle
    <2>3. QED
      BY <2>1, <2>2, CoStopUnmoved
  <1>7. CASE Connected(f)
    <2>1. f[1] = "send" => Inside(f)
      BY <1>3, <1>7 DEF Connected, Chain
    <2>2. CASE CoStop(f) /\ UNCHANGED dataVars
      BY <2>1, <2>2, CoStopUnmoved
    <2>3. CASE Commit(f)
      <3>1. UNCHANGED <<fixed, sent, queue, callbacks, answers, corrupt>> /\ wire' = <<>>
        BY <2>3 DEF Commit
      <3>2. Even
        <4>1. Refused \/ UNCHANGED <<calls, failedWrites>>
          BY <2>3 DEF Commit, Returned
        <4>2. QED
          BY <4>1, BothCount DEF Refused, Requests2
      <3>3. skew' \subseteq {"leftover", "residue", "silent", "flushed"}
        BY <2>3 DEF Commit, StartSkew
      <3>4. \A g \in Fiber : Inside(g)' => Inside(g)
        <4>1. \A g \in Fiber : pc'[g] \in {"posted", "timer", "gone"} \/ pc'[g] = pc[g]
          BY <2>3 DEF Commit, ReturnLoc
        <4>2. QED
          BY <4>1 DEF Inside, SendIdle
      <3>5. QED
        BY <3>1, <3>2, <3>3, <3>4, EmptySeq DEF Unmoved
    <2>4. QED
      BY <1>7, <2>2, <2>3 DEF Connected
  <1>8. QED
    BY <1>4, <1>5, <1>6, <1>7

\* While no send loop outlived its connection, the one at work is alone in the queue, but
\* for one that tries to connect.
LEMMA AloneAtWork ==
  ASSUME Loops, revived = 0, NEW f \in Fiber, f[1] = "send", pc[f] \in Looping,
         NEW g \in Fiber \ {f}, Inside(g)
  PROVE  g[1] = "send" /\ pc[g] \in Chain
  <1>1. g[1] = "send" /\ pc[g] \in Looping \cup Chain
    BY DEF Inside, SendIdle, Loops, SendLocs, Looping
  <1>2. pc[g] \notin Looping
    BY <1>1 DEF Loops, Single
  <1>3. QED
    BY <1>1, <1>2

\* A loop wakes up.
LEMMA SendLoopRequests ==
  ASSUME RqIInv, Loops, Requests2, ~ corrupt, NEW f \in Fiber, SendLoop(f)
  PROVE  Requests2'
  <1>1. /\ pc \in [Fiber -> Loc]
        /\ pc' = [pc EXCEPT ![f] = IF Up THEN Dequeue(queue) ELSE "gone"]
        /\ f[1] = "send" /\ pc[f] \in Looping
        /\ UNCHANGED <<fixed, link, opened, skew, calls, failedWrites, revived, dataVars>>
    BY DEF SendLoop, Goto, RqIInv, Looping
  <1>2. corrupt' = (pc'[f] = "working" /\ \E g \in Fiber \ {f} : AtWork(g))
    BY DEF SendLoop
  <1>3. UNCHANGED <<kind, silent, sent, queue, callbacks, wire, skew, answers, calls,
                    failedWrites>>
    BY <1>1 DEF fixed, dataVars
  <1>4. RequestTypes'
    BY <1>2, <1>3 DEF Requests2, RequestTypes
  <1>5. Busy'
    <2>1. ASSUME NEW g \in Fiber, Inside(g)'
          PROVE  queue # <<>>
      <3>1. CASE g = f
        BY <1>1, <2>1, <3>1 DEF Inside, SendIdle, Dequeue
      <3>2. CASE g # f
        BY <1>1, <2>1, <3>2 DEF Inside, Requests2, Busy
      <3>3. QED
        BY <3>1, <3>2
    <2>2. QED
      BY <1>3, <2>1 DEF Busy
  <1>6. OneInFlight'
    <2>1. ASSUME corrupt', revived = 0 PROVE FALSE
      <3>1. PICK g \in Fiber \ {f} : AtWork(g)
        BY <1>2, <2>1
      <3>2. Inside(g) /\ pc[g] \notin Chain
        BY <3>1 DEF AtWork, Inside, SendIdle, Chain
      <3>3. QED
        BY <1>1, <2>1, <3>2, AloneAtWork
    <2>2. revived \in Nat /\ revived' = revived
      BY <1>1 DEF Loops
    <2>3. QED
      BY <2>1, <2>2 DEF OneInFlight
  <1>7. \A r \in Req \ silent : Balance(r)' = Balance(r)
    BY <1>3 DEF Balance
  <1>8. QED
    BY <1>3, <1>4, <1>5, <1>6, <1>7, BalanceKeeps

\* The front leaves the queue.
LEMMA PoppedFacts ==
  ASSUME RqIInv, Loops, Requests2, ~ corrupt, NEW f \in Fiber, Popped(f),
         f[1] = "send", pc[f] \in {"working", "workOver"}, revived' = revived
  PROVE  /\ queue # <<>> /\ Head(queue) \in Req /\ queue' \in Seq(Req)
         /\ \A r \in Req : Count(queue, r) = Count(queue', r)
                                               + (IF Head(queue) = r THEN 1 ELSE 0)
         /\ Busy' /\ OneInFlight' /\ corrupt' \in BOOLEAN
  <1>1. Inside(f)
    BY DEF Inside, SendIdle
  <1>2. queue # <<>> /\ queue \in Seq(Req)
    BY <1>1 DEF Requests2, Busy, RequestTypes
  <1>3. /\ queue' = Tail(queue)
        /\ pc' = [pc EXCEPT ![f] = Dequeue(queue')] /\ pc \in [Fiber -> Loc]
        /\ corrupt' <=> \E g \in Fiber \ {f} : Inside(g)
    BY DEF Popped, Goto, RqIInv
  <1>4. corrupt' \in BOOLEAN
    BY DEF Popped
  <1>5. Head(queue) \in Req /\ queue' \in Seq(Req)
    BY <1>2, <1>3, HeadTailProperties
  <1>6. \A r \in Req : Count(queue, r) = Count(queue', r) + (IF Head(queue) = r THEN 1 ELSE 0)
    BY <1>2, <1>3, CountTail
  <1>7. Busy'
    <2>1. ASSUME ~ corrupt', NEW g \in Fiber, Inside(g)'
          PROVE  queue' # <<>>
      <3>1. g = f
        BY <1>3, <2>1 DEF Inside
      <3>2. Dequeue(queue') \notin SendIdle
        BY <1>3, <2>1, <3>1 DEF Inside
      <3>3. QED
        BY <3>2 DEF Dequeue, SendIdle
    <2>2. QED
      BY <2>1 DEF Busy
  <1>8. OneInFlight'
    <2>1. ASSUME corrupt', revived = 0
          PROVE  \E g \in Fiber : g[1] = "send" /\ pc'[g] \in Chain
      <3>1. PICK g \in Fiber \ {f} : Inside(g)
        BY <1>3, <2>1
      <3>2. g[1] = "send" /\ pc[g] \in Chain
        BY <2>1, <3>1, AloneAtWork DEF Looping
      <3>3. pc'[g] = pc[g]
        BY <1>3
      <3>4. QED
        BY <3>2, <3>3
    <2>2. revived \in Nat
      BY DEF Loops
    <2>3. QED
      BY <2>1, <2>2 DEF OneInFlight
  <1>9. QED
    BY <1>2, <1>4, <1>5, <1>6, <1>7, <1>8

\* A pipelined request is written, and its callback is queued.
LEMMA WrittenRequests ==
  ASSUME RqIInv, Loops, Requests2, ~ corrupt, NEW f \in Fiber, Written(f)
  PROVE  Requests2'
  <1> DEFINE h == Head(queue)
  <1>1. /\ UNCHANGED <<kind, silent, sent, answers>> /\ revived' = revived
        /\ f[1] = "send" /\ pc[f] \in {"working", "workOver"} /\ Popped(f)
        /\ callbacks' = IF h \in silent THEN callbacks ELSE Append(callbacks, h)
        /\ wire' = Append(wire, h)
        /\ skew' \subseteq skew \cup {"silent"}
    BY DEF Written, HandleFunc, fixed
  <1>2. /\ queue # <<>> /\ h \in Req /\ queue' \in Seq(Req)
        /\ \A r \in Req : Count(queue, r) = Count(queue', r) + (IF h = r THEN 1 ELSE 0)
        /\ Busy' /\ OneInFlight' /\ corrupt' \in BOOLEAN
    BY <1>1, PoppedFacts
  <1>3. Even
    <2>1. \/ Called(Head(queue'))
               /\ failedWrites' = [failedWrites EXCEPT ![Head(queue')] = @ + 1]
          \/ UNCHANGED <<calls, failedWrites>>
      BY DEF Written
    <2>2. QED
      BY <2>1, BothCount DEF Requests2
  <1> HIDE DEF h
  <1>4. wire' \in Seq(Req)
    BY <1>1, <1>2, AppendProperties DEF Requests2, RequestTypes
  <1>5. /\ callbacks' \in Seq(Req \ silent)
        /\ \A r \in Req \ silent :
             Count(callbacks', r) = Count(callbacks, r) + (IF h = r THEN 1 ELSE 0)
    <2>1. callbacks \in Seq(Req \ silent)
      BY DEF Requests2, RequestTypes
    <2>2. CASE h \in silent
      <3>1. callbacks' = callbacks /\ \A r \in Req \ silent : h # r
        BY <1>1, <2>2
      <3>2. \A r \in Req \ silent : Count(callbacks, r) \in Nat
        BY <2>1, CountType
      <3>3. QED
        BY <2>1, <3>1, <3>2
    <2>3. CASE h \notin silent
      BY <1>1, <1>2, <2>1, <2>3, AppendProperties, CountAppend
    <2>4. QED
      BY <2>2, <2>3
  <1>6. RequestTypes'
    BY <1>1, <1>2, <1>3, <1>4, <1>5 DEF Requests2, RequestTypes, Even
  <1>7. ASSUME NEW r \in Req \ silent
        PROVE  Balance(r)' = Balance(r)
    <2>1. /\ Count(queue, r) \in Nat /\ Count(queue', r) \in Nat
          /\ Count(callbacks, r) \in Nat /\ Count(callbacks', r) \in Nat
      BY <1>2, <1>5, CountType DEF Requests2, RequestTypes
    <2>2. /\ calls[r] \in Nat /\ failedWrites[r] \in Nat
          /\ calls'[r] \in Nat /\ failedWrites'[r] \in Nat
      BY <1>3 DEF Requests2, RequestTypes, Even
    <2>3. /\ Count(queue, r) = Count(queue', r) + (IF h = r THEN 1 ELSE 0)
          /\ Count(callbacks', r) = Count(callbacks, r) + (IF h = r THEN 1 ELSE 0)
          /\ calls'[r] - failedWrites'[r] = calls[r] - failedWrites[r]
      BY <1>2, <1>3, <1>5 DEF Even
    <2>4. Balance(r)' = Count(queue', r) + Count(callbacks', r) + calls'[r] - failedWrites'[r]
      BY <1>1 DEF Balance, Count, Places
    <2>5. QED
      BY <2>1, <2>2, <2>3, <2>4 DEF Balance
  <1>8. QED
    BY <1>1, <1>2, <1>6, <1>7, BalanceKeeps

\* An exchange is over: the callback of the front is called.
LEMMA ExchangedRequests ==
  ASSUME RqIInv, Loops, Requests2, ~ corrupt, NEW f \in Fiber, Exchanged(f)
  PROVE  Requests2'
  <1> DEFINE h == Head(queue)
  <1>1. /\ UNCHANGED <<kind, silent, sent, callbacks, wire, skew, failedWrites>>
        /\ revived' = revived
        /\ f[1] = "send" /\ pc[f] \in {"working", "workOver"} /\ Popped(f)
        /\ calls' = [calls EXCEPT ![h] = calls[h] + 1]
        /\ answers' = answers \cup {<<h, h>>}
    BY DEF Exchanged, Called, fixed
  <1>2. /\ queue # <<>> /\ h \in Req /\ queue' \in Seq(Req)
        /\ \A r \in Req : Count(queue, r) = Count(queue', r) + (IF h = r THEN 1 ELSE 0)
        /\ Busy' /\ OneInFlight' /\ corrupt' \in BOOLEAN
    BY <1>1, PoppedFacts
  <1> HIDE DEF h
  <1>3. /\ calls \in [Req -> Nat] /\ failedWrites \in [Req -> Nat]
        /\ calls' \in [Req -> Nat]
        /\ \A r \in Req : calls'[r] = calls[r] + (IF h = r THEN 1 ELSE 0)
    BY <1>1, <1>2 DEF Requests2, RequestTypes
  <1>4. RequestTypes'
    BY <1>1, <1>2, <1>3 DEF Requests2, RequestTypes
  <1>5. ASSUME NEW r \in Req \ silent
        PROVE  Balance(r)' = Balance(r)
    <2>1. /\ Count(queue, r) \in Nat /\ Count(queue', r) \in Nat
          /\ Count(callbacks, r) \in Nat
      BY <1>2, CountType DEF Requests2, RequestTypes
    <2>2. calls[r] \in Nat /\ failedWrites[r] \in Nat
      BY <1>3
    <2>3. /\ Count(queue, r) = Count(queue', r) + (IF h = r THEN 1 ELSE 0)
          /\ calls'[r] = calls[r] + (IF h = r THEN 1 ELSE 0)
      BY <1>2, <1>3
    <2>4. Balance(r)' = Count(queue', r) + Count(callbacks, r) + calls'[r] - failedWrites[r]
      BY <1>1 DEF Balance, Count, Places
    <2>5. QED
      BY <2>1, <2>2, <2>3, <2>4 DEF Balance
  <1>6. QED
    BY <1>1, <1>2, <1>4, <1>5, BalanceKeeps

\* A request is sent.
LEMMA SendRequests ==
  ASSUME RequestsAssumption, RqIInv, Loops, Requests2, ~ corrupt, Send
  PROVE  Requests2'
  <1>1. /\ UNCHANGED <<kind, silent, callbacks, wire, skew, answers, calls, failedWrites,
                       corrupt>>
        /\ sent < MaxReq /\ sent' = sent + 1 /\ queue' = Append(queue, sent + 1)
    BY DEF Send, fixed
  <1>2. sent \in Nat /\ sent' \in 0 .. MaxReq /\ sent + 1 \in Req
    BY <1>1 DEF RequestsAssumption, Requests2, RequestTypes, Req
  <1>3. queue \in Seq(Req) /\ queue' \in Seq(Req) /\ queue' # <<>>
    BY <1>1, <1>2, AppendProperties DEF Requests2, RequestTypes
  <1>4. RequestTypes'
    BY <1>1, <1>2, <1>3 DEF Requests2, RequestTypes
  <1>5. Busy' /\ OneInFlight'
    BY <1>1, <1>3 DEF Busy, OneInFlight
  <1>6. Balanced'
    <2>1. ASSUME NEW r \in Req \ silent
          PROVE  Balance(r)' = IF r <= sent' THEN 1 ELSE 0
      <3>1. Balance(r) = IF r <= sent THEN 1 ELSE 0
        BY DEF Requests2, Balanced
      <3>2. Count(queue', r) = Count(queue, r) + (IF sent + 1 = r THEN 1 ELSE 0)
        <4> DEFINE e == sent + 1
        <4>1. e \in Req /\ queue' = Append(queue, e)
          BY <1>1, <1>2
        <4> HIDE DEF e
        <4>2. Count(queue', r) = Count(queue, r) + (IF e = r THEN 1 ELSE 0)
          BY <1>3, <4>1, CountAppend
        <4>3. QED
          BY <4>2 DEF e
      <3>3. /\ Count(queue, r) \in Nat /\ Count(callbacks, r) \in Nat
            /\ calls[r] \in Nat /\ failedWrites[r] \in Nat /\ r \in Nat
        BY CountType DEF Requests2, RequestTypes, Req
      <3>4. Balance(r)' = Balance(r) + (IF sent + 1 = r THEN 1 ELSE 0)
        BY <1>1, <3>2, <3>3 DEF Balance
      <3>5. QED
        BY <1>1, <1>2, <3>1, <3>3, <3>4
    <2>2. QED
      BY <1>1, <2>1 DEF Balanced
  <1>7. QED
    BY <1>4, <1>5, <1>6 DEF Requests2

\* What a step of the receive loop or of the request timer leaves to show.
LEMMA CallbackSteps ==
  ASSUME RqIInv, Requests2, ~ corrupt,
         UNCHANGED <<fixed, sent, queue, failedWrites, corrupt>>,
         wire' \in Seq(Req), answers' \subseteq Req \X Req,
         skew' \subseteq {"leftover", "residue", "silent", "flushed"},
         callbacks' \in Seq(Req \ silent), calls' \in [Req -> Nat],
         \A r \in Req \ silent : Count(callbacks', r) + calls'[r] = Count(callbacks, r) + calls[r],
         \A g \in Fiber : Inside(g)' => Inside(g)
  PROVE  Requests2'
  <1>1. UNCHANGED <<kind, silent, sent, queue, failedWrites, corrupt>>
    BY DEF fixed
  <1>2. RequestTypes'
    BY <1>1 DEF Requests2, RequestTypes
  <1>3. Busy' /\ OneInFlight'
    BY <1>1 DEF Requests2, Busy, OneInFlight
  <1>4. ASSUME NEW r \in Req \ silent
        PROVE  Balance(r)' = Balance(r)
    <2>1. /\ Count(queue, r) \in Nat /\ Count(callbacks, r) \in Nat
          /\ Count(callbacks', r) \in Nat
      BY CountType DEF Requests2, RequestTypes
    <2>2. calls[r] \in Nat /\ calls'[r] \in Nat /\ failedWrites[r] \in Nat
      BY DEF Requests2, RequestTypes
    <2>3. Balance(r)' = Count(queue, r) + Count(callbacks', r) + calls'[r] - failedWrites[r]
      BY <1>1 DEF Balance, Count, Places
    <2>4. Count(callbacks', r) + calls'[r] = Count(callbacks, r) + calls[r]
      OBVIOUS
    <2>5. Balance(r) = Count(queue, r) + Count(callbacks, r) + calls[r] - failedWrites[r]
      BY DEF Balance
    <2> DEFINE waiting == Count(callbacks, r)  waitingNext == Count(callbacks', r)
               called == calls[r]              calledNext == calls'[r]
               queued == Count(queue, r)       failed == failedWrites[r]
    <2>6. queued + waitingNext + calledNext - failed = queued + waiting + called - failed
      <3>1. /\ queued \in Nat /\ failed \in Nat
            /\ waiting \in Nat /\ waitingNext \in Nat
            /\ called \in Nat /\ calledNext \in Nat
        BY <2>1, <2>2
      <3>2. waitingNext + calledNext = waiting + called
        BY <2>4
      <3> HIDE DEF waiting, waitingNext, called, calledNext, queued, failed
      <3>3. QED
        BY <3>1, <3>2
    <2>7. QED
      BY <2>3, <2>5, <2>6
  <1>5. QED
    BY <1>1, <1>2, <1>3, <1>4, BalanceKeeps

\* The oldest callback is called and leaves the router.
LEMMA HandleFacts ==
  ASSUME RequestTypes, Handle
  PROVE  /\ callbacks' \in Seq(Req \ silent) /\ calls' \in [Req -> Nat]
         /\ \A r \in Req \ silent :
              Count(callbacks', r) + calls'[r] = Count(callbacks, r) + calls[r]
         /\ callbacks # <<>> => Head(callbacks) \in Req \ silent
  <1>1. callbacks \in Seq(Req \ silent) /\ calls \in [Req -> Nat]
    BY DEF RequestTypes
  <1>2. CASE callbacks = <<>>
    BY <1>1, <1>2 DEF Handle
  <1>3. CASE callbacks # <<>>
    <2> DEFINE h == Head(callbacks)
    <2>1. callbacks' = Tail(callbacks) /\ calls' = [calls EXCEPT ![h] = calls[h] + 1]
      BY <1>3 DEF Handle, Called
    <2>2. h \in Req \ silent /\ callbacks' \in Seq(Req \ silent)
      BY <1>1, <1>3, <2>1, HeadTailProperties
    <2>3. \A r \in Req \ silent :
            Count(callbacks, r) = Count(callbacks', r) + (IF h = r THEN 1 ELSE 0)
      BY <1>1, <1>3, <2>1, CountTail
    <2> HIDE DEF h
    <2>4. /\ calls' \in [Req -> Nat]
          /\ \A r \in Req : calls'[r] = calls[r] + (IF h = r THEN 1 ELSE 0)
      BY <1>1, <2>1, <2>2
    <2>5. ASSUME NEW r \in Req \ silent
          PROVE  Count(callbacks', r) + calls'[r] = Count(callbacks, r) + calls[r]
      <3>1. Count(callbacks, r) \in Nat /\ Count(callbacks', r) \in Nat /\ calls[r] \in Nat
        BY <1>1, <2>2, CountType
      <3>2. QED
        BY <2>3, <2>4, <3>1
    <2>6. QED
      BY <2>2, <2>4, <2>5 DEF h
  <1>4. QED
    BY <1>2, <1>3

\* A response, or the end of a receive loop, takes a callback out of the router and calls
\* it; the timeout takes them all.
LEMMA CallbackRequests ==
  ASSUME RqIInv, Requests2, ~ corrupt, NEW f \in Fiber,
         Response(f) \/ ReadFails(f) \/ TimerRuns(f)
  PROVE  Requests2'
  <1>1. UNCHANGED <<fixed, sent, queue, failedWrites, corrupt>>
    BY DEF Response, ReadFails, TimerRuns
  <1>2. pc \in [Fiber -> Loc] /\ f[1] # "send"
    BY DEF Response, ReadFails, TimerRuns, RqIInv
  <1>3. \A g \in Fiber : Inside(g)' => Inside(g)
    <2>1. \A g \in Fiber : g # f => pc'[g] = pc[g] \/ pc'[g] = Over(pc[g])
      BY <1>2 DEF Response, ReadFails, TimerRuns, Goto
    <2>2. \A l \in Loc : Over(l) \notin SendIdle => l \notin SendIdle
      BY DEF Over, Aborted, SendIdle
    <2>3. QED
      BY <1>2, <2>1, <2>2 DEF Inside
  <1>4. RequestTypes
    BY DEF Requests2
  <1>5. CASE Response(f)
    <2>1. Handle /\ wire # <<>> /\ wire' = Tail(wire) /\ skew' \subseteq skew \cup {"residue"}
          /\ answers' = IF callbacks = <<>> THEN answers
                        ELSE answers \cup {<<Head(callbacks), Head(wire)>>}
      BY <1>5 DEF Response, LeftInBuffer
    <2>2. wire' \in Seq(Req) /\ Head(wire) \in Req
      BY <1>4, <2>1, HeadTailProperties DEF RequestTypes
    <2>3. answers' \subseteq Req \X Req
      <3>1. answers \subseteq Req \X Req
        BY <1>4 DEF RequestTypes
      <3>2. callbacks # <<>> => Head(callbacks) \in Req
        BY <1>4, <2>1, HandleFacts
      <3>3. QED
        BY <2>1, <2>2, <3>1, <3>2
    <2>4. skew' \subseteq {"leftover", "residue", "silent", "flushed"}
      BY <1>4, <2>1 DEF RequestTypes
    <2>5. QED
      BY <1>1, <1>3, <1>4, <2>1, <2>2, <2>3, <2>4, HandleFacts, CallbackSteps
  <1>6. CASE ReadFails(f)
    <2>1. Handle /\ wire' = wire /\ answers' = answers /\ skew' \subseteq skew \cup {"residue"}
      BY <1>6 DEF ReadFails
    <2>2. /\ wire' \in Seq(Req) /\ answers' \subseteq Req \X Req
          /\ skew' \subseteq {"leftover", "residue", "silent", "flushed"}
      BY <1>4, <2>1 DEF RequestTypes
    <2>3. QED
      BY <1>1, <1>3, <1>4, <2>1, <2>2, HandleFacts, CallbackSteps
  <1>7. CASE TimerRuns(f)
    <2>1. wire' = wire /\ answers' = answers /\ skew' \subseteq skew \cup {"flushed"}
      BY <1>7 DEF TimerRuns
    <2>2. /\ wire' \in Seq(Req) /\ answers' \subseteq Req \X Req
          /\ skew' \subseteq {"leftover", "residue", "silent", "flushed"}
      BY <1>4, <2>1 DEF RequestTypes
    <2>3. /\ callbacks' \in Seq(Req \ silent) /\ calls' \in [Req -> Nat]
          /\ \A r \in Req \ silent :
               Count(callbacks', r) + calls'[r] = Count(callbacks, r) + calls[r]
      <3>1. callbacks \in Seq(Req \ silent) /\ calls \in [Req -> Nat]
        BY <1>4 DEF RequestTypes
      <3>2. CASE callbacks = <<>>
        BY <1>7, <3>1, <3>2 DEF TimerRuns
      <3>3. CASE callbacks # <<>>
        <4>1. callbacks' = <<>> /\ calls' = [r \in Req |-> calls[r] + Count(callbacks, r)]
          BY <1>7, <3>3 DEF TimerRuns, Count, Places
        <4>2. \A r \in Req : Count(callbacks, r) \in Nat /\ Count(callbacks', r) = 0
          BY <3>1, <4>1, CountType, CountEmpty
        <4>3. \A r \in Req : calls'[r] = calls[r] + Count(callbacks, r) /\ calls[r] \in Nat
          BY <3>1, <4>1
        <4>4. calls' \in [Req -> Nat]
          BY <3>1, <4>1, <4>2
        <4>5. callbacks' \in Seq(Req \ silent)
          BY <4>1, EmptySeq
        <4>6. QED
          BY <4>2, <4>3, <4>4, <4>5
      <3>4. QED
        BY <3>2, <3>3
    <2>4. QED
      BY <1>1, <1>3, <2>2, <2>3, CallbackSteps
  <1>8. QED
    BY <1>5, <1>6, <1>7

\* The requests are kept.
LEMMA NextRequests ==
  ASSUME RequestsAssumption, RqIInv, Loops, Requests2, [RqNext]_rqVars
  PROVE  Requests2'
  <1>1. CASE RqNext
    <2>1. ~ corrupt
      BY <1>1 DEF RqNext
    <2>2. CASE Send
      BY <2>1, <2>2, SendRequests
    <2>3. ASSUME NEW f \in Fiber,
                 Run(f) \/ Work(f) \/ Read(f) \/ Connect(f)
                   \/ SleepEnds(f) \/ PostStop(f) \/ TimerFires(f)
          PROVE  Requests2'
      BY <2>1, <2>3, UnmovedSteps, UnmovedKeeps, SendLoopRequests, WrittenRequests,
         ExchangedRequests, CallbackRequests DEF Run, Work, Read, Connect
    <2>4. QED
      BY <1>1, <2>2, <2>3 DEF RqNext
  <1>2. CASE UNCHANGED rqVars
    <2>1. RequestTypes' /\ Busy' /\ OneInFlight'
      BY <1>2 DEF rqVars, Requests2, RequestTypes, Busy, Inside, OneInFlight
    <2>2. Balanced'
      BY <1>2 DEF rqVars, Requests2, Balanced, Balance
    <2>3. QED
      BY <2>1, <2>2 DEF Requests2
  <1>3. QED
    BY <1>1, <1>2

\* The three parts of the invariant hold of every state.
LEMMA Invariance == RqSpec => [](RqIInv /\ Loops /\ Requests2)
  <1> DEFINE I == RqIInv /\ Loops /\ Requests2
  <1>1. RqInit => I
    BY InitIInv, InitLoops, InitRequests, RequestsAssumption
  <1>2. I /\ [RqNext]_rqVars => I'
    BY NextIInv, NextLoops, NextRequests, RequestsAssumption
  <1> HIDE DEF I
  <1>3. RqSpec => []I
    BY <1>1, <1>2, PTL DEF RqSpec
  <1>4. QED
    BY <1>3 DEF I

\* Types: among them, that a request is at the front of the queue whenever a write or an
\* exchange ends, and that the callbacks queued are those of requests that have one.
THEOREM TypeCorrect == RqSpec => []RqTypeOK
  <1>1. RqIInv /\ Loops /\ Requests2 => RqTypeOK
    BY DEF RqIInv, Loops, Requests2, RequestTypes, RqTypeOK
  <1>2. QED
    BY <1>1, Invariance, PTL

\* No request is forgotten and no callback is called twice, through any number of
\* failures, flushes, stops and reconnects.
THEOREM RequestsAreAccounted == RqSpec => []Accounted
  <1>1. RqIInv /\ Loops /\ Requests2 => Accounted
    <2> SUFFICES ASSUME RqIInv, Loops, Requests2, ~ corrupt, NEW r \in (1 .. sent) \ silent
                 PROVE  /\ Cardinality({i \in DOMAIN queue : queue[i] = r})
                             + Cardinality({i \in DOMAIN callbacks : callbacks[i] = r})
                             + calls[r] - failedWrites[r] = 1
      BY DEF Accounted
    <2>1. r \in Req \ silent /\ r <= sent
      BY RequestsAssumption DEF Requests2, RequestTypes, Req
    <2>2. QED
      BY <2>1 DEF Requests2, Balanced, Balance, Count, Places
  <1>2. QED
    BY <1>1, Invariance, PTL

\* Two loops meet in the queue of coroutines only when one of them made a reconnect
\* itself, or is still at it.
THEOREM OneCoroutineAtATime == RqSpec => []OneInFlight
  <1>1. RqIInv /\ Loops /\ Requests2 => OneInFlight
    BY DEF Requests2
  <1>2. QED
    BY <1>1, Invariance, PTL
-----------------------------------------------------------------------------
(***************************************************************************)
(* A connection that is up is served.                                      *)
(***************************************************************************)
Awake == {"posted", "working"}

\* While the session is up its send_t and, for http, its recv_t are at work, and a
\* request in the queue has a loop that runs it or is about to look.
Attended ==
  link = "up" =>
    /\ opened \in Conn
    /\ pc[<<"send", opened>>] \in Awake \cup {"timer"}
    /\ kind = "pipeline" => pc[<<"recv", opened>>] \in {"posted", "reading"}
    /\ queue # <<>> => \E g \in Fiber : g[1] = "send" /\ pc[g] \in Awake

\* One fiber moves on: not a loop of the session, or a loop that stays on it.
LEMMA AttendedMoves ==
  ASSUME RqIInv, Attended, NEW f \in Fiber, NEW l, Goto(f, l), link = "up",
         UNCHANGED <<kind, link, opened>>,
         f[1] = "send" => \/ pc[f] \in Chain
                          \/ l = (IF queue' # <<>> THEN "working" ELSE "timer"),
         f[1] = "recv" => pc[f] \in Chain \/ l \in {"posted", "reading"},
         f[1] # "send" \/ pc[f] \in Chain => queue' = queue,
         queue' # <<>> => queue # <<>>
  PROVE  Attended'
  <1> DEFINE sender == <<"send", opened>>
             receiver == <<"recv", opened>>
  <1>1. /\ opened \in Conn /\ sender \in Fiber /\ receiver \in Fiber
        /\ pc \in [Fiber -> Loc]
    BY DEF Attended, Fiber, Conn, RqIInv
  <1>2. \A g \in Fiber : pc'[g] = IF g = f THEN l ELSE pc[g]
    BY <1>1 DEF Goto
  <1>3. pc'[sender] \in Awake \cup {"timer"}
    BY <1>1, <1>2 DEF Attended, Awake, Chain
  <1>4. kind = "pipeline" => pc'[receiver] \in {"posted", "reading"}
    BY <1>1, <1>2 DEF Attended, Chain
  <1>5. ASSUME queue' # <<>>
        PROVE  \E g \in Fiber : g[1] = "send" /\ pc'[g] \in Awake
    <2>1. PICK g \in Fiber : g[1] = "send" /\ pc[g] \in Awake
      BY <1>5 DEF Attended
    <2>2. pc'[g] \in Awake
      BY <1>2, <1>5, <2>1 DEF Awake, Chain
    <2>3. QED
      BY <2>1, <2>2
  <1>6. QED
    BY <1>1, <1>3, <1>4, <1>5 DEF Attended

\* A send wakes a loop that waits, or none does and the newest is awake.
LEMMA AttendedSend ==
  ASSUME RqIInv, Loops, Attended, Send
  PROVE  Attended'
  <1> SUFFICES ASSUME link = "up" PROVE Attended'
    BY DEF Send, Attended
  <1> DEFINE sender == <<"send", opened>>
             receiver == <<"recv", opened>>
  <1>1. /\ opened \in Conn /\ sender \in Fiber /\ receiver \in Fiber
        /\ pc \in [Fiber -> Loc] /\ UNCHANGED <<kind, link, opened>>
    BY DEF Attended, Fiber, Conn, RqIInv, Send, fixed
  <1>2. PICK p \in Woken :
          pc' = IF kind = "pipeline" /\ sent' \notin silent THEN Rearm(p, sent') ELSE p
    BY DEF Send
  <1>3. \A g \in Fiber : g[1] # "timeout" => pc'[g] = p[g]
    BY <1>2 DEF Rearm
  <1> DEFINE Roused == /\ p[sender] \in Awake \cup {"timer"}
                       /\ p[receiver] = pc[receiver]
                       /\ \E g \in Fiber : g[1] = "send" /\ p[g] \in Awake
  <1>4. Roused
    <2>1. CASE p = pc /\ \A g \in Fiber : pc[g] # "timer"
      BY <1>1, <2>1 DEF Attended
    <2>2. ASSUME NEW g \in Fiber, pc[g] = "timer", p = [pc EXCEPT ![g] = "posted"]
          PROVE  Roused
      <3>1. g[1] = "send" /\ g # receiver
        BY <2>2 DEF Loops, SendLocs
      <3>2. QED
        BY <1>1, <2>2, <3>1 DEF Attended, Awake
    <2>3. QED
      BY <2>1, <2>2 DEF Woken
  <1>5. QED
    BY <1>1, <1>3, <1>4 DEF Attended, Awake

LEMMA NextAttended ==
  ASSUME RequestsAssumption, RqIInv, Loops, Requests2, Attended, [RqNext]_rqVars
  PROVE  Attended'
  <1>1. pc \in [Fiber -> Loc]
    BY DEF RqIInv
  <1>2. CASE link' # "up"
    BY <1>2 DEF Attended
  <1>3. CASE UNCHANGED rqVars
    BY <1>3 DEF rqVars, Attended
  <1>4. CASE Send
    BY <1>4, AttendedSend
  <1>5. ASSUME NEW f \in Fiber, CoStop(f), link' = "up"
        PROVE  FALSE
    BY <1>5 DEF CoStop, Teardown
  <1>6. ASSUME NEW f \in Fiber, Commit(f)
        PROVE  Attended'
    <2>1. opened + 1 \in Conn /\ opened' = opened + 1 /\ kind' = kind
      BY <1>6 DEF Commit, Loops, Conn, RequestsAssumption, fixed
    <2>2. <<"send", opened + 1>> \in Fiber /\ <<"recv", opened + 1>> \in Fiber
      BY <2>1 DEF Fiber
    <2>3. /\ pc'[<<"send", opened + 1>>] = "posted"
          /\ kind = "pipeline" => pc'[<<"recv", opened + 1>>] = "posted"
      BY <1>6, <2>2 DEF Commit, Spawned
    <2>4. QED
      BY <2>1, <2>2, <2>3 DEF Attended, Awake
  <1>7. ASSUME NEW f \in Fiber, link' = "up",
               SendLoop(f) \/ Written(f) \/ Exchanged(f)
        PROVE  Attended'
    <2>1. /\ link = "up" /\ UNCHANGED <<kind, link, opened>> /\ f[1] = "send"
          /\ Goto(f, IF queue' # <<>> THEN "working" ELSE "timer")
          /\ pc[f] \notin Chain
      BY <1>7 DEF SendLoop, Written, Exchanged, Popped, Dequeue, Up, dataVars, fixed, Chain
    <2>2. queue' # <<>> => queue # <<>>
      <3>1. CASE SendLoop(f)
        BY <3>1 DEF SendLoop, dataVars
      <3>2. CASE Written(f) \/ Exchanged(f)
        <4>1. queue' = Tail(queue)
          BY <3>2 DEF Written, Exchanged, Popped
        <4>2. QED
          BY <4>1, EmptySeq DEF Requests2, RequestTypes
      <3>3. QED
        BY <1>7, <3>1, <3>2
    <2>3. QED
      BY <2>1, <2>2, AttendedMoves
  <1>8. ASSUME NEW f \in Fiber, link' = "up",
               RecvLoop(f) \/ Response(f) \/ TimerFires(f) \/ TimerRuns(f) \/ PostStop(f)
                 \/ Resolved(f)
        PROVE  Attended'
    <2>1. /\ link = "up" /\ UNCHANGED <<kind, link, opened, queue>>
          /\ f[1] = "send" => pc[f] \in Chain
      BY <1>8 DEF RecvLoop, Response, TimerFires, TimerRuns, PostStop, Resolved, fixed,
                  dataVars, Chain
    <2>2. PICK l \in {"reading", "fired", "gone", "posted", "connecting"} :
            Goto(f, l) /\ (f[1] = "recv" => pc[f] \in Chain \/ l = "reading")
      BY <1>8, <2>1 DEF RecvLoop, Response, TimerFires, TimerRuns, PostStop, Resolved, Up,
                        Chain
    <2>3. QED
      BY <2>1, <2>2, AttendedMoves
  <1>9. ASSUME NEW f \in Fiber, link' = "up",
               StopBegin(f) \/ WorkFails(f) \/ ReadFails(f) \/ ConnectFails(f) \/ SleepEnds(f)
        PROVE  FALSE
    BY <1>5, <1>9 DEF StopBegin, WorkFails, ReadFails, ConnectFails, SleepEnds
  <1>10. QED
    <2>1. ASSUME NEW f \in Fiber, Connected(f), link' = "up" PROVE Attended'
      BY <1>5, <1>6, <2>1 DEF Connected
    <2>2. QED
      BY <1>2, <1>3, <1>4, <1>7, <1>8, <1>9, <2>1 DEF RqNext, Run, Work, Read, Connect

\* No request is left to loops that sleep and no connection without its reader, over any
\* number of reconnects: what is queued on a session that is up is run, and responses
\* find a recv_t.
THEOREM ConnectionsAreServed == RqSpec => []Attended
  <1>1. RqInit => Attended
    BY DEF RqInit, Attended
  <1>2. RqIInv /\ Loops /\ Requests2 /\ Attended /\ [RqNext]_rqVars => Attended'
    BY NextAttended, RequestsAssumption
  <1>3. QED
    BY <1>1, <1>2, Invariance, PTL DEF RqSpec
=============================================================================
