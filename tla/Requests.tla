------------------------------- MODULE Requests -------------------------------
(***************************************************************************)
(* The requests of a tcp client session (bnet/base/transfer.hpp): which    *)
(* response reaches which callback, through the queue of coroutines        *)
(* (normal_queue, bnet/base/queue.hpp), a timeout, a stop and a reconnect. *)
(*                                                                         *)
(* A transfer is of one of two kinds; Init chooses.                        *)
(*   "pipeline"  http: a request is written, its callback is queued in the *)
(*               cli_router, and recv_t gives every response to the oldest *)
(*               callback. One timer for all requests.                     *)
(*   "exchange"  rpc and txt: one coroutine writes the request, reads its  *)
(*               response, under a timeout of its own, and calls the       *)
(*               callback. Nothing that was read before is left for it:    *)
(*               rpc reads the socket directly, txt empties its buffer.    *)
(* http with BNET_HTTP_NOPIPELINE is neither and is not modelled.          *)
(*                                                                         *)
(* The fibers run on the thread of the session's io_context, each step     *)
(* from one suspension to the next. Module CliSession has the life of the  *)
(* session in full; here the reconnect chain is what it does to requests:  *)
(* it may give up at any attempt, which stands for retry_num.              *)
(*                                                                         *)
(* The peer answers the requests of a connection in order, and a request   *)
(* only when it was written whole; the io_context then runs the completion *)
(* of the write first.                                                     *)
(***************************************************************************)
EXTENDS Integers, Sequences, FiniteSets

CONSTANTS
  Kinds,         \* the kinds of transfer looked at
  IsReconn,      \* cli_cfg::is_reconn
  SilentSets,    \* which requests may be sent with send(data), without a callback
  PlainStop,     \* the calls of stop()
  MaxReq,        \* bound on the requests
  MaxConn        \* bound on the connections made

ASSUME RequestsAssumption ==
  /\ Kinds \subseteq {"pipeline", "exchange"}
  /\ IsReconn \in BOOLEAN
  /\ MaxReq \in Nat /\ MaxConn \in Nat
  /\ SilentSets \subseteq SUBSET (1 .. MaxReq)

VARIABLES
  kind,          \* the kind of this transfer
  silent,        \* the requests that take no callback
  link,          \* "down", "starting" or "up": the session's state_
  pc,            \* where each fiber is
  opened,        \* connections made
  sent,          \* requests sent; they are numbered as they are sent
  queue,         \* normal_queue::queue_
  callbacks,     \* http_cli_router::handle_func_queue_, the oldest first
  wire,          \* requests written on this connection and not answered
  skew,          \* why responses may not meet their callbacks on this connection
  answers,       \* <<c, r>>: the callback of c was given the response to r
  calls,         \* how often the callback of each request was called
  failedWrites,  \* how often the write of each request failed
  revived,       \* send loops that went on after a reconnect they made themselves
  corrupt        \* a coroutine of the queue ran twice at a time, or was destroyed
                 \* while it ran

rqVars == <<kind, silent, link, pc, opened, sent, queue, callbacks, wire, skew, answers,
            calls, failedWrites, revived, corrupt>>
fixed == <<kind, silent>>
dataVars == <<sent, queue, callbacks, wire, answers>>

Req == 1 .. MaxReq
Conn == 1 .. MaxConn

\* co_start, a send_t and a recv_t per connection, the wait of the request timer
\* that the send of a request began, and the calls of stop.
Fiber == {<<"start", 0>>} \cup ({"send", "recv"} \X Conn) \cup ({"timeout"} \X Req)
           \cup ({"stop"} \X PlainStop)

\* "posted" fibers are ready to run, "...Over" ones have a completion to run: the
\* socket was closed under their operation, aborted or done just before.
Ready == {"posted", "workOver", "readOver", "connectOver", "fired"}
Chain == {"sleep", "resolving", "connecting", "connectOver"}
Loc == {"idle", "timer", "working", "reading", "armed", "gone"} \cup Ready \cup Chain

SendIdle == {"idle", "posted", "timer", "gone"}

\* What transfer_stop and the close of the socket make of a wait: normal_queue's
\* timer and the request timer are cancelled, operations on the socket abort.
Aborted == [timer |-> "posted", armed |-> "gone", working |-> "workOver",
            reading |-> "readOver", connecting |-> "connectOver"]
Over(loc) == IF loc \in DOMAIN Aborted THEN Aborted[loc] ELSE loc

RqInit ==
  /\ kind \in Kinds
  /\ silent \in IF kind = "pipeline" THEN SilentSets ELSE {{}}
  /\ link = "starting"
  /\ pc = [f \in Fiber |-> IF f = <<"start", 0>> THEN "resolving" ELSE "idle"]
  /\ opened = 0 /\ sent = 0
  /\ queue = <<>> /\ callbacks = <<>> /\ wire = <<>>
  /\ skew = {} /\ answers = {}
  /\ calls = [r \in Req |-> 0] /\ failedWrites = [r \in Req |-> 0]
  /\ revived = 0 /\ corrupt = FALSE

Goto(f, loc) == pc' = [pc EXCEPT ![f] = loc]

Up == link = "up"
Called(r) == calls' = [calls EXCEPT ![r] = @ + 1]

-----------------------------------------------------------------------------
(***************************************************************************)
(* co_stop, co_reconnect and co_start                                      *)
(***************************************************************************)

\* The write of the front ended with an error, and so does the run of its coroutine:
\* http calls the callback with the error. The request stays in the queue.
Refused ==
  IF kind = "pipeline" /\ Head(queue) \notin silent
  THEN /\ Called(Head(queue))
       /\ failedWrites' = [failedWrites EXCEPT ![Head(queue)] = @ + 1]
  ELSE UNCHANGED <<calls, failedWrites>>

\* f's call of co_stop, and of the chain in it, has returned. A send loop ends the
\* failed run of the front and goes on in dequeue: it waits when transfer_start has
\* run in the meantime.
ReturnLoc(f, up) == IF f[1] = "send" /\ up THEN "timer" ELSE "gone"
Returned(f) == IF f[1] = "send" THEN Refused ELSE UNCHANGED <<calls, failedWrites>>

\* The session goes down and f reconnects, or does not: no error, is_reconn unset or
\* no retry left.
Teardown(f, retries) ==
  /\ link # "down"
  /\ retries => IsReconn /\ f[1] # "stop"
  /\ link' = "down"
  /\ pc' = [g \in Fiber |->
              IF g = f THEN (IF retries THEN "sleep" ELSE ReturnLoc(f, FALSE))
              ELSE Over(pc[g])]
  /\ IF retries THEN UNCHANGED <<calls, failedWrites>> ELSE Returned(f)
  /\ UNCHANGED <<fixed, opened, skew, revived, corrupt>>

CoStop(f) ==
  \/ \E retries \in BOOLEAN : Teardown(f, retries)
  \/ /\ link = "down"
     /\ Goto(f, ReturnLoc(f, FALSE))
     /\ Returned(f)
     /\ UNCHANGED <<fixed, link, opened, skew, revived, corrupt>>

\* reconn_interval has passed; what was ready when the wait began has run. Nobody else
\* can have started the session: whoever takes it down sleeps first.
SleepEnds(f) ==
  /\ pc[f] = "sleep"
  /\ \A g \in Fiber : pc[g] \notin Ready
  /\ link' = "starting"
  /\ Goto(f, "resolving")
  /\ UNCHANGED <<fixed, opened, skew, calls, failedWrites, revived, corrupt, dataVars>>

\* What transfer_start finds: nothing clears the router nor rbuff_ between two
\* connections.
StartSkew ==
  skew' = (skew \cap {"residue"}) \cup (IF callbacks = <<>> THEN {} ELSE {"leftover"})

\* The resolver answers, whatever became of the session meanwhile.
Resolved(f) ==
  /\ pc[f] = "resolving"
  /\ Goto(f, "connecting")
  /\ UNCHANGED <<fixed, link, opened, skew, calls, failedWrites, revived, corrupt, dataVars>>

Spawned == {<<"send", opened + 1>>}
             \cup (IF kind = "pipeline" THEN {<<"recv", opened + 1>>} ELSE {})

\* The connection is made: transfer_start spawns the loops, and the chain returns.
Commit(f) ==
  /\ link = "starting"
  /\ opened < MaxConn
  /\ link' = "up"
  /\ opened' = opened + 1
  /\ wire' = <<>>
  /\ StartSkew
  /\ revived' = revived + (IF f[1] = "send" THEN 1 ELSE 0)
  /\ pc' = [g \in Fiber |-> IF g \in Spawned THEN "posted"
                            ELSE IF g = f THEN ReturnLoc(f, TRUE) ELSE pc[g]]
  /\ Returned(f)
  /\ UNCHANGED <<fixed, sent, queue, callbacks, answers, corrupt>>

Connected(f) ==
  /\ pc[f] \in {"connecting", "connectOver"}
  /\ \/ Commit(f)
     \/ link # "starting" /\ CoStop(f) /\ UNCHANGED dataVars

ConnectFails(f) ==
  /\ pc[f] \in {"resolving", "connecting", "connectOver"}
  /\ CoStop(f)
  /\ UNCHANGED dataVars

PostStop(f) ==
  /\ f[1] = "stop"
  /\ pc[f] = "idle"
  /\ opened > 0
  /\ Goto(f, "posted")
  /\ UNCHANGED <<fixed, link, opened, skew, calls, failedWrites, revived, corrupt, dataVars>>

\* The posted stop of the application, or of the request timer.
StopBegin(f) ==
  /\ f[1] \in {"stop", "timeout"}
  /\ pc[f] = "posted"
  /\ CoStop(f)
  /\ UNCHANGED dataVars

-----------------------------------------------------------------------------
(***************************************************************************)
(* normal_queue and send_t                                                 *)
(***************************************************************************)

\* Mutant: enqueue wakes nobody.
WokenNobody == {pc}
\* cancel_one: one of the waiting loops is woken.
Woken ==
  LET waiting == {f \in Fiber : pc[f] = "timer"}
  IN IF waiting = {} THEN {pc} ELSE {[pc EXCEPT ![f] = "posted"] : f \in waiting}

\* The one request timer is set anew: the wait in progress is aborted, not a handler
\* that is already on its way.
Rearm(p, r) ==
  [f \in Fiber |-> IF f = <<"timeout", r>> THEN "armed"
                   ELSE IF f[1] = "timeout" /\ p[f] = "armed" THEN "gone" ELSE p[f]]

\* send or request, on the session's thread. It asks nothing of the connection.
Send ==
  /\ opened > 0
  /\ sent < MaxReq
  /\ sent' = sent + 1
  /\ queue' = Append(queue, sent')
  /\ \E p \in Woken :
       pc' = IF kind = "pipeline" /\ sent' \notin silent THEN Rearm(p, sent') ELSE p
  /\ UNCHANGED <<fixed, link, opened, callbacks, wire, skew, answers, calls,
                 failedWrites, revived, corrupt>>

\* Mutant: dequeue does not ask is_canceled before it waits.
DequeueNoCancel(q) == IF q # <<>> /\ Up THEN "working" ELSE "timer"
\* Where dequeue suspends. A coroutine run while the session is down fails at once.
Dequeue(q) == IF q # <<>> /\ Up THEN "working" ELSE IF Up THEN "timer" ELSE "gone"

\* Send loops inside the coroutine at the front, which may host the reconnect.
Inside(f) == f[1] = "send" /\ pc[f] \notin SendIdle
AtWork(f) == f[1] = "send" /\ pc[f] \in {"working", "workOver"}

SendLoop(f) ==
  /\ f[1] = "send"
  /\ pc[f] = "posted"
  /\ Goto(f, IF Up THEN Dequeue(queue) ELSE "gone")
  /\ corrupt' = (pc'[f] = "working" /\ \E g \in Fiber \ {f} : AtWork(g))
  /\ UNCHANGED <<fixed, link, opened, skew, calls, failedWrites, revived, dataVars>>

\* The front ran to its end: it is popped, and the next one runs. Its coroutine dies
\* with it, whoever is in it.
Popped(f) ==
  /\ queue' = Tail(queue)
  /\ Goto(f, Dequeue(queue'))
  /\ corrupt' = \E g \in Fiber \ {f} : Inside(g)

\* Mutant: the callback is dropped when the session went down under the write.
HandleFuncDown(r) ==
  callbacks' = IF r \in silent \/ ~ Up THEN callbacks ELSE Append(callbacks, r)
\* Mutant: handle_func pushes at the end handle takes from.
HandleFuncFront(r) == callbacks' = IF r \in silent THEN callbacks ELSE <<r>> \o callbacks
\* Mutant: a request without a callback queues an empty one.
HandleFuncEmpty(r) == callbacks' = Append(callbacks, r)
\* http_cli_router::handle_func.
HandleFunc(r) == callbacks' = IF r \in silent THEN callbacks ELSE Append(callbacks, r)

\* http: the write is done, the callback is queued. When the session went down just
\* then, the next request of the queue is refused.
Written(f) ==
  /\ kind = "pipeline"
  /\ f[1] = "send" /\ pc[f] \in {"working", "workOver"}
  /\ HandleFunc(Head(queue))
  /\ wire' = Append(wire, Head(queue))
  /\ skew' = IF Head(queue) \in silent THEN skew \cup {"silent"} ELSE skew
  /\ Popped(f)
  /\ LET next == Head(queue') IN
     IF queue' # <<>> /\ ~ Up /\ next \notin silent
     THEN /\ Called(next)
          /\ failedWrites' = [failedWrites EXCEPT ![next] = @ + 1]
     ELSE UNCHANGED <<calls, failedWrites>>
  /\ UNCHANGED <<fixed, link, opened, sent, answers, revived>>

\* The others: the response has been read, the callback is called.
Exchanged(f) ==
  /\ kind = "exchange"
  /\ f[1] = "send" /\ pc[f] \in {"working", "workOver"}
  /\ Called(Head(queue))
  /\ answers' = answers \cup {<<Head(queue), Head(queue)>>}
  /\ Popped(f)
  /\ UNCHANGED <<fixed, link, opened, sent, callbacks, wire, skew, failedWrites, revived>>

\* The write failed or, in an exchange, the read, or its timeout passed.
WorkFails(f) ==
  /\ f[1] = "send" /\ pc[f] \in {"working", "workOver"}
  /\ CoStop(f)
  /\ UNCHANGED dataVars

-----------------------------------------------------------------------------
(***************************************************************************)
(* recv_t of the http client, and the request timer                        *)
(***************************************************************************)
RecvLoop(f) ==
  /\ f[1] = "recv"
  /\ pc[f] = "posted"
  /\ Goto(f, IF Up THEN "reading" ELSE "gone")
  /\ UNCHANGED <<fixed, link, opened, skew, calls, failedWrites, revived, corrupt, dataVars>>

\* http_cli_router::handle: the oldest callback is called and popped.
Handle ==
  IF callbacks = <<>> THEN UNCHANGED <<callbacks, calls>>
  ELSE Called(Head(callbacks)) /\ callbacks' = Tail(callbacks)

\* recv_t leaves after a response, for the session went down under it: what rbuff_ holds
\* of the responses behind it stays there.
LeftInBuffer ==
  \/ UNCHANGED skew
  \/ ~ Up /\ wire' # <<>> /\ skew' = skew \cup {"residue"}

\* A response has been read. One that finds no callback is dropped.
Response(f) ==
  /\ f[1] = "recv" /\ pc[f] \in {"reading", "readOver"}
  /\ wire # <<>>
  /\ Handle
  /\ answers' = IF callbacks = <<>> THEN answers
                ELSE answers \cup {<<Head(callbacks), Head(wire)>>}
  /\ wire' = Tail(wire)
  /\ Goto(f, IF Up THEN "reading" ELSE "gone")
  /\ LeftInBuffer
  /\ UNCHANGED <<fixed, link, opened, sent, queue, failedWrites, revived, corrupt>>

\* The read fails: the oldest callback gets the error, the others stay, and so may
\* a part of the response it was waiting for, in rbuff_.
ReadFails(f) ==
  /\ f[1] = "recv" /\ pc[f] \in {"reading", "readOver"}
  /\ \/ \E retries \in BOOLEAN :
          /\ link # "down"
          /\ retries => IsReconn
          /\ link' = "down"
          /\ pc' = [g \in Fiber |-> IF g = f THEN (IF retries THEN "sleep" ELSE "gone")
                                    ELSE Over(pc[g])]
     \/ link = "down" /\ Goto(f, "gone") /\ UNCHANGED link
  /\ Handle
  /\ \/ UNCHANGED skew
     \/ wire # <<>> /\ skew' = skew \cup {"residue"}
  /\ UNCHANGED <<fixed, opened, sent, queue, wire, answers, failedWrites, revived, corrupt>>

TimerFires(f) ==
  /\ f[1] = "timeout"
  /\ pc[f] = "armed"
  /\ Goto(f, "fired")
  /\ UNCHANGED <<fixed, link, opened, skew, calls, failedWrites, revived, corrupt, dataVars>>

\* handle_all: every callback gets the timeout, and a stop is posted. When none waits,
\* the timer has run for nothing: the request may still be in the queue.
TimerRuns(f) ==
  /\ f[1] = "timeout"
  /\ pc[f] = "fired"
  /\ IF callbacks = <<>>
     THEN Goto(f, "gone") /\ UNCHANGED <<callbacks, calls, skew>>
     ELSE /\ Goto(f, "posted")
          /\ callbacks' = <<>>
          /\ calls' = [r \in Req |-> calls[r] + Cardinality({i \in DOMAIN callbacks :
                                                               callbacks[i] = r})]
          /\ skew' = skew \cup {"flushed"}
  /\ UNCHANGED <<fixed, link, opened, sent, queue, wire, answers, failedWrites, revived,
                 corrupt>>

-----------------------------------------------------------------------------
\* The step of a fiber that is ready to run.
Run(f) == StopBegin(f) \/ SendLoop(f) \/ RecvLoop(f) \/ TimerRuns(f)
Work(f) == Written(f) \/ Exchanged(f) \/ WorkFails(f)
Read(f) == Response(f) \/ ReadFails(f)
Connect(f) == Resolved(f) \/ Connected(f) \/ ConnectFails(f)

RqNext ==
  /\ ~ corrupt
  /\ \/ Send
     \/ \E f \in Fiber : Run(f) \/ Work(f) \/ Read(f) \/ Connect(f)
                         \/ SleepEnds(f) \/ PostStop(f) \/ TimerFires(f)

(***************************************************************************)
(* The io_context runs what is ready; timers and sleeps end; an attempt to *)
(* connect ends; an operation on a closed socket ends, and an exchange has *)
(* a timeout. A peer need not read nor answer.                             *)
(***************************************************************************)
RqFairness ==
  \A f \in Fiber :
    /\ WF_rqVars(~ corrupt /\ Run(f))
    /\ WF_rqVars(~ corrupt /\ (kind = "exchange" \/ pc[f] = "workOver") /\ Work(f))
    /\ WF_rqVars(~ corrupt /\ pc[f] = "readOver" /\ Read(f))
    /\ WF_rqVars(~ corrupt /\ Connect(f))
    /\ WF_rqVars(~ corrupt /\ (SleepEnds(f) \/ TimerFires(f)))

RqSpec == RqInit /\ [][RqNext]_rqVars
FairRqSpec == RqSpec /\ RqFairness

-----------------------------------------------------------------------------
RqTypeOK ==
  /\ kind \in Kinds /\ silent \subseteq Req
  /\ link \in {"down", "starting", "up"}
  /\ pc \in [Fiber -> Loc]
  /\ opened \in 0 .. MaxConn /\ sent \in 0 .. MaxReq
  /\ queue \in Seq(Req) /\ callbacks \in Seq(Req \ silent) /\ wire \in Seq(Req)
  /\ skew \subseteq {"leftover", "residue", "silent", "flushed"}
  /\ answers \subseteq Req \X Req
  /\ calls \in [Req -> Nat] /\ failedWrites \in [Req -> Nat]
  /\ revived \in Nat /\ corrupt \in BOOLEAN

\* On a connection that began with no callback left over and no part of a response in
\* the buffer, until a request is sent without a callback or the timeout flushes the
\* callbacks, every response goes to the callback of its own request.
OwnResponse ==
  [][\A a \in answers' \ answers : a[1] # a[2] => skew # {}]_rqVars

\* A request sent with a callback is never forgotten: it is still in the queue, or its
\* callback waits or was called; and it is called once, not counting the errors of
\* writes that are tried again.
Accounted ==
  ~ corrupt =>
  \A r \in (1 .. sent) \ silent :
    LET queued  == {i \in DOMAIN queue : queue[i] = r}
        waiting == {i \in DOMAIN callbacks : callbacks[i] = r}
    IN Cardinality(queued) + Cardinality(waiting) + calls[r] - failedWrites[r] = 1

\* The coroutines of the queue run one at a time and to their end, unless a send loop
\* outlived its connection because it made the next one itself, or is still trying to
\* connect: the stop of a request timer, which restarts the chain, overtook it.
OneInFlight ==
  corrupt => revived > 0 \/ \E f \in Fiber : f[1] = "send" /\ pc[f] \in Chain

Watched == \E f \in Fiber : f[1] = "timeout" /\ pc[f] \in {"armed", "fired", "posted"}

InSeq(r, s) == \E i \in DOMAIN s : s[i] = r
Awaited(r) == Up /\ IF kind = "exchange" THEN InSeq(r, queue)
                    ELSE InSeq(r, callbacks) /\ Watched

\* No request after n has set the timer of the requests before it anew; an exchange has a
\* timer of its own.
LastToRearm(n) ==
  kind = "exchange" \/ (n \in (1 .. sent) \ silent /\ (n + 1) .. sent \subseteq silent)

\* A request whose callback waits while the timer runs, or that is queued for an
\* exchange, is answered, or the connection goes down; in a pipeline, unless a further
\* request is sent. (Every request restarts the timer of all: a client that keeps on
\* sending to a silent peer waits for ever.)
Answered ==
  \A n \in Req : \A r \in 1 .. n :
    Awaited(r) /\ LastToRearm(n) ~> ~ Awaited(r) \/ ~ LastToRearm(n) \/ corrupt
=============================================================================
