# Specifications of bnet

bnet is a header-only C++20 network library over asio: servers and clients for tcp, TLS,
udp, kcp, websocket, http, rpc and txt, all assembled from the same templates
(`session`/`csession` x stream x protocol x transfer). This directory holds TLA+ modules
of its concurrent core, the TLC configurations that check them, and TLAPS proofs.

## The system

| Part | Source | State it keeps | Operations | Talks to |
|---|---|---|---|---|
| server session | `base/session.hpp` | `state_` (stopped, starting, started, stopping), socket, entry in the manager | `start`, `stop`, `co_start`, `co_stop`, `is_started` | manager, queue, stream, protocol, event handlers |
| session manager | `base/session_mgr.hpp` | map of live sessions under a shared mutex | `emplace`, `erase`, `foreach`, `find` | called from every thread |
| tcp server | `base/server.hpp` | `state_` | `start`, `stop`, `broadcast` | acceptor, manager, sessions |
| acceptors | `base/acceptor.hpp` | listening socket, retry timer | `acceptor_start`, accept loop, `acceptor_stop` | server, sessions |
| send queue | `base/queue.hpp` | deque, cancel flag, a timer that never expires as a condition variable | `enqueue`, `dequeue`, `init`, `uninit` | strand, `send_t` |
| transfers | `base/transfer.hpp` | read buffer; http: request, response, request timer | `send`, `co_send`, `send_t`, `recv_t`, `request` | queue, session |
| client session | `base/csession.hpp` | as the server session, with `reconn_num_` | `start`, `stop`, `co_connect`, `co_reconnect` | resolver, socket, queue |
| client pool | `base/client.hpp` | `state_` | `start`, `stop`, `add`, `init_pool` | io pool, client sessions |
| io pool | `base/iopool.hpp` | threads, one io_context and strand each | `start`, `stop`, `get` | everything runs on it |
| timer | `base/timer.hpp` | one `steady_timer`, cancel flag | `start`, `stop` | application callback |
| streams, protocols | `base/stream.hpp`, `base/proto.hpp` | TLS, kcp, websocket state | `stream_start`/`stop`, `proto_start`/`stop` | awaited by the sessions |
| http | `base/http*.hpp`, `base/http/`, `tool/tree.hpp` | callback queue, route trees, parsers | `handle`, `handle_func`, `execute` | http transfer |
| proxies, buffer, helpers | `tool/` | handler maps, buffer offsets | `bind`, `call`, `put`, `rd_flip` ... | sessions |

How they interact. `server::start` posts `co_start` to the accept io_context; the accept
loop starts one session per connection on an io_context of the pool. `co_start` of the
session awaits the TLS handshake and the websocket upgrade, enters the manager, calls
`event::connect` and spawns `send_t` and `recv_t`. Any of a user stop, a server stop, a
failed start, a failed read and a failed write ends in `co_stop`, which leaves the manager,
awaits the close, and calls `event::disconnect`; a client then reconnects inside the same
`co_stop`. All coroutines of a session run on one thread, so they interleave at awaits;
the manager is the state that threads share; everything else crosses threads as posted work.

What is hard: several ends of one session at once; starts and stops that cross at an
await; retries that nest in the call that failed; a send queue whose consumer sleeps on a
timer; a restarted server whose old accept loop is still there; callbacks that are matched to
responses by their order alone; a destructor that joins threads which sessions still hold; a
datagram protocol whose connection numbers are all the same. `PROJECT.json` lists these hazards
by line.

What makes the parts correct that no module covers: a posted send must find its session alive;
a route lookup must return what a naive match returns, on any thread; the byte buffer must keep
`offptr_ <= currptr_ <= max_size_` and lose no byte.

## Modules

| Module | Models | Composed of |
|---|---|---|
| `SessionLife` | what a server session promises the application: connect and disconnect events, presence in the manager | abstract |
| `Session` | `session.hpp`, with the awaits of `stream.hpp`, `proto.hpp`, the loops of the tcp and websocket transfers | implements `SessionLife` |
| `Server` | `server.hpp` and the tcp `acceptor.hpp` | extends `Session` |
| `ClientLife` | what a client session promises over reconnects | abstract |
| `CliSession` | `csession.hpp`, its queue and loops, for tcp without protocol | implements `ClientLife` |
| `SendQueue` | `buffer_queue`, the strand, `send_t`, with senders on several threads | |
| `Timer` | `timer.hpp` | |
| `Requests` | requests, responses and callbacks of a tcp client: the http, rpc and txt transfers, `normal_queue`, `http_cli_router`, the request timer, with the reconnect chain of `csession.hpp` | |
| `Pool` | `iopool.hpp` with `client.hpp` or `server.hpp` as its owner, from start to the destructor | |
| `Kcp` | a kcp client and the server's session for its endpoint: `kcp_stream`, the kcp transfer, the udp acceptor, the kcp objects, a network that loses, doubles and reorders | |
| `MC*` | instances for TLC | |
| `*_proofs` | theorems checked by TLAPS | extend the module they are about |

Definitions whose names end like a bug (`EnterStopTwice`, `UninitTimerOnly`, ...) and whose
comment says *Mutant* are not part of any behaviour. Each replaces the definition it stands
before and must make TLC violate one property; `PROJECT.json` pairs them.

### Session

A *fiber* is one coroutine chain: `co_start`, `send_t`, `recv_t`, and one `co_stop` per call
of `stop`. `pc[s][f]` is the await it is suspended at. `Running(s)` holds the awaits that do
not suspend for the chosen stream and protocol (a binary stream's `stream_start`, a
`proto_stop` without websocket), so a fiber at one of them keeps the thread and no other fiber
of its session moves. Two more points, `emplace` and `erase`, cut a step where it touches the
manager, because other threads read it. `co_stop` called from inside another fiber runs in that
fiber: `EnterStop(s, f)` is the two compare-exchanges, and `AfterStop` is where `f` continues.

`StreamType` and `ProtoType` choose among tcp, TLS, ws and wss. `connects`, `disconnects` and
`lateRecv` count calls of the event handlers.

### Server

`co_stop` of the server does not suspend, so the accept thread does nothing else while it walks
over its snapshot (`svTodo`), while sessions on other threads go on. A start after a stop
reopens the same acceptor and shares one retry timer with whatever accept loop is left, so loops
are numbered by their start. Stops are named by who asked (`Caller`): the application, a
`co_start` that failed, an accept loop.

### CliSession

For a tcp client `co_stop` does not suspend before its reconnect and `co_start` does not suspend
after its connect, so each stretch is one action. `co_reconnect` runs inside whichever fiber
brought the connection down: that fiber sleeps, resolves and connects, and when the chain ends,
`Return` says where it continues: out of `recv_t`, but back into the loop of `send_t`. When
`send_t` reconnects this way its loop survives beside the one the new connection spawned
(`revived`); two writes at a time are undefined behaviour in asio, and the model stops there
(`corrupt`). Messages are numbers, so `wire` and `queue` tell loss, duplication and order.

### SendQueue

A message is its sender, its number, and whether it is empty. The owner of the session's thread
enqueues at once; other senders append to `posted`, the strand. `Written` of an empty message
returns 0, which leaves it in front.

### Timer

`now` and `expiry` count from the construction of the timer. Each call of `start` is one
`start_t`; `Arm` sets the shared expiry and cancels all pending waits, as `expires_at` does.
`stopped` is a history variable: it remembers that `stop` was called, apart from the cancel flag
that the code tests, and no action reads it.

### Requests

`kind` is the kind of transfer. In a `pipeline` (http) the coroutine at the front of the
queue writes its request and queues the callback, and `recv_t` gives every response to the oldest
callback; one timer serves all requests. In an `exchange` (rpc, txt)
that coroutine also reads the response, under a timeout of its own; it finds nothing of an earlier
one, since rpc reads the socket directly and txt empties its buffer first. A fiber is one
of `co_start`, the two loops of each connection, the wait of the timer that each request begins, and
the calls of `stop`; `pc[f]` is where it is suspended, with an `...Over` for an operation whose
completion is there because the socket was closed. The reconnect chain is that of `CliSession`
reduced to what it does to requests: it sleeps, resolves, connects, and may give up each time.
`calls` counts the calls of a callback, `failedWrites` those that only reported a write that is
tried again, and `skew` holds the reasons why responses may not meet their callbacks any more.
`corrupt` is undefined behaviour (one coroutine run twice at a time, or destroyed while it runs);
the model stops there.

### Pool

`caller` is where the application's code runs: outside of any pool (`Main`), on a thread of
another pool, or on one of this pool's, in a handler. `phase` follows it through `start`, the
turns of `init_pool` with its wait for the promise, and the destructor. A thread is occupied while
it runs such code, and `Idle(c)` is when its `run` has nothing left and, without the work guard,
returns. A session is only what it is to its io_context (`posted`, `starting`, `up`, `sleep`,
`over`); `spared` are the sessions that a stop of the owner did not reach, `late` those made after
the work guards were reset.

### Kcp

The network is a set of datagrams: a receive may leave the datagram there, and any may be taken
first or lost. `stale` is the model's memory that a datagram is about something that is over; no
datagram says so, except that a synack carries the number of its syn. A kcp object is `snd_nxt`,
the messages in flight with how often each was sent, `rcv_nxt` and what arrived early.
`first` is the datagram that made the session until the posted `recv_t` hands it to the session a
second time (`Replay`). A session that anything but a syn made is a `ghost`: its conv is what
stands in the datagram where a syn has `th_ack` (for a segment, its command and window), which is no
client's. `asking` is the loop that sends the syn every 500 ms; its wait is cancelled once, by the
answer, and when it had just expired the loop goes on while the client is connected. The
acceptor's loop and the sessions run on one thread, so a turn of the loop is one action.

## Runs

| Run | Instance | Checks |
|---|---|---|
| `session_tcp` | 1 tcp session, 2 stops, queue of 2 | `StopReleases` |
| `session_wss` | 1 websocket/TLS session, 3 stops, queue of 2 | `OneTeardown`, `ManagerAgrees`, `OneLateRecv`, `NothingLeft`, `IInv`, `SessionLifeSpec` |
| `server` | 2 connections, 2 starts, 1 user stop, no messages | `AcceptorAgrees`, `UnaskedStop`, `ServerUsesSessions` |
| `server_live` | 1 connection, 2 starts, 1 user stop, queue of 1 | `ServerStopDrains`, `LoopsEnd` |
| `client_retry` | 3 connections, 2 retries, 2 plain stops, 2 messages | `CliTypeOK`, `OneChain`, `Retried`, `NothingLostOrDoubled`, `SocketReleased`, `StopSticks`, `OutageEnds`, `TakenUp` |
| `client_errstop` | as above, 1 plain stop and 1 stop with an error | `ConsumersCounted`, `Attended`, `ClientLifeSpec` |
| `send_queue` | owner and 2 other senders, 2 messages each | `SenderOrder`, `WaitsForASend`, `Delivered` |
| `timer_loop` | 2 starts, interval 2, 7 units of time | `OnSchedule`, `NoCallAfterStop`, `EveryInterval` |
| `timer_once` | as above with `IsLoop = FALSE`, 1 start | `CalledOnce`, which is violated |
| `requests` | both kinds, 3 requests, the last one with or without callback, 2 connections, 1 stop | `RqTypeOK`, `Accounted`, `OneInFlight`, `OwnResponse`, `Answered` |
| `pool` | client and server, 2 threads, pool of 2, 3 sessions, 1 retry, the application on `Main`, on another pool, on thread 0 | `Quiet`, `JoinReturns`, `StartReturns` |
| `kcp` | 2 messages of the client, 1 of the server, dead link at 3, 2 datagrams to the server and 1 to the client | `InStep`, `HandshakeEnds`, `DropNoticed` |

What they show, and the bounds.

* Session. Three stops beside a failing start, read and write are more than the races need:
  one fiber owns the teardown, a second finds it under way, a third finds it done. Two queued
  messages give the queue an inside. Sessions share only the manager, whose entries do not touch
  each other; the theorems cover any number. `SessionLifeSpec` in the wss run is the refinement;
  a failed handshake is closed without ever having been opened.
* `NothingLeft` states what the code does on a failed close: the session stays in `stopping`
  with its socket open, out of the manager and without a disconnect event. That happens with TLS
  or websocket, so the wss run checks it; for tcp the theorem says that it never happens.
* Server. Two starts are what it takes for an old loop to meet a new acceptor, for
  `already_started`, and for a stop request that is served late. `UnaskedStop` states what may
  take a started server down. A second `start` does (the handler of `already_started` stops the
  running server), and so does the loop of an earlier start after a restart (its aborted wait
  calls `server_.stop`); the property says that nothing else does. With `MaxQueue = 0` no message
  is sent in the larger run; `server_live` has one. The stoppers are both the server's there;
  two are enough because at most two stops take a snapshot that holds a session.
* A session that enters the manager after the snapshot of `co_stop`, or that is accepted just
  before the stop and started after it, is stopped by nobody. No document says otherwise, so
  `ServerStopDrains` speaks of the sessions of the snapshot only.
* Client. Three connections allow a reconnect of a reconnect; two retries distinguish the last
  attempt from the others. `Retried` counts: `retry_num` attempts after a lost connection, one
  more when there was none before. `OneChain`, `Retried` and `StopSticks` are about stops without
  an error, the default of `stop()`; a stop that passes an error asks for a reconnect, and while
  an attempt is under way it begins a second chain. `StopSticks` is about stops that took a
  session down: a stop during the sleep between two attempts finds the session stopped and has no
  effect. `SocketReleased` excepts a stop that met the resolver (`leaked`): `co_connect` opens a
  socket without looking at the state.
* Send queue. `Delivered` excepts a stop and an empty message in the queue; that one is
  retried at each send, never popped, and blocks what follows.
* Timer. `NoCallAfterStop` is about everything that can follow a stop: waits that had expired
  before it, later starts, further stops. Its mutant is the line of `start` that is commented out
  (`timer.hpp:50`), which would clear the flag. `EveryInterval`: the expiry counts from construction, so a timer that is late calls back
  without a pause until it caught up. `timer_once` is a finding: the test announces "once call"
  for `start<false>`, whose coroutine never enters `while (IsLoop)`.

* Requests. `OwnResponse` says when responses meet their callbacks: on a connection that began with
  no callback left over (`handle` gives an error to the oldest callback only) and no part of a
  response in `rbuff_` (nothing clears it), until a request goes out without a callback or the
  timeout flushes them all. Bytes stay in `rbuff_` when a read fails in the middle of a response, and
  when `recv_t` leaves after a whole one because the session went down while it was on its way, with
  those behind it already read (`LeftInBuffer`). Each of the four is reachable, and afterwards a callback can be given
  another request's response. `Accounted`: no callback is forgotten, and none is called twice but
  for failed writes, whose request stays queued and is written again. `OneInFlight` has an
  exception of the same kind as `CliSession`: a send loop that made the next connection itself, or
  is still trying to when the posted stop of a request timer restarts the chain, runs beside the
  new loop. `Answered` holds in a pipeline once no more requests are sent: every request sets the
  one timer anew (`transfer.hpp:402`), so a client that keeps on sending to a silent peer starves
  the timeout of all, and the formula excepts a further request rather than lean on the bound
  `MaxReq`. It also needs a timer that runs: when it fires before a callback waits it is not set
  again, so that the request is watched by nobody. An exchange has its own timeout and no such
  exception. Two
  connections give a reconnect with leftovers; three requests give one answered, one waiting and
  one queued.
* Pool. `StartReturns` excepts a start on the thread of the session it waits for, and a handler
  that stops the client while `init_pool` is at work: `add` refuses, nobody sets the promise. A first attempt
  that fails leaves the pool short, and `start` returns true. `JoinReturns` excepts the sessions
  that no stop reached, which connect afterwards and hold their thread. `Quiet` excepts sessions that
  were given to a thread that had left. A destructor on a thread of any pool does not join
  (`terminated`). Two threads tell the own thread from another's; with three sessions one is added
  by a handler beside the pool of two.
* Kcp. `InStep` holds until a syn resets the session's kcp object after either end used the streams, or a
  segment from before is taken for a new one. The comment at `stream.hpp:349` says of a syn that comes
  again that a reply is enough; the code resets, also when `recv_t` replays the first datagram or the client's loop outlives the handshake,
  so what the connect handler of the server sent is lost. `HandshakeEnds` excepts a server that
  is not there, and a loop ended by an error of its send, which stops nothing as the session is
  only starting: no timeout covers the handshake. The first datagram that comes, whichever it
  is, ends it. `DropNoticed`: a stop of the server sends no fin, since it closes the socket first,
  and there is no keepalive, so a client with nothing to send does not notice. `InStep` was also
  checked with three datagrams to the server; `StreamsInStep` proves it for all bounds.

All runs switch the deadlock check off: connections, calls and messages are bounded, and a
system whose sessions have ended has nothing left to do.

Bounds are `MaxQueue`, `MaxStart`, `MaxUserStop`, `MaxConn`, `MaxMsg`, `MaxSend`, `MaxReq`,
`MaxSession`, `CliMsgs`, `SrvMsgs`, `MaxClock`, `MaxCalls`, `ToSrv` and `ToCli` (more than these in
flight is a loss), and the sets `Session`, `Stopper`, `PlainStop`, `ErrorStop`, `Other`, `Starter`. Only
the connections, the sessions and the sizes of the queues bound the environment; each is in a
guard of the action that would exceed it.

## Fairness

* Weak fairness for every step an io_context owes: running posted work, resuming a fiber whose
  wait is over, walking on inside `co_stop`. An io_context runs what is ready; the pool's threads
  run until the pool stops.
* An operation on a closed socket ends (`WF` of `Written`, `Received`, `Connected` ... guarded by
  the closed socket): asio completes it with `operation_aborted`.
* `async_close` ends: `proto_stop` sets `disconnect_timeout_`. A TLS handshake and
  `async_shutdown` have no timeout in the code and get no fairness; `StopReleases` is therefore
  checked for tcp.
* A name lookup ends, a connect ends within `conn_timeout`, a sleep ends.
* `Requests`: as above, and an exchange ends, by its timeout; the peer need not read nor answer.
* `Pool`: the application's own code goes on; an attempt of a client to connect ends within
  `conn_timeout`; a server's handshake and a live connection need not end.
* `Kcp`: the timers go on and posted work runs. A syn of this connection that is in flight again
  and again is received at last, and so is its synack (`SF`): a network that loses everything is
  no network. Data needs no such assumption, for the dead link ends the wait.
* None for connections, calls of the application, data from the peer. `Delivered` alone
  assumes that the peer reads on or the connection breaks (`Written \/ WriteFails`).

## Proofs

Every theorem holds for all values of the constants that satisfy the named assumptions
(`SessionAssumption`, `ServerAssumption`, `CliAssumption`, `QueueAssumption`, `TimerAssumption`,
`RequestsAssumption`, `PoolAssumption`, `KcpAssumption`: disjoint names and natural-number
bounds), which TLC evaluates on its instances.

* `Session_proofs`. None of the four safety properties is inductive. `IInv` adds what each place
  knows: a fiber inside the teardown means the state is `stopping` and no other fiber is inside
  (`OwnerInv`); an entry in the manager means the connect event was called and the session is
  started or about to be erased, and a reported session has its socket closed (`EntryInv`);
  `send_t` writes only from a queue that is not empty, and a late delivery ends `recv_t`
  (`LoopInv`). From it: `TypeCorrect`, `OneTeardownHolds`, `ManagerAgreesHolds`,
  `OneLateRecvHolds`, `NothingLeftHolds`. `SessionImplementsLife` maps every step to an `Open`,
  `Withdraw` or `Close` of `SessionLife` or to a stutter: `Emplace` opens, `Erase` withdraws,
  `StreamStopped` closes.
* `Server_proofs`. `ServerUsesSessionsHolds`: every step of the server is a step of `Session` or
  leaves its variables alone; the one obligation is that the server stops only sessions the
  application could know, which needs the invariant that a session in the manager passed its
  connect event. Hence `ServerKeepsLife`. `SvIInv` ties loops and stop requests to the number of
  a start that ran; from it `AcceptorAgreesHolds` and the action property `UnaskedStopHolds`.
* `SendQueue_proofs`. The line `wire \o queue \o posted` is what all senders sent, in order of
  arrival. Sending inserts a message behind the last one of its sender (`Grow`); the strand and
  the writes move the boundaries of the line and change nothing (`Shift`). `ControlInv` supplies
  that the owner has nothing in the strand and that a write has a message. `SenderOrderHolds`
  and `WaitsForASendHolds` follow.
* `Timer_proofs`. A stop leaves the cancel flag set, whatever is called afterwards
  (`Remembered`), from which `NoCallAfterStopHolds`. One wait at a time; with one `start_t`,
  `expiry = (calls + 1) * Interval` while it waits, from which `OnScheduleHolds`.

* `CliSession_proofs`. `StepKinds` sorts every step by what it does to the control: a fiber moves
  on (`Moves`), an attempt begins (`Begins`), a connection is committed (`Commits`), a teardown
  runs (`Falls`); each conjunct of the invariant is then shown for four kinds of steps instead of
  for every action. The invariant has two layers. `Control`: what is opened was closed unless it
  is open (`Account`); the loops of a stopped session are on their way out and have left before
  the next attempt (`Phases`), because `SleepEnds` comes after everything that was ready; nothing
  happened before `co_start` runs (`Fresh`); a send loop of a session that is down finds its
  queue cancelled (`Canceled`), which is why a stop that found the session stopped cannot send
  it round again. When no stop passes an error: one chain at a time, asleep for a stopped session
  and connecting for a starting one unless a stop overtook it (`Alone`), and `reconn_num` against
  the attempts made (`Counted`). `Data`: who is on the queue (`Few`), a write has a message and
  is the only one (`Writers`), one loop alone corrupts nothing (`Clean`), and written and queued
  messages are all that were sent (`Fifo`). `ImplementsClientLife` maps a `Commits` to `Open`, a
  `Falls` from `started` to `Close` and all else to a stutter. `LoopsAreFew` says more than the
  run's `ConsumersCounted`: a client that reconnects inside its send loop again and again still
  has two loops at most. `NoWakeUpIsLost` adds who wakes whom (`Attending`): a started session has
  its socket open, because a connect whose socket a teardown closed is seen to before the next
  attempt begins, so no loop leaves the queue while it is up, and a loop that waits found the
  queue empty. `Attended` is the safety half of `TakenUp`, and holds for stops with an error too.
* `Requests_proofs`. `OwnResponse` needs that at most one `recv_t` hands out responses
  (`OneReceiver`: the newest, and none while a session starts), so that nobody reads on a new
  connection with the old one's callbacks, and that `callbacks = wire` while there is no skew
  (`Aligned`). `OneReceiver` in turn needs that one fiber at a time sleeps between two attempts and
  that the session is down until it wakes (`OneSleeper`), which is also what lets `SleepEnds` leave
  out a failing compare-exchange: `ReconnectsFindTheSessionDown`. `Accounted` is a balance: a
  request is counted where it is queued, where its callback waits and when it was called, less the
  writes that failed (`Balance`), and every step leaves the sum alone but the send that adds one;
  the lemmas on `Count` say what appending and taking the front do to it. The balance fails once
  two coroutines run on the queue (`corrupt`), so `OneInFlight` carries the other half: until a
  send loop has reconnected itself, the loop of the newest connection is the only one on its way
  (`Single`), and a loop at work has a request at the front (`Busy`).
  `ConnectionsAreServed` is the safety half of `Answered`: a session that is up has its loops at
  work and a queued request has one that will run it.
* `Pool_proofs`. `Quiet` is about the moment when the threads have been joined; the invariant says it of every
  thread that has left (`ExitedIdle`) and adds that only the destructor resets the guards
  and that the server's stop is posted before (`Ending`).
* `Kcp_proofs`. `InStep` is not inductive: what is in flight decides what arrives. `Steady` adds that every
  segment in flight that is not stale carries what its sender has sent, or acknowledges what its
  sender was given (`InFlight`), and restates `Flows` with what arrived early (`Fits`). `Ours` and
  `Asked` say how a connected client came by the session: its streams began with a syn of this
  connection, because a synack that is not stale comes from such a session only. The lemmas on kcp
  objects say what `Queued`, `Received` and `Acked` do to them.

Every invariant, action property and refinement that a passing run checks is also proved. Only
model-checked is liveness, which is out of the prover's reach: `StopReleases`,
`ServerStopDrains`, `LoopsEnd`, `OutageEnds`, `TakenUp`, `Delivered`, `EveryInterval`, `Answered`,
`JoinReturns`, `StartReturns`, `HandshakeEnds`, `DropNoticed`. `CalledOnce` is a claim of the
source that the code breaks. The inductive invariants, but for `IInv` of `Session`, are in no run:
they are proved.

## Assumptions about what is outside the source

* asio is a submodule that is not part of the commit; its version is unknown. `co_spawn` is
  modelled as a post. A version that runs the new coroutine inline when spawned on its own thread
  gives the schedule in which that fiber runs next; a stop called inside the connect handler
  would then run before `transfer_start`.
* Release build: `NET_ASSERT` does nothing. `OneTeardown` implies that the `NET_ASSERT(false)` of
  `co_stop` is not reached.
* `co_stop` of a session has no `co_return` when its compare-exchanges fail; flowing off its end
  is taken to return. The value is not used.
* Reading and writing of one message is atomic: a write that failed is not counted as delivered,
  although a part of it may have reached the peer.
* A session is started once, by the accept loop or by `client::add`.
* `Timer` is started and stopped on the thread of its io_context.
* A sleep of seconds ends after everything that was ready when it began has run
  (`SleepEnds`).
* The peer of `Requests` answers the requests of a connection in order, one response each, and a
  request only when it was written whole.
* `Requests` sends on the session's thread; the strand is `SendQueue`'s subject.
* The kcp client examines a view of a string that has been destroyed (`stream.hpp:682`):
  undefined behaviour, modelled as a test of the synack that may fail.
* The kcp objects (vendored code): a window never holds a message back, a message is one
  segment, an acknowledgement is sent at once and in a segment of its own: the `una` that a push
  segment carries as well is left out, so that a lost acknowledgement is made good by the next one or
  by a retransmission only. `ikcp_update` sends nothing before its first call.
* A kcp client that connects from another port finds no trace of its old port on the server.

## Not modelled

In the order in which they would be added:

| Module | Subject | Why not yet |
|---|---|---|
| `CliSession` with TLS and websocket | a `co_stop` that suspends before its reconnect | the awaits multiply the states of a model that is already the largest; the invariant has to speak of nested chains |
| `RadixTree` | `tool/tree.hpp`: lookup equals a naive match over bounded route sets | an algorithm over strings, recursive, for TLC only. The race on `params_` and `skipped_nodes_` of the shared router (`http/router.hpp:31`) is undefined behaviour whatever the tree does |
| `ByteBuffer` | `tool/bytebuffer.hpp`: offsets against an abstract byte queue | sequential code that no two threads share |
| http with `BNET_HTTP_NOPIPELINE` | `transfer.hpp:333-372`, `480-510`: one request at a time, read into `rbuff_` | neither of the kinds of `Requests`: a failed write stops the session in `co_send_recv`, reconnect included, and again in its caller (364); a timeout leaves part of a response in `rbuff_`; the response to `send` without a callback is read by the next request. Nothing in the repository defines the macro |
| plain udp | the udp transfer without kcp, `async_receive` on a connected socket | no handshake, no state of its own beyond `Session` |
| ownership | references to a session, posted handlers that hold none (`queue.hpp:82`; the kcp server's `recv_t`, `transfer.hpp:953`); a `Timer` destroyed while `start_t` waits, which then tests the flag of a destroyed object (`timer.hpp:34-36`, `69`) | needs reference counts in every life-cycle module |

`http/execute.hpp` is one exchange without state; that it returns success for a failed connect,
write or read (line 27) is read off the code. In the udp acceptor, `remote_endpoint` keeps its
value when a receive fails (`acceptor.hpp:221`), so that the error stops the session of the
datagram before: `SrvStopsSession` has the effect, without the other endpoint.

Left out for good: http parsing, multipart, MIME types and urls (text processing without shared
state), configuration, concepts, string helpers, the proxies' template machinery, and vendored
code (beast, OpenSSL, json, and of kcp all but what `Kcp` abstracts).
