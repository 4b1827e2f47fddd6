--------------------------------- MODULE Pool ---------------------------------
(***************************************************************************)
(* The io pool (bnet/base/iopool.hpp), one thread per io_context, and its  *)
(* two owners: the client (bnet/base/client.hpp) with the pool of sessions *)
(* its start makes, and the server (bnet/base/server.hpp). From start,     *)
(* which may wait for every connection, to the destructor, which joins the *)
(* threads: a thread leaves io_context::run when the pool's work guards    *)
(* are reset and nothing is left to do on its io_context.                  *)
(*                                                                         *)
(* A session is here what it is to its io_context: modules Session and     *)
(* CliSession have the rest. Only a connected session is in the manager,   *)
(* and only those a stop of the owner reaches.                             *)
(***************************************************************************)
EXTENDS Integers, FiniteSets

CONSTANTS
  Owners,        \* "client", "server": what is looked at
  Main, Other,   \* a thread of the application, a thread of another pool
  None,          \* no context
  Callers,       \* where the application's code runs: Main, Other, or one of Ctx
  NCtx,          \* threads of the pool
  PoolSize,      \* cli_cfg::pool_size
  MaxSession,    \* bound on the sessions made; handlers leave init_pool its share
  IsReconn,      \* cli_cfg::is_reconn
  RetryNum       \* cli_cfg::retry_num

Ctx == 0 .. NCtx - 1
Session == 1 .. MaxSession

ASSUME PoolAssumption ==
  /\ Owners \subseteq {"client", "server"}
  /\ NCtx \in Nat \ {0} /\ MaxSession \in Nat /\ PoolSize \in 0 .. MaxSession
  /\ Callers \subseteq {Main, Other} \cup Ctx
  /\ {Main, Other, None} \cap Ctx = {} /\ Main # Other
  /\ IsReconn \in BOOLEAN /\ RetryNum \in Nat

VARIABLES
  owner,         \* what owns the pool
  caller,        \* where the application's code runs
  isAsync,       \* cli_cfg::is_async
  phase,         \* how far the application's code is
  started,       \* the owner's state_ is started
  added,         \* turns of init_pool's loop
  awaited,       \* the session whose promise start waits for; 0 when add refused
  made,          \* sessions made so far; next_ counts them over the contexts
  thread,        \* each thread of the pool
  guarded,       \* the work guards are held
  life,          \* where each session is
  tries,         \* reconn_num_ of each session
  failedOnce,    \* sessions whose first attempt to connect failed
  answered,      \* sessions whose start has returned: the promise is set
  stops,         \* sessions with a stop posted
  adder,         \* the context on which a handler is inside client::add, or None
  accepting,     \* the server's accept loop runs
  stopPosted,    \* server::co_stop is posted
  late,          \* sessions made when the work guards had been reset
  spared         \* sessions that no stop of the owner reached

poolVars == <<owner, caller, isAsync, phase, started, added, awaited, made, thread,
              guarded, life, tries, failedOnce, answered, stops, adder, accepting,
              stopPosted, late, spared>>
fixed == <<owner, caller, isAsync>>
initVars == <<added, awaited>>
appVars == <<phase, started, guarded, initVars>>
sessVars == <<life, tries, failedOnce, answered, stops, spared>>
madeVars == <<made, late>>
jobVars == <<adder, accepting, stopPosted>>

\* iopool_imp::get, round robin.
CtxOf(s) == (s - 1) % NCtx

\* The context's thread is inside one of the application's handlers, or has left run.
Occupied(c) ==
  \/ thread[c] = "exited"
  \/ adder = c
  \/ caller = c /\ phase \in {"adding", "waiting"}

Runs(s) == ~ Occupied(CtxOf(s)) /\ phase # "terminated"

PoolInit ==
  /\ owner \in Owners
  /\ caller \in Callers
  /\ isAsync \in (IF owner = "client" THEN BOOLEAN ELSE {TRUE})
  /\ phase = "made" /\ started = FALSE
  /\ made = 0 /\ added = 0 /\ awaited = 0
  /\ thread = [c \in Ctx |-> "running"] /\ guarded = TRUE
  /\ life = [s \in Session |-> "none"]
  /\ tries = [s \in Session |-> 0]
  /\ failedOnce = {} /\ answered = {} /\ stops = {} /\ late = {} /\ spared = {}
  /\ adder = None /\ accepting = FALSE /\ stopPosted = FALSE

-----------------------------------------------------------------------------
(***************************************************************************)
(* The application: start, and the destructor                              *)
(***************************************************************************)

\* make_session, and the post of its co_start. The guards do not hold it back.
Make ==
  /\ made < MaxSession
  /\ made' = made + 1
  /\ life' = [life EXCEPT ![made'] = "posted"]
  /\ late' = IF guarded THEN late ELSE late \cup {made'}
  /\ spared' = IF started THEN spared ELSE spared \cup {made'}
  /\ UNCHANGED <<tries, failedOnce, answered, stops>>

\* client::start up to init_pool; server::start, whose co_start opens the acceptor.
Start ==
  /\ phase = "made"
  /\ started' = TRUE
  /\ IF owner = "client" THEN phase' = "adding" /\ UNCHANGED accepting
                         ELSE phase' = "running" /\ accepting' = TRUE
  /\ UNCHANGED <<fixed, initVars, guarded, thread, adder, stopPosted, madeVars, sessVars>>

\* A turn of init_pool: add makes a session, or refuses because the client was stopped
\* meanwhile; with is_async false init_pool then waits for the promise either way.
AddToPool ==
  /\ phase = "adding"
  /\ added < PoolSize
  /\ added' = added + 1
  /\ IF started THEN Make /\ awaited' = made'
     ELSE awaited' = 0 /\ UNCHANGED <<madeVars, sessVars>>
  /\ phase' = IF isAsync THEN "adding" ELSE "waiting"
  /\ UNCHANGED <<fixed, started, guarded, thread, jobVars>>

\* The promise is set. An error ends init_pool; start does not return it.
Promised ==
  /\ phase = "waiting"
  /\ awaited \in answered
  /\ phase' = IF awaited \in failedOnce THEN "running" ELSE "adding"
  /\ UNCHANGED <<fixed, started, initVars, guarded, thread, madeVars, sessVars, jobVars>>

Filled ==
  /\ phase = "adding"
  /\ added = PoolSize
  /\ phase' = "running"
  /\ UNCHANGED <<fixed, started, initVars, guarded, thread, madeVars, sessVars, jobVars>>

\* foreach over the manager: a stop is posted to the sessions that are connected.
StopSessions ==
  /\ stops' = stops \cup {s \in Session : life[s] = "up"}
  /\ spared' = spared \cup {s \in Session : life[s] \in {"posted", "starting", "sleep"}}
  /\ UNCHANGED <<life, tries, failedOnce, answered>>

\* stop of the owner: the client's on the thread that calls it, the server's as a
\* coroutine on the accept context.
OwnerStop ==
  IF owner = "client"
  THEN /\ started' = FALSE
       /\ IF started THEN StopSessions ELSE UNCHANGED sessVars
       /\ UNCHANGED stopPosted
  ELSE stopPosted' = TRUE /\ UNCHANGED <<started, sessVars>>

\* The application calls stop, from its own code or from a handler on the thread of a
\* connected session.
Stop ==
  /\ started
  /\ \/ phase = "running" /\ caller # adder
     \/ \E s \in Session : life[s] = "up" /\ Runs(s)
  /\ OwnerStop
  /\ UNCHANGED <<fixed, phase, guarded, initVars, thread, madeVars, adder, accepting>>

\* Mutant: the work guards stay.
KeepGuards == TRUE
ResetGuards == FALSE

\* ~client and ~server: stop of the owner, then iopool_imp::stop, which joins. On a
\* thread of any pool the latter returns at once, the pool's own destructor makes the
\* same call in vain, and contexts and threads are destroyed while they run.
Destroy ==
  /\ phase \in {"made", "running"}
  /\ caller # adder
  /\ OwnerStop
  /\ IF caller = Main THEN phase' = "joining" /\ guarded' = ResetGuards
                      ELSE phase' = "terminated" /\ UNCHANGED guarded
  /\ UNCHANGED <<fixed, initVars, thread, madeVars, adder, accepting>>

Joined ==
  /\ phase = "joining"
  /\ \A c \in Ctx : thread[c] = "exited"
  /\ phase' = "destroyed"
  /\ UNCHANGED <<fixed, started, initVars, guarded, thread, madeVars, sessVars, jobVars>>

-----------------------------------------------------------------------------
(***************************************************************************)
(* The threads                                                             *)
(***************************************************************************)
Alive == {"posted", "starting", "up", "sleep"}

\* Mutant: the contexts are stopped by force, whatever is left on them.
IdleByForce(c) == TRUE
\* Nothing is left to do on a context.
Idle(c) ==
  /\ \A s \in Session : CtxOf(s) = c => life[s] \notin Alive /\ s \notin stops
  /\ c = 0 => ~ accepting /\ ~ stopPosted

Exit(c) ==
  /\ ~ guarded
  /\ ~ Occupied(c)
  /\ Idle(c)
  /\ thread' = [thread EXCEPT ![c] = "exited"]
  /\ UNCHANGED <<fixed, appVars, madeVars, sessVars, jobVars>>

\* A handler on the thread of a connected session calls client::add, which finds the
\* client started ...
AddChecks(s) ==
  /\ owner = "client" /\ started
  /\ life[s] = "up" /\ Runs(s)
  /\ adder = None /\ made + PoolSize - added < MaxSession
  /\ adder' = CtxOf(s)
  /\ UNCHANGED <<fixed, appVars, thread, madeVars, sessVars, accepting, stopPosted>>

\* ... and makes a session, whatever has happened to the client since. next_ may give
\* it a context whose thread has already left.
AddMakes ==
  /\ adder # None /\ phase # "terminated"
  /\ Make
  /\ adder' = None
  /\ UNCHANGED <<fixed, appVars, thread, accepting, stopPosted>>

\* The accept loop starts a session.
Accept ==
  /\ accepting /\ ~ Occupied(0) /\ phase # "terminated"
  /\ Make
  /\ UNCHANGED <<fixed, appVars, thread, jobVars>>

\* server::co_stop.
StopRuns ==
  /\ stopPosted /\ ~ Occupied(0) /\ phase # "terminated"
  /\ stopPosted' = FALSE /\ accepting' = FALSE /\ started' = FALSE
  /\ IF started THEN StopSessions ELSE UNCHANGED sessVars
  /\ UNCHANGED <<fixed, phase, guarded, initVars, thread, madeVars, adder>>

-----------------------------------------------------------------------------
(***************************************************************************)
(* The sessions                                                            *)
(***************************************************************************)

SessStart(s) ==
  /\ life[s] = "posted" /\ Runs(s)
  /\ life' = [life EXCEPT ![s] = "starting"]
  /\ UNCHANGED <<fixed, appVars, thread, madeVars, jobVars>>
  /\ UNCHANGED <<tries, failedOnce, answered, stops, spared>>

\* Nothing on the way asks whether the owner was stopped meanwhile.
Connects(s) ==
  /\ life[s] = "starting" /\ Runs(s)
  /\ life' = [life EXCEPT ![s] = "up"]
  /\ tries' = [tries EXCEPT ![s] = 0]
  /\ answered' = answered \cup {s}
  /\ UNCHANGED <<fixed, appVars, thread, madeVars, jobVars>>
  /\ UNCHANGED <<failedOnce, stops, spared>>

\* Mutant: the first attempt to connect answers for no failure.
AnswersSuccess(s, reconnects) == UNCHANGED answered
\* co_start returns, to the promise, when its chain of attempts has ended.
Answers(s, reconnects) ==
  answered' = IF reconnects THEN answered ELSE answered \cup {s}

\* An attempt fails, or the peer closes the connection: co_stop with an error.
Breaks(s) ==
  LET reconnects == owner = "client" /\ IsReconn /\ tries[s] < RetryNum IN
  /\ life[s] \in {"starting", "up"} /\ Runs(s)
  /\ life' = [life EXCEPT ![s] = IF reconnects THEN "sleep" ELSE "over"]
  /\ tries' = [tries EXCEPT ![s] = IF reconnects THEN @ + 1 ELSE @]
  /\ failedOnce' = IF s \in answered THEN failedOnce ELSE failedOnce \cup {s}
  /\ Answers(s, reconnects)
  /\ UNCHANGED <<fixed, appVars, thread, madeVars, jobVars, stops, spared>>

\* The wait for the next attempt ends; what was ready when it began has run.
SleepEnds(s) ==
  /\ life[s] = "sleep" /\ s \notin stops /\ Runs(s)
  /\ life' = [life EXCEPT ![s] = "starting"]
  /\ UNCHANGED <<fixed, appVars, thread, madeVars, jobVars>>
  /\ UNCHANGED <<tries, failedOnce, answered, stops, spared>>

\* The posted stop, without an error. A session between two attempts is stopped
\* already, and goes on.
SessStop(s) ==
  /\ s \in stops /\ Runs(s)
  /\ stops' = stops \ {s}
  /\ life' = [life EXCEPT ![s] = IF @ = "up" THEN "over" ELSE @]
  /\ spared' = IF life[s] = "sleep" THEN spared \cup {s} ELSE spared
  /\ UNCHANGED <<fixed, appVars, thread, madeVars, jobVars>>
  /\ UNCHANGED <<tries, failedOnce, answered>>

-----------------------------------------------------------------------------
App == Start \/ AddToPool \/ Promised \/ Filled \/ Stop \/ Destroy \/ Joined
OfSession(s) ==
  AddChecks(s) \/ SessStart(s) \/ Connects(s) \/ Breaks(s) \/ SleepEnds(s) \/ SessStop(s)

PoolNext ==
  \/ App \/ AddMakes \/ Accept \/ StopRuns
  \/ \E c \in Ctx : Exit(c)
  \/ \E s \in Session : OfSession(s)

(***************************************************************************)
(* The application's code and the threads go on; a client's attempt to     *)
(* connect ends within conn_timeout. A server's handshake has no timeout,  *)
(* and a connection lasts as long as the peer likes.                       *)
(***************************************************************************)
PoolFairness ==
  /\ WF_poolVars(AddToPool \/ Promised \/ Filled \/ Joined)
  /\ WF_poolVars(AddMakes) /\ WF_poolVars(StopRuns)
  /\ \A c \in Ctx : WF_poolVars(Exit(c))
  /\ \A s \in Session :
       /\ WF_poolVars(SessStart(s)) /\ WF_poolVars(SessStop(s)) /\ WF_poolVars(SleepEnds(s))
       /\ WF_poolVars(owner = "client" /\ life[s] = "starting" /\ (Connects(s) \/ Breaks(s)))

PoolSpec == PoolInit /\ [][PoolNext]_poolVars
FairPoolSpec == PoolSpec /\ PoolFairness

-----------------------------------------------------------------------------
PoolTypeOK ==
  /\ owner \in Owners /\ caller \in Callers /\ isAsync \in BOOLEAN
  /\ phase \in {"made", "adding", "waiting", "running", "joining", "destroyed", "terminated"}
  /\ started \in BOOLEAN /\ guarded \in BOOLEAN
  /\ accepting \in BOOLEAN /\ stopPosted \in BOOLEAN
  /\ made \in 0 .. MaxSession /\ added \in Nat /\ awaited \in 0 .. MaxSession
  /\ thread \in [Ctx -> {"running", "exited"}]
  /\ life \in [Session -> {"none", "over"} \cup Alive]
  /\ tries \in [Session -> Nat]
  /\ failedOnce \subseteq Session /\ answered \subseteq Session
  /\ stops \subseteq Session /\ late \subseteq Session /\ spared \subseteq Session
  /\ adder \in Ctx \cup {None}

\* When the destructor goes on to destroy the contexts, every session has ended and
\* every posted stop has run, but for sessions that were made when the thread they were
\* given had already left: their start is destroyed unrun.
Quiet ==
  phase = "destroyed" =>
    /\ stops = {} /\ ~ stopPosted /\ adder = None
    /\ \A s \in Session : life[s] \in Alive => life[s] = "posted" /\ s \in late

\* The destructor returns, unless a session that no stop reached, because it was not
\* connected at that moment, is or gets connected: it holds its thread as long as the
\* peer likes.
JoinReturns ==
  phase = "joining" ~>
    phase = "destroyed" \/ \E s \in spared : life[s] \in {"starting", "up"}

\* A start that waits for its connections returns, unless it was called on the thread
\* that the session it waits for was given, or a handler stopped the client before the
\* loop was over: add then refuses, and nobody sets the promise.
StartReturns ==
  phase = "waiting" ~> phase # "waiting" \/ awaited = 0 \/ caller = CtxOf(awaited)
=============================================================================
