------------------------------ MODULE Pool_proofs ------------------------------
(* Proofs about the io pool: what a thread leaves behind when it ends. *)
EXTENDS Pool, TLAPS

\* A thread that has left io_context::run left nothing behind, and nothing reached it
\* since but sessions made too late.
ExitedIdle ==
  \A c \in Ctx : thread[c] = "exited" =>
    /\ ~ guarded
    /\ adder # c
    /\ \A s \in Session : CtxOf(s) = c =>
         s \notin stops /\ (life[s] \in Alive => life[s] = "posted" /\ s \in late)
    /\ c = 0 => ~ accepting /\ ~ stopPosted

\* The guards are reset by the destructor alone, which posts the server's stop.
Ending ==
  /\ ~ guarded => phase \in {"joining", "destroyed"}
  /\ phase \in {"joining", "destroyed"} /\ owner = "server" /\ started => stopPosted
  /\ phase = "destroyed" => \A c \in Ctx : thread[c] = "exited"

PoolIInv == PoolTypeOK /\ ExitedIdle /\ Ending

\* Every session is given a context of the pool.
LEMMA CtxInPool == ASSUME PoolAssumption PROVE \A s \in Session : CtxOf(s) \in Ctx
  BY DEF PoolAssumption, Session, CtxOf, Ctx

\* PoolIInv holds of the initial states.
LEMMA InitIInv == ASSUME PoolAssumption, PoolInit PROVE PoolIInv
  <1>1. isAsync \in BOOLEAN
    BY DEF PoolInit
  <1>2. made \in 0 .. MaxSession /\ awaited \in 0 .. MaxSession
    BY DEF PoolInit, PoolAssumption
  <1>3. PoolTypeOK
    BY <1>1, <1>2 DEF PoolInit, PoolTypeOK, Alive
  <1>4. ExitedIdle /\ Ending
    BY DEF PoolInit, ExitedIdle, Ending
  <1>5. QED
    BY <1>3, <1>4 DEF PoolIInv

\* A new session is one of Session.
LEMMA MakeType ==
  ASSUME PoolAssumption, PoolTypeOK, Make
  PROVE  /\ made' \in 0 .. MaxSession /\ made' \in Session
         /\ life' \in [Session -> {"none", "over"} \cup Alive]
         /\ late' \subseteq Session /\ spared' \subseteq Session
         /\ UNCHANGED <<tries, failedOnce, answered, stops>>
  <1>1. made' \in 0 .. MaxSession /\ made' \in Session
    BY DEF PoolAssumption, PoolTypeOK, Make, Session
  <1>2. life' \in [Session -> {"none", "over"} \cup Alive]
    BY <1>1 DEF PoolTypeOK, Make, Alive
  <1>3. late' \subseteq Session /\ spared' \subseteq Session
    BY <1>1 DEF PoolTypeOK, Make
  <1>4. QED
    BY <1>1, <1>2, <1>3 DEF Make

\* Every step keeps the type invariant.
LEMMA TypeStep ==
  ASSUME PoolAssumption, PoolTypeOK, [PoolNext]_poolVars
  PROVE  PoolTypeOK'
  <1> USE DEF PoolTypeOK, fixed, appVars, initVars, sessVars, madeVars, jobVars
  <1>1. CASE Start
    BY <1>1 DEF Start
  <1>2. CASE AddToPool
    <2>1. CASE started
      <3>1. Make /\ awaited' = made' /\ added' = added + 1
            /\ phase' \in {"adding", "waiting"}
            /\ UNCHANGED <<fixed, started, guarded, thread, jobVars>>
        BY <1>2, <2>1 DEF AddToPool
      <3>2. /\ made' \in 0 .. MaxSession
            /\ life' \in [Session -> {"none", "over"} \cup Alive]
            /\ late' \subseteq Session /\ spared' \subseteq Session
            /\ UNCHANGED <<tries, failedOnce, answered, stops>>
        BY <3>1, MakeType
      <3>3. QED
        BY <3>1, <3>2
    <2>2. CASE ~ started
      BY <1>2, <2>2 DEF AddToPool, PoolAssumption
    <2>3. QED
      BY <2>1, <2>2
  <1>3. CASE Promised \/ Filled \/ Joined
    BY <1>3 DEF Promised, Filled, Joined
  <1>4. CASE Stop \/ Destroy
    BY <1>4 DEF Stop, Destroy, OwnerStop, StopSessions, ResetGuards
  <1>5. CASE AddMakes \/ Accept
    <2>1. Make
      BY <1>5 DEF AddMakes, Accept
    <2>2. QED
      BY <1>5, <2>1, MakeType DEF AddMakes, Accept
  <1>6. CASE StopRuns
    BY <1>6 DEF StopRuns, StopSessions
  <1>7. ASSUME NEW c \in Ctx, Exit(c)
        PROVE  PoolTypeOK'
    BY <1>7 DEF Exit
  <1>8. ASSUME NEW s \in Session, AddChecks(s)
        PROVE  PoolTypeOK'
    BY <1>8, CtxInPool DEF AddChecks
  <1>9. ASSUME NEW s \in Session, SessStart(s) \/ Connects(s) \/ SleepEnds(s)
        PROVE  PoolTypeOK'
    BY <1>9 DEF SessStart, Connects, SleepEnds, Alive
  <1>10. ASSUME NEW s \in Session, Breaks(s)
         PROVE  PoolTypeOK'
    BY <1>10 DEF Breaks, Answers, Alive
  <1>11. ASSUME NEW s \in Session, SessStop(s)
         PROVE  PoolTypeOK'
    BY <1>11 DEF SessStop, Alive
  <1>12. CASE UNCHANGED poolVars
    BY <1>12 DEF poolVars
  <1>13. QED
    BY <1>1, <1>2, <1>3, <1>4, <1>5, <1>6, <1>7, <1>8, <1>9, <1>10, <1>11, <1>12
       DEF PoolNext, App, OfSession

-----------------------------------------------------------------------------
\* Every step keeps what is known of the phases.
LEMMA EndingStep ==
  ASSUME PoolAssumption, PoolIInv, [PoolNext]_poolVars
  PROVE  Ending'
  <1> USE DEF PoolIInv, PoolTypeOK, Ending, fixed, appVars, initVars, sessVars, madeVars,
              jobVars
  <1>1. CASE Start \/ AddToPool \/ Promised \/ Filled
    BY <1>1 DEF Start, AddToPool, Promised, Filled
  <1>2. CASE Stop
    <2>1. CASE owner = "client"
      BY <1>2, <2>1 DEF Stop, OwnerStop
    <2>2. CASE owner # "client"
      BY <1>2, <2>2 DEF Stop, OwnerStop
    <2>3. QED
      BY <2>1, <2>2
  <1>3. CASE Destroy
    <2>1. CASE owner = "client"
      BY <1>3, <2>1 DEF Destroy, OwnerStop, ResetGuards
    <2>2. CASE owner # "client"
      BY <1>3, <2>2 DEF Destroy, OwnerStop, ResetGuards
    <2>3. QED
      BY <2>1, <2>2
  <1>4. CASE Joined
    BY <1>4 DEF Joined
  <1>5. CASE AddMakes \/ Accept \/ StopRuns
    BY <1>5 DEF AddMakes, Accept, StopRuns
  <1>6. ASSUME NEW c \in Ctx, Exit(c)
        PROVE  Ending'
    BY <1>6 DEF Exit
  <1>7. ASSUME NEW s \in Session, OfSession(s)
        PROVE  Ending'
    BY <1>7 DEF OfSession, AddChecks, SessStart, Connects, Breaks, SleepEnds, SessStop
  <1>8. CASE UNCHANGED poolVars
    BY <1>8 DEF poolVars
  <1>9. QED
    BY <1>1, <1>2, <1>3, <1>4, <1>5, <1>6, <1>7, <1>8 DEF PoolNext, App

-----------------------------------------------------------------------------
\* A session made now is the one thing that can be left to a thread that has ended.
LEMMA MakeExited ==
  ASSUME PoolAssumption, PoolIInv, Make,
         UNCHANGED <<thread, guarded, stopPosted>>,
         adder' \in {adder, None}, accepting' = accepting
  PROVE  ExitedIdle'
  <1> SUFFICES ASSUME NEW c \in Ctx, thread[c] = "exited"
               PROVE  /\ ~ guarded
                      /\ adder' # c
                      /\ \A s \in Session : CtxOf(s) = c =>
                           s \notin stops' /\ (life'[s] \in Alive => life'[s] = "posted" /\ s \in late')
                      /\ c = 0 => ~ accepting /\ ~ stopPosted
    BY DEF ExitedIdle
  <1>1. ~ guarded /\ adder # c /\ (c = 0 => ~ accepting /\ ~ stopPosted)
    BY DEF PoolIInv, ExitedIdle
  <1>2. adder' # c
    BY <1>1 DEF PoolAssumption
  <1>3. ASSUME NEW s \in Session, CtxOf(s) = c
        PROVE  s \notin stops' /\ (life'[s] \in Alive => life'[s] = "posted" /\ s \in late')
    <2>1. s \notin stops /\ (life[s] \in Alive => life[s] = "posted" /\ s \in late)
      BY <1>3 DEF PoolIInv, ExitedIdle
    <2>2. late' = late \cup {made'} /\ stops' = stops /\ life' = [life EXCEPT ![made'] = "posted"]
      BY <1>1 DEF Make
    <2>3. CASE s = made'
      BY <2>1, <2>2, <2>3 DEF PoolIInv, PoolTypeOK
    <2>4. CASE s # made'
      BY <2>1, <2>2, <2>4 DEF PoolIInv, PoolTypeOK
    <2>5. QED
      BY <2>3, <2>4
  <1>4. QED
    BY <1>1, <1>2, <1>3

\* A stop is posted to no thread that has ended.
LEMMA StopsExited ==
  ASSUME PoolAssumption, PoolIInv, StopSessions, UNCHANGED <<thread, late>>
  PROVE  \A c \in Ctx : thread'[c] = "exited" =>
           \A s \in Session : CtxOf(s) = c =>
             s \notin stops' /\ (life'[s] \in Alive => life'[s] = "posted" /\ s \in late')
  BY DEF PoolIInv, ExitedIdle, StopSessions, Alive

\* Every step keeps a thread that has ended idle.
LEMMA ExitedStep ==
  ASSUME PoolAssumption, PoolIInv, [PoolNext]_poolVars
  PROVE  ExitedIdle'
  <1> USE DEF PoolIInv, fixed, appVars, initVars, sessVars, madeVars, jobVars
  <1>1. CASE Start
    <2>1. \A c \in Ctx : thread[c] # "exited"
      BY <1>1 DEF Start, ExitedIdle, Ending
    <2>2. QED
      BY <1>1, <2>1 DEF Start, ExitedIdle
  <1>2. CASE AddToPool
    <2>1. CASE started
      BY <1>2, <2>1, MakeExited DEF AddToPool
    <2>2. CASE ~ started
      BY <1>2, <2>2 DEF AddToPool, ExitedIdle
    <2>3. QED
      BY <2>1, <2>2
  <1>3. CASE Promised \/ Filled \/ Joined
    BY <1>3 DEF Promised, Filled, Joined, ExitedIdle
  <1>4. CASE Stop
    <2>1. CASE owner = "client"
      <3>1. CASE started
        BY <1>4, <2>1, <3>1, StopsExited DEF Stop, OwnerStop, ExitedIdle
      <3>2. CASE ~ started
        BY <1>4, <3>2 DEF Stop
      <3>3. QED
        BY <3>1, <3>2
    <2>2. CASE owner # "client"
      <3>1. owner = "server" /\ started
        BY <1>4, <2>2 DEF Stop, PoolTypeOK, PoolAssumption
      <3>2. 0 \in Ctx
        BY DEF PoolAssumption, Ctx
      <3>3. thread[0] # "exited"
        BY <3>1, <3>2 DEF ExitedIdle, Ending
      <3>4. QED
        BY <1>4, <2>2, <3>3 DEF Stop, OwnerStop, ExitedIdle
    <2>3. QED
      BY <2>1, <2>2
  <1>5. CASE Destroy
    <2>1. \A c \in Ctx : thread[c] # "exited"
      BY <1>5 DEF Destroy, ExitedIdle, Ending
    <2>2. QED
      BY <1>5, <2>1 DEF Destroy, ExitedIdle
  <1>6. CASE AddMakes
    BY <1>6, MakeExited DEF AddMakes
  <1>7. CASE Accept
    BY <1>7, MakeExited DEF Accept
  <1>8. CASE StopRuns
    <2>1. thread' = thread /\ late' = late /\ guarded' = guarded /\ adder' = adder
          /\ ~ accepting' /\ ~ stopPosted'
      BY <1>8 DEF StopRuns
    <2>2. CASE started
      <3>1. StopSessions
        BY <1>8, <2>2 DEF StopRuns
      <3>2. QED
        BY <2>1, <3>1, StopsExited DEF ExitedIdle
    <2>3. CASE ~ started
      BY <1>8, <2>1, <2>3 DEF StopRuns, ExitedIdle
    <2>4. QED
      BY <2>2, <2>3
  <1>9. ASSUME NEW d \in Ctx, Exit(d)
        PROVE  ExitedIdle'
    <2>1. thread' = [thread EXCEPT ![d] = "exited"] /\ ~ guarded /\ adder # d /\ Idle(d)
      BY <1>9 DEF Exit, Occupied
    <2>2. QED
      BY <1>9, <2>1 DEF Exit, Idle, ExitedIdle, PoolTypeOK
  <1>10. ASSUME NEW s \in Session, AddChecks(s)
         PROVE  ExitedIdle'
    BY <1>10 DEF AddChecks, Runs, Occupied, ExitedIdle
  <1>11. ASSUME NEW s \in Session, SessStart(s) \/ Connects(s) \/ Breaks(s)
                                   \/ SleepEnds(s) \/ SessStop(s)
         PROVE  ExitedIdle'
    <2>1. thread[CtxOf(s)] # "exited"
      BY <1>11 DEF SessStart, Connects, Breaks, SleepEnds, SessStop, Runs, Occupied
    <2>2. /\ \A r \in Session \ {s} : life'[r] = life[r]
          /\ stops' \subseteq stops
          /\ UNCHANGED <<thread, guarded, adder, accepting, stopPosted, late>>
      BY <1>11 DEF SessStart, Connects, Breaks, SleepEnds, SessStop, PoolTypeOK
    <2>3. QED
      BY <2>1, <2>2 DEF ExitedIdle
  <1>12. CASE UNCHANGED poolVars
    BY <1>12 DEF poolVars, ExitedIdle
  <1>13. QED
    BY <1>1, <1>2, <1>3, <1>4, <1>5, <1>6, <1>7, <1>8, <1>9, <1>10, <1>11, <1>12
       DEF PoolNext, App, OfSession

-----------------------------------------------------------------------------
\* The pool's invariant holds in every state.
LEMMA PoolInvariant == ASSUME PoolAssumption PROVE PoolSpec => []PoolIInv
  <1>1. PoolInit => PoolIInv
    BY InitIInv
  <1>2. PoolIInv /\ [PoolNext]_poolVars => PoolIInv'
    BY TypeStep, EndingStep, ExitedStep DEF PoolIInv
  <1>3. QED
    BY <1>1, <1>2, PTL DEF PoolSpec

\* The pool's variables keep their types, however many contexts and sessions there are
\* and whatever the application calls.
THEOREM PoolTypes == PoolSpec => []PoolTypeOK
  <1>1. PoolIInv => PoolTypeOK
    BY DEF PoolIInv
  <1>2. QED
    BY <1>1, PoolAssumption, PoolInvariant, PTL

\* No destructor that returns destroys a context on which a session runs or a stop waits
\* (iopool.hpp stop, client.hpp and server.hpp destructors), but for the start of a
\* session that was made too late.
THEOREM NothingLeftRunning == PoolSpec => []Quiet
  <1>1. PoolAssumption /\ PoolIInv => Quiet
    <2> SUFFICES ASSUME PoolAssumption, PoolIInv, phase = "destroyed"
                 PROVE  /\ stops = {} /\ ~ stopPosted /\ adder = None
                        /\ \A s \in Session : life[s] \in Alive => life[s] = "posted" /\ s \in late
      BY DEF Quiet
    <2>1. \A c \in Ctx : thread[c] = "exited"
      BY DEF PoolIInv, Ending
    <2>2. 0 \in Ctx
      BY DEF PoolAssumption, Ctx
    <2>3. ~ stopPosted /\ adder = None
      BY <2>1, <2>2 DEF PoolIInv, PoolTypeOK, ExitedIdle
    <2>4. \A s \in Session : s \notin stops /\ (life[s] \in Alive => life[s] = "posted" /\ s \in late)
      BY <2>1, CtxInPool DEF PoolIInv, ExitedIdle
    <2>5. QED
      BY <2>3, <2>4 DEF PoolIInv, PoolTypeOK
  <1>2. QED
    BY <1>1, PoolAssumption, PoolInvariant, PTL
=============================================================================
