-------------------------------- MODULE Timer --------------------------------
(***************************************************************************)
(* bnet::Timer (bnet/base/timer.hpp). Each call of start spawns a          *)
(* coroutine start_t on the timer's io_context; all of them share one      *)
(* steady_timer and one cancel flag. Calls of start and stop are made on   *)
(* the thread of that io_context (steady_timer is not thread-safe).        *)
(***************************************************************************)
EXTENDS Integers

CONSTANTS
  IsLoop,       \* the template parameter of start
  Interval,     \* the interval passed to start
  Starter,      \* the calls of start
  MaxClock,     \* bound on the time that passes
  MaxCalls      \* bound on the calls of the callback

ASSUME TimerAssumption ==
  /\ IsLoop \in BOOLEAN
  /\ Interval \in Nat \ {0}
  /\ MaxClock \in Nat /\ MaxCalls \in Nat

VARIABLES
  now,              \* time since the timer was constructed
  expiry,           \* timer_.expiry()
  timer_canceled_,
  pc,               \* where each start_t is
  calls,            \* calls of the callback
  gaveUp,           \* the callback returned false
  stopped           \* history: stop was called; no action reads it

timerVars == <<now, expiry, timer_canceled_, pc, calls, gaveUp, stopped>>

\* "over": the wait expired or was cancelled, start_t has not resumed yet.
Loc == {"idle", "posted", "waiting", "over", "done"}

TimerInit ==
  /\ now = 0 /\ expiry = 0
  /\ timer_canceled_ = FALSE
  /\ pc = [i \in Starter |-> "idle"]
  /\ calls = 0
  /\ gaveUp = FALSE /\ stopped = FALSE

\* start does not touch the cancel flag: the line that cleared it is commented out.
\* Mutant: it clears it.
StartClears(i) ==
  /\ pc[i] = "idle"
  /\ pc' = [pc EXCEPT ![i] = "posted"]
  /\ timer_canceled_' = FALSE
  /\ UNCHANGED <<now, expiry, calls, gaveUp, stopped>>
Start(i) ==
  /\ pc[i] = "idle"
  /\ pc' = [pc EXCEPT ![i] = "posted"]
  /\ UNCHANGED <<now, expiry, timer_canceled_, calls, gaveUp, stopped>>

\* expires_at(expiry() + interval) cancels every pending wait on the timer; then
\* start_t i waits. Mutants: the next expiry counts from now, or stays as it is.
ArmFromNow(i) ==
  /\ expiry' = now + Interval
  /\ pc' = [j \in Starter |-> IF j = i THEN "waiting"
                              ELSE IF pc[j] = "waiting" THEN "over" ELSE pc[j]]
ArmAtOnce(i) ==
  /\ expiry' = expiry
  /\ pc' = [j \in Starter |-> IF j = i THEN "waiting"
                              ELSE IF pc[j] = "waiting" THEN "over" ELSE pc[j]]
Arm(i) ==
  /\ expiry' = expiry + Interval
  /\ pc' = [j \in Starter |-> IF j = i THEN "waiting"
                              ELSE IF pc[j] = "waiting" THEN "over" ELSE pc[j]]

\* start_t enters its loop, which is "while (IsLoop)".
Enter(i) ==
  /\ pc[i] = "posted"
  /\ IF IsLoop THEN Arm(i)
               ELSE pc' = [pc EXCEPT ![i] = "done"] /\ UNCHANGED expiry
  /\ UNCHANGED <<now, timer_canceled_, calls, gaveUp, stopped>>

Expire(i) ==
  /\ pc[i] = "waiting"
  /\ now >= expiry
  /\ pc' = [pc EXCEPT ![i] = "over"]
  /\ UNCHANGED <<now, expiry, timer_canceled_, calls, gaveUp, stopped>>

Tick ==
  /\ now < MaxClock
  /\ now' = now + 1
  /\ UNCHANGED <<expiry, timer_canceled_, pc, calls, gaveUp, stopped>>

\* The wait is over: leave when the timer was stopped; otherwise call the callback,
\* whatever ended the wait, and leave when it returns false.
Call(i) ==
  /\ calls < MaxCalls
  /\ calls' = calls + 1
  /\ \/ Arm(i) /\ UNCHANGED gaveUp
     \/ /\ pc' = [pc EXCEPT ![i] = "done"]
        /\ gaveUp' = TRUE
        /\ UNCHANGED expiry

Resume(i) ==
  /\ pc[i] = "over"
  /\ \/ /\ timer_canceled_
        /\ pc' = [pc EXCEPT ![i] = "done"]
        /\ UNCHANGED <<expiry, calls, gaveUp>>
     \/ ~ timer_canceled_ /\ Call(i)
  /\ UNCHANGED <<now, timer_canceled_, stopped>>

Stop ==
  /\ timer_canceled_' = TRUE
  /\ stopped' = TRUE
  /\ pc' = [i \in Starter |-> IF pc[i] = "waiting" THEN "over" ELSE pc[i]]
  /\ UNCHANGED <<now, expiry, calls, gaveUp>>

TimerNext ==
  \/ Tick \/ Stop
  \/ \E i \in Starter : Start(i) \/ Enter(i) \/ Expire(i) \/ Resume(i)

\* Time passes, waits end, and the io_context runs what is ready.
TimerFairness ==
  /\ WF_timerVars(Tick)
  /\ \A i \in Starter : WF_timerVars(Enter(i) \/ Expire(i) \/ Resume(i))

TimerSpec == TimerInit /\ [][TimerNext]_timerVars
FairTimerSpec == TimerSpec /\ TimerFairness

-----------------------------------------------------------------------------
TimerTypeOK ==
  /\ now \in 0 .. MaxClock
  /\ expiry \in Nat
  /\ timer_canceled_ \in BOOLEAN /\ gaveUp \in BOOLEAN /\ stopped \in BOOLEAN
  /\ pc \in [Starter -> Loc]
  /\ calls \in 0 .. MaxCalls

Started == {i \in Starter : pc[i] # "idle"}

\* A timer that was started once keeps its schedule: the k-th call is never made
\* before k intervals passed since the timer was constructed. (A second start
\* cancels the first one's wait, and a cancelled wait calls the callback at once.)
OnSchedule == (\A i, j \in Started : i = j) => calls * Interval <= now

(***************************************************************************)
(* The inductive invariant: a timer that was stopped has its flag set; one *)
(* wait is pending at most; and while there is one start_t only, each of   *)
(* its calls had its own expiry.                                           *)
(***************************************************************************)
TimerIInv ==
  /\ TimerTypeOK
  /\ stopped => timer_canceled_
  /\ \A i, j \in Starter : pc[i] = "waiting" /\ pc[j] = "waiting" => i = j
  /\ (\A i, j \in Started : i = j) =>
       /\ calls * Interval <= now
       /\ \A i \in Starter :
            /\ pc[i] \in {"idle", "posted"} => Started \ {i} # {} \/ (calls = 0 /\ expiry = 0)
            /\ pc[i] \in {"waiting", "over"} => expiry = calls * Interval + Interval
            /\ pc[i] = "over" => timer_canceled_ \/ expiry <= now

\* stop is final: once it was called the callback is never called again, neither by a
\* start_t whose wait had expired before nor by one that is started afterwards.
NoCallAfterStop == [][stopped => calls' = calls]_timerVars

\* A running timer catches up: however late its coroutine resumes, every interval
\* that passed gets its call, unless the timer is stopped or the callback ends it.
EveryInterval ==
  IsLoop => \A i \in Starter :
    pc[i] = "posted" ~> timer_canceled_ \/ gaveUp \/ calls >= MaxClock \div Interval

\* The "once call" of a timer started with IsLoop = false: the callback is called,
\* unless the timer is stopped.
CalledOnce == \A i \in Starter : pc[i] = "posted" ~> timer_canceled_ \/ calls = 1
=============================================================================
