----------------------------- MODULE Timer_proofs -----------------------------
(***************************************************************************)
(* Proofs about the timer: its inductive invariant for every interval and  *)
(* every set of starters, the schedule that follows, and that stop is      *)
(* final.                                                                  *)
(***************************************************************************)
EXTENDS Timer, TLAPS

\* The first call adds one interval: the only arithmetic the schedule needs.
LEMMA NextCall ==
  ASSUME NEW n \in Nat
  PROVE  /\ (n + 1) * Interval = n * Interval + Interval
         /\ n * Interval \in Nat
         /\ 0 * Interval = 0
BY TimerAssumption, SMT

\* The types are inductive by themselves.
LEMMA TimerTypeNext ==
  ASSUME TimerTypeOK, [TimerNext]_timerVars
  PROVE  TimerTypeOK'
<1> USE TimerAssumption DEF TimerTypeOK, Loc
<1>1. CASE Tick
  BY <1>1 DEF Tick
<1>2. CASE Stop
  BY <1>2 DEF Stop
<1>3. CASE \E i \in Starter : Start(i) \/ Enter(i) \/ Expire(i)
  BY <1>3 DEF Start, Enter, Expire, Arm
<1>4. ASSUME NEW i \in Starter, Resume(i)
      PROVE  TimerTypeOK'
  <2>1. UNCHANGED <<now, timer_canceled_, stopped>>
    BY <1>4 DEF Resume
  <2>2. calls' \in 0 .. MaxCalls
    BY <1>4 DEF Resume, Call
  <2>5. expiry' \in Nat
    BY <1>4 DEF Resume, Call, Arm
  <2>6. gaveUp' \in BOOLEAN
    BY <1>4, Zenon DEF Resume, Call
  <2>3. pc' \in [Starter -> Loc]
    BY <1>4 DEF Resume, Call, Arm
  <2>4. QED
    BY <2>1, <2>2, <2>3, <2>5, <2>6
<1>5. CASE UNCHANGED timerVars
  BY <1>5 DEF timerVars
<1>6. QED
  BY <1>1, <1>2, <1>3, <1>4, <1>5 DEF TimerNext

\* At most one wait is pending: arming the timer cancels the others.
OneWait == \A i, j \in Starter : pc[i] = "waiting" /\ pc[j] = "waiting" => i = j

LEMMA OneWaitNext ==
  ASSUME TimerTypeOK, OneWait, [TimerNext]_timerVars
  PROVE  OneWait'
<1> USE DEF TimerTypeOK, OneWait
<1>1. CASE Tick
  BY <1>1 DEF Tick
<1>2. CASE Stop
  BY <1>2 DEF Stop
<1>3. CASE \E i \in Starter : Start(i) \/ Enter(i) \/ Expire(i)
  BY <1>3 DEF Start, Enter, Expire, Arm
<1>4. CASE \E i \in Starter : Resume(i)
  BY <1>4 DEF Resume, Call, Arm
<1>5. CASE UNCHANGED timerVars
  BY <1>5 DEF timerVars
<1>6. QED
  BY <1>1, <1>2, <1>3, <1>4, <1>5 DEF TimerNext

\* A start_t never becomes idle again: who was alone is alone no longer, or still.
LEMMA StartedGrows ==
  ASSUME TimerTypeOK, [TimerNext]_timerVars
  PROVE  Started \subseteq Started'
BY DEF TimerTypeOK, Loc, Started, TimerNext, timerVars, Tick, Stop, Start, Enter,
       Expire, Resume, Call, Arm

\* The schedule of a timer with one start_t.
Schedule ==
  (\A i, j \in Started : i = j) =>
    /\ calls * Interval <= now
    /\ \A i \in Starter :
         /\ pc[i] \in {"idle", "posted"} => Started \ {i} # {} \/ (calls = 0 /\ expiry = 0)
         /\ pc[i] \in {"waiting", "over"} => expiry = calls * Interval + Interval
         /\ pc[i] = "over" => timer_canceled_ \/ expiry <= now

LEMMA ScheduleNext ==
  ASSUME TimerTypeOK, Schedule, [TimerNext]_timerVars
  PROVE  Schedule'
<1> USE TimerAssumption DEF TimerTypeOK
<1>0. SUFFICES ASSUME \A i, j \in Started' : i = j
               PROVE  Schedule'
  BY DEF Schedule
<1>a. \A i, j \in Started : i = j
  BY <1>0, StartedGrows
<1>b. /\ calls * Interval <= now
      /\ calls * Interval \in Nat
      /\ (calls + 1) * Interval = calls * Interval + Interval
  BY <1>a, NextCall DEF Schedule
<1>c. \A i \in Starter :
        /\ pc[i] \in {"idle", "posted"} => Started \ {i} # {} \/ (calls = 0 /\ expiry = 0)
        /\ pc[i] \in {"waiting", "over"} => expiry = calls * Interval + Interval
        /\ pc[i] = "over" => timer_canceled_ \/ expiry <= now
  BY <1>a DEF Schedule
<1>1. CASE Tick
  BY <1>1, <1>b, <1>c DEF Tick, Schedule, Started
<1>2. CASE Stop
  BY <1>2, <1>b, <1>c DEF Stop, Schedule, Started
<1>3. ASSUME NEW i \in Starter, Start(i)
      PROVE  Schedule'
  BY <1>0, <1>3, <1>b, <1>c DEF Start, Schedule, Started
<1>4. ASSUME NEW i \in Starter, Enter(i)
      PROVE  Schedule'
  <2>1. i \in Started /\ Started = {i}
    BY <1>a, <1>4 DEF Enter, Started
  <2>2. calls = 0 /\ expiry = 0
    BY <2>1, <1>4, <1>c DEF Enter
  <2>3. calls * Interval = 0
    BY <2>2, NextCall
  <2>4. \A j \in Starter \ {i} : pc[j] = "idle" /\ pc'[j] = "idle"
    BY <2>1, <1>4 DEF Enter, Arm, Started
  <2>5. i \in Started'
    BY <1>4 DEF Enter, Arm, Started
  <2>6. QED
    BY <1>4, <1>b, <2>2, <2>3, <2>4, <2>5 DEF Enter, Arm, Schedule
<1>5. ASSUME NEW i \in Starter, Expire(i)
      PROVE  Schedule'
  BY <1>5, <1>b, <1>c DEF Expire, Schedule, Started
<1>6. ASSUME NEW i \in Starter, Resume(i)
      PROVE  Schedule'
  <2>1. i \in Started /\ Started = {i}
    BY <1>a, <1>6 DEF Resume, Started
  <2>2. \A j \in Starter \ {i} : pc[j] = "idle" /\ pc'[j] = "idle"
    BY <2>1, <1>6 DEF Resume, Call, Arm, Started
  <2>3. i \in Started'
    BY <1>6 DEF Resume, Call, Arm, Started
  <2>4. CASE timer_canceled_
    BY <1>6, <2>4, <1>b, <2>2, <2>3 DEF Resume, Call, Schedule
  <2>5. CASE ~ timer_canceled_
    <3>1. expiry = calls * Interval + Interval /\ expiry <= now
      BY <1>6, <2>5, <1>c DEF Resume
    <3>2. calls' = calls + 1
      BY <1>6, <2>5 DEF Resume, Call
    <3>3. calls' * Interval = expiry
      BY <3>1, <3>2, <1>b
    <3>4. now' = now
      BY <1>6 DEF Resume
    <3>5. \/ pc'[i] = "waiting" /\ expiry' = expiry + Interval
          \/ pc'[i] = "done"
      BY <1>6, <2>5 DEF Resume, Call, Arm
    <3>6. QED
      BY <2>2, <2>3, <3>1, <3>3, <3>4, <3>5 DEF Schedule
  <2>6. QED
    BY <2>4, <2>5
<1>7. CASE UNCHANGED timerVars
  BY <1>7, <1>b, <1>c DEF timerVars, Schedule, Started
<1>8. QED
  BY <1>1, <1>2, <1>3, <1>4, <1>5, <1>6, <1>7 DEF TimerNext

\* The cancel flag remembers a stop: no later start, call or stop clears it.
Remembered == stopped => timer_canceled_

LEMMA RememberedNext ==
  ASSUME Remembered, [TimerNext]_timerVars
  PROVE  Remembered'
BY DEF Remembered, TimerNext, timerVars, Tick, Stop, Start, Enter, Expire, Resume

LEMMA TimerInvIs == TimerIInv <=> TimerTypeOK /\ Remembered /\ OneWait /\ Schedule
BY DEF TimerIInv, Remembered, OneWait, Schedule

\* The inductive invariant holds for every interval and any number of calls of
\* start and stop (timer.hpp, start, start_t and stop).
THEOREM TimerInvariantHolds == TimerSpec => []TimerIInv
<1>1. TimerInit => TimerIInv
  <2> SUFFICES ASSUME TimerInit PROVE TimerIInv
    OBVIOUS
  <2>1. TimerTypeOK
    <3>1. now \in 0 .. MaxClock /\ expiry \in Nat /\ calls \in 0 .. MaxCalls
      BY TimerAssumption DEF TimerInit
    <3>2. /\ timer_canceled_ \in BOOLEAN /\ gaveUp \in BOOLEAN /\ stopped \in BOOLEAN
          /\ pc \in [Starter -> Loc]
      BY Zenon DEF TimerInit, Loc
    <3>3. QED
      BY <3>1, <3>2 DEF TimerTypeOK
  <2>4. OneWait
    BY DEF TimerInit, OneWait
  <2>2. calls * Interval = 0 /\ calls = 0 /\ now = 0 /\ expiry = 0
    BY NextCall DEF TimerInit
  <2>3. Schedule
    BY <2>2 DEF TimerInit, Schedule
  <2>5. Remembered
    BY DEF TimerInit, Remembered
  <2>6. QED
    BY <2>1, <2>4, <2>3, <2>5, TimerInvIs
<1>2. TimerIInv /\ [TimerNext]_timerVars => TimerIInv'
  <2> SUFFICES ASSUME TimerIInv, [TimerNext]_timerVars PROVE TimerIInv'
    OBVIOUS
  <2>1. TimerTypeOK /\ Remembered /\ OneWait /\ Schedule
    BY TimerInvIs
  <2>2. TimerTypeOK' /\ Remembered' /\ OneWait' /\ Schedule'
    BY <2>1, TimerTypeNext, RememberedNext, OneWaitNext, ScheduleNext
  <2>3. QED
    BY <2>2 DEF TimerIInv, Remembered, OneWait, Schedule
<1>3. QED
  BY <1>1, <1>2, PTL DEF TimerSpec

\* A timer that was started once never calls back ahead of its schedule: the k-th
\* call waits for the k-th expiry (timer.hpp, expires_at(expiry() + interval)).
THEOREM OnScheduleHolds == TimerSpec => []OnSchedule
<1>1. TimerIInv => OnSchedule
  BY DEF TimerIInv, OnSchedule
<1>2. QED
  BY <1>1, TimerInvariantHolds, PTL

\* Once stop was called the callback is never called again, by no start_t that still
\* waits or is about to resume and by none that is started later: start leaves the flag
\* that stop set (timer.hpp, stop, start and start_t).
THEOREM NoCallAfterStopHolds == TimerSpec => NoCallAfterStop
<1>1. TimerIInv /\ [TimerNext]_timerVars => [stopped => calls' = calls]_timerVars
  <2> SUFFICES ASSUME TimerIInv, TimerNext, stopped
               PROVE  calls' = calls
    BY DEF timerVars
  <2>1. timer_canceled_
    BY DEF TimerIInv
  <2>2. QED
    BY <2>1 DEF TimerNext, Tick, Stop, Start, Enter, Expire, Resume
<1>2. QED
  BY <1>1, TimerInvariantHolds, PTL DEF TimerSpec, NoCallAfterStop
=============================================================================
