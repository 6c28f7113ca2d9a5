---------------------------- MODULE TimersProofs ----------------------------
(***************************************************************************)
(* Proofs about the clock of the event bus thread, for all periods, loads  *)
(* and numbers of stalls: types, and that epoll_wait never sleeps past the *)
(* next due time by more than the work of the round.  With what            *)
(* AudioThreadProofs says of the other clock it holds of both side by side *)
(* (Timers).                                                               *)
(***************************************************************************)
EXTENDS Timers, AudioThreadProofs

-----------------------------------------------------------------------------
(* The timeout of epoll_wait.                                              *)

\* Whole milliseconds in a time: none more than it has.
LEMMA WholeMilliseconds ==
  ASSUME NEW x \in Int, NEW m \in Nat \ {0}
  PROVE  /\ (x \div m) * m \in Int
         /\ (x \div m) * m <= x
         /\ x >= 0 => (x \div m) * m >= 0
<1>1. x = m * (x \div m) + (x % m) /\ x % m \in 0..(m - 1) /\ x \div m \in Int
  OBVIOUS
<1>2. (x \div m) * m = x - (x % m)
  BY <1>1
<1>3. x >= 0 => x \div m >= 0
  OBVIOUS
<1>4. x >= 0 => (x \div m) * m >= 0
  BY <1>1, <1>3
<1> QED BY <1>1, <1>2, <1>4

\* The timeout is zero once a report is due and never longer than the time left.
LEMMA TimeoutInTime ==
  ASSUME NEW lag \in Int
  PROVE  /\ Timeout(lag) \in Nat
         /\ Timeout(lag) > 0 => lag + Timeout(lag) <= 0
<1> DEFINE w == ((0 - lag) \div Millisecond) * Millisecond
<1>1. w \in Int /\ w <= 0 - lag
  BY WholeMilliseconds, UsbPeriodAssumption
<1>2. Timeout(lag) = Max({0, w})
  BY DEF Timeout
<1> HIDE DEF w
<1>3. Timeout(lag) = IF w >= 0 THEN w ELSE 0
  BY <1>1, <1>2, MaxOfTwo
<1> QED BY <1>1, <1>3

-----------------------------------------------------------------------------

\* While the round has not yet decided what to wait for, its look at the clock
\* is as old as part of its work, and the lag it saw is not before the last
\* report's due time.
LookIsRecent ==
  pacerPc = "pace" => sampledAgo <= work /\ usbLag - sampledAgo >= -UsbPeriod

\* WakesInTime is inductive once it is known how old the look can be.
PacerInv == PacerTypeOK /\ LookIsRecent /\ WakesInTime

LEMMA PacerInitInv == PacerInit => PacerInv
  BY UsbPeriodAssumption, WorkAssumption
     DEF PacerInit, PacerInv, PacerTypeOK, LookIsRecent, WakesInTime, Sleeping

\* A sleep that ends in time as the round saw it ends in time by the clock.
LEMMA SleepInTime ==
  ASSUME NEW lag \in Int, NEW age \in 0..RoundWork, NEW sleep \in Nat,
         sleep > 0 => lag + sleep <= 0, lag >= -UsbPeriod
  PROVE  /\ sleep \in 0..UsbPeriod
         /\ sleep > 0 => lag + age + sleep <= RoundWork
<1>1. age \in Int /\ RoundWork \in Int /\ age <= RoundWork /\ UsbPeriod \in Nat
  BY WorkAssumption, UsbPeriodAssumption
<1> QED BY <1>1

\* Before epoll_wait the lag the timeout is computed from is not more than the
\* round's work behind the true one.
LEMMA EnterWaitInTime ==
  ASSUME PacerTypeOK, NEW lag \in Int, NEW age \in 0..RoundWork,
         EnterWait(lag), lag >= -UsbPeriod, usbLag' = lag + age
  PROVE  PacerInv'
<1>1. /\ sleepLeft' \in Nat
      /\ sleepLeft' > 0 => lag + sleepLeft' <= 0
  BY TimeoutInTime DEF EnterWait
<1>2. /\ sleepLeft' \in 0..UsbPeriod
      /\ sleepLeft' > 0 => lag + age + sleepLeft' <= RoundWork
  BY <1>1, SleepInTime
<1>3. WakesInTime'
  BY <1>2 DEF WakesInTime, Sleeping
<1>4. usbLag' \in Int /\ usbLag' >= -UsbPeriod
  BY WorkAssumption, UsbPeriodAssumption
<1> QED
  BY <1>2, <1>3, <1>4, WorkAssumption
     DEF PacerInv, PacerTypeOK, LookIsRecent, EnterWait

LEMMA PacerStepInv == PacerInv /\ [PacerNext]_pacerVars => PacerInv'
<1> SUFFICES ASSUME PacerInv, [PacerNext]_pacerVars PROVE PacerInv'
  OBVIOUS
<1> USE UsbPeriodAssumption, WorkAssumption
<1>1. CASE LookAtClock
  BY <1>1 DEF PacerInv, PacerTypeOK, LookIsRecent, WakesInTime, Sleeping,
              LookAtClock
<1>2. CASE SendDueReport
  <2>1. usbLag' = usbLag - UsbPeriod /\ EnterWait(SampledLag - UsbPeriod)
    BY <1>2 DEF SendDueReport, NextSend
  <2>2. /\ usbLag \in Int /\ sampledAgo \in 0..RoundWork
        /\ SampledLag = usbLag - sampledAgo /\ SampledLag >= 0
    BY <1>2 DEF PacerInv, PacerTypeOK, SampledLag, SendDueReport
  <2>3. SampledLag - UsbPeriod \in Int /\ SampledLag - UsbPeriod >= -UsbPeriod
    BY <2>2
  <2>4. usbLag' = SampledLag - UsbPeriod + sampledAgo
    BY <2>1, <2>2
  <2> QED BY <2>1, <2>2, <2>3, <2>4, EnterWaitInTime DEF PacerInv
<1>3. CASE NothingDue
  <2>1. usbLag' = usbLag /\ EnterWait(SampledLag)
    BY <1>3 DEF NothingDue
  <2>2. /\ usbLag \in Int /\ sampledAgo \in 0..RoundWork
        /\ SampledLag = usbLag - sampledAgo /\ SampledLag >= -UsbPeriod
    BY <1>3 DEF PacerInv, PacerTypeOK, LookIsRecent, SampledLag, NothingDue
  <2>3. SampledLag \in Int /\ usbLag' = SampledLag + sampledAgo
    BY <2>1, <2>2
  <2> QED BY <2>1, <2>2, <2>3, EnterWaitInTime DEF PacerInv
<1>4. CASE TimedOut
  BY <1>4 DEF PacerInv, PacerTypeOK, LookIsRecent, WakesInTime, Sleeping,
              TimedOut
<1>5. CASE Woken
  BY <1>5 DEF PacerInv, PacerTypeOK, LookIsRecent, WakesInTime, Sleeping, Woken
<1>6. CASE Handled
  BY <1>6 DEF PacerInv, PacerTypeOK, LookIsRecent, WakesInTime, Sleeping,
              Handled
<1>7. CASE Stall
  BY <1>7 DEF PacerInv, PacerTypeOK, LookIsRecent, WakesInTime, Sleeping, Stall
<1>8. CASE PacerTick
  <2>1. CASE Sleeping
    BY <1>8, <2>1 DEF PacerInv, PacerTypeOK, LookIsRecent, WakesInTime,
                      Sleeping, PacerTick
  <2>2. CASE ~Sleeping
    BY <1>8, <2>2 DEF PacerInv, PacerTypeOK, LookIsRecent, WakesInTime,
                      Sleeping, PacerTick
  <2> QED BY <2>1, <2>2
<1>9. CASE UNCHANGED pacerVars
  BY <1>9 DEF PacerInv, PacerTypeOK, LookIsRecent, WakesInTime, Sleeping,
              pacerVars
<1> QED
  BY <1>1, <1>2, <1>3, <1>4, <1>5, <1>6, <1>7, <1>8, <1>9
     DEF PacerNext, PacerStep

\* The event bus thread's clock stays within its types, and its timeout never
\* makes it oversleep the next USB report by more than a round's work.
THEOREM PacerInvariance == PacerSpec => []PacerInv
<1> QED BY PacerInitInv, PacerStepInv, PTL DEF PacerSpec

\* epoll_wait in event_bus ends before the next USB report is late by more than
\* the work of the round, for all periods, clock resolutions, loads and stalls.
THEOREM WakesInTimeAlways == PacerSpec => []WakesInTime
<1>1. PacerInv => WakesInTime
  BY DEF PacerInv
<1> QED BY <1>1, PacerInvariance, PTL

-----------------------------------------------------------------------------
(* Both clocks.                                                            *)

\* A step of Timers is one of the thread that is shown and leaves the other
\* thread's clock alone.
LEMMA BothClocks == Spec => AudioSpec /\ PacerSpec
<1>1. Init => AudioInit /\ PacerInit
  BY DEF Init
<1>2. [Next]_vars => [AudioNext]_audioVars /\ [PacerNext]_pacerVars
  BY DEF Next, vars
<1> QED BY <1>1, <1>2, PTL DEF Spec, AudioSpec, PacerSpec

\* Every variable of both clocks keeps to its type.
THEOREM TypeCorrect == Spec => []TypeOK
<1>1. AudioInv /\ PacerInv => TypeOK
  BY DEF AudioInv, PacerInv, TypeOK
<1> QED BY <1>1, BothClocks, AudioInvariance, PacerInvariance, PTL

\* What holds of either thread by itself holds of both side by side, for all
\* values of the constants.
THEOREM TimersSafe ==
  Spec => /\ [](SpeakerFollowsHaptics /\ LeftoverAtMostOnce)
          /\ [](ToneCatchUpBounded /\ WakesInTime)
          /\ KeepalivesSpaced
<1> QED
  BY BothClocks, SpeakerAlwaysFollows, LeftoverAlwaysOnce, CatchUpBounded,
     WakesInTimeAlways, KeepalivesAlwaysSpaced, PTL
=============================================================================
