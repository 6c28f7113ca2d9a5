------------------------------ MODULE UsbPacer ------------------------------
(***************************************************************************)
(* The clock of the event bus thread (event_bus in src/main.cpp): a USB    *)
(* input report is due every UsbPeriod, a round of the loop sends at most  *)
(* one, and epoll_wait sleeps until the next is due.  nextSendTime only    *)
(* ever moves by whole periods, so that reports missed during a stall are  *)
(* made up for, and the timeout is computed from the time at which the     *)
(* round looked at the clock and truncated to milliseconds.                *)
(*                                                                         *)
(* Time is relative: usbLag is how long nextSendTime has passed, negative  *)
(* while it lies ahead.                                                    *)
(***************************************************************************)
EXTENDS Integers, FiniteSetsExt

CONSTANTS
  UsbPeriod,    \* kUsbSendPeriod, in ticks
  Millisecond,  \* ticks in a millisecond
  RoundWork,    \* bound: ticks a round takes when it is not asleep
  StallLength,  \* ticks of a stall: a handler that blocks, a busy machine
  MaxStalls     \* bound: how often that happens

ASSUME UsbPeriodAssumption ==
  UsbPeriod \in Nat \ {0} /\ Millisecond \in Nat \ {0}
ASSUME WorkAssumption ==
  RoundWork \in 0..(UsbPeriod - 1) /\ StallLength \in Nat /\ MaxStalls \in Nat

VARIABLES
  pacerPc,      \* "top", "pace", "wait" or "handle"
  usbLag,
  sampledAgo,   \* ticks since the round looked at the clock
  sleepLeft,    \* what is left of the timeout of epoll_wait
  work,         \* ticks this round has not slept
  stalls

pacerVars == <<pacerPc, usbLag, sampledAgo, sleepLeft, work, stalls>>

-----------------------------------------------------------------------------

\* The lag as the round sees it.
SampledLag == usbLag - sampledAgo

\* Mutant: the remaining time is rounded up.
TimeoutRoundedUp(lag) ==
  Max({0, ((Millisecond - 1 - lag) \div Millisecond) * Millisecond})

\* Mutant: the loop always sleeps for a period.
TimeoutOfAPeriod(lag) == UsbPeriod

\* timeout_ms, for a next report that is due after -lag ticks.
Timeout(lag) == Max({0, ((0 - lag) \div Millisecond) * Millisecond})

\* Health checks and the drain are done; the round looks at the clock.
LookAtClock ==
  /\ pacerPc = "top"
  /\ sampledAgo' = 0
  /\ pacerPc' = "pace"
  /\ UNCHANGED <<usbLag, sleepLeft, work, stalls>>

EnterWait(lag) ==
  /\ sleepLeft' = Timeout(lag)
  /\ work' = 0 /\ sampledAgo' = 0
  /\ pacerPc' = "wait"
  /\ UNCHANGED stalls

\* The lag once nextSendTime has moved on by a period.
NextSend == usbLag - UsbPeriod

\* A report is due: it is sent, and the next is due a period after it was due.
SendDueReport ==
  /\ pacerPc = "pace" /\ SampledLag >= 0
  /\ usbLag' = NextSend
  /\ EnterWait(SampledLag - UsbPeriod)

NothingDue ==
  /\ pacerPc = "pace" /\ SampledLag < 0
  /\ UNCHANGED usbLag
  /\ EnterWait(SampledLag)

\* epoll_wait times out, at once if the timeout is zero.
TimedOut ==
  /\ pacerPc = "wait" /\ sleepLeft = 0
  /\ pacerPc' = "top"
  /\ UNCHANGED <<usbLag, sampledAgo, sleepLeft, work, stalls>>

\* epoll_wait returns events (or EINTR, after which nothing is handled).
Woken ==
  /\ pacerPc = "wait"
  /\ pacerPc' \in {"handle", "top"}
  /\ sleepLeft' = 0
  /\ UNCHANGED <<usbLag, sampledAgo, work, stalls>>

Handled ==
  /\ pacerPc = "handle"
  /\ pacerPc' = "top"
  /\ UNCHANGED <<usbLag, sampledAgo, sleepLeft, work, stalls>>

\* A handler takes long, for example because the device it writes to does.
Stall ==
  /\ pacerPc = "handle" /\ stalls < MaxStalls
  /\ stalls' = stalls + 1
  /\ usbLag' = usbLag + StallLength
  /\ UNCHANGED <<pacerPc, sampledAgo, sleepLeft, work>>

Sleeping == pacerPc = "wait" /\ sleepLeft > 0

\* A tick passes asleep, or as part of the round's work, which is bounded.
PacerTick ==
  /\ Sleeping \/ work < RoundWork
  /\ work' = IF Sleeping THEN work ELSE work + 1
  /\ sleepLeft' = IF Sleeping THEN sleepLeft - 1 ELSE sleepLeft
  /\ usbLag' = usbLag + 1
  /\ sampledAgo' = IF pacerPc = "pace" THEN sampledAgo + 1 ELSE 0
  /\ UNCHANGED <<pacerPc, stalls>>

-----------------------------------------------------------------------------

\* The first report is due a period after the loop is entered.
PacerInit ==
  /\ pacerPc = "top" /\ usbLag = -UsbPeriod
  /\ sampledAgo = 0 /\ sleepLeft = 0 /\ work = 0 /\ stalls = 0

PacerStep == LookAtClock \/ SendDueReport \/ NothingDue \/ TimedOut \/ Handled

PacerNext == PacerStep \/ Woken \/ Stall \/ PacerTick

PacerSpec == PacerInit /\ [][PacerNext]_pacerVars

\* The thread runs and time passes; events and stalls are nobody's duty.
PacerFairness == WF_pacerVars(PacerStep) /\ WF_pacerVars(PacerTick)

-----------------------------------------------------------------------------
(* Properties.                                                             *)

PacerTypeOK ==
  /\ pacerPc \in {"top", "pace", "wait", "handle"}
  /\ usbLag \in Int /\ usbLag >= -UsbPeriod
  /\ sampledAgo \in 0..RoundWork /\ sleepLeft \in 0..UsbPeriod
  /\ work \in 0..RoundWork /\ stalls \in 0..MaxStalls

\* epoll_wait never sleeps past the next due time by more than the work done
\* since the round looked at the clock, although it computes its timeout from
\* that look, and although a report may have been sent in between.
WakesInTime == Sleeping => usbLag + sleepLeft <= RoundWork

\* Reports go out again and again, and once the stalls are over the loop makes
\* up for what it has missed and is then never late by more than the work of
\* two rounds.
CatchesUp ==
  /\ []<><<SendDueReport>>_pacerVars
  /\ <>[](usbLag <= 2 * RoundWork)
=============================================================================
