-------------------------- MODULE LifecycleProofs --------------------------
(***************************************************************************)
(* Proofs about Lifecycle, for every sequence of reports main publishes.   *)
(*                                                                         *)
(* An exit code is decided from the flags of the devices, and it is kept   *)
(* while the other thread goes on failing; that the host is not served     *)
(* after a failed start is decided by a check that comes several calls     *)
(* after the failure.  IInv says what links the two ends.                  *)
(***************************************************************************)
EXTENDS Lifecycle, TLAPS

-----------------------------------------------------------------------------

Starting ==
  {"gadget", "usb", "bt", "debug", "recorder", "initial", "get", "set"}

\* A flag is raised only by a call that failed for good.
FlagsHaveCause ==
  /\ btFailed => "bt" \in causes
  /\ usbFailed => "usb" \in causes

\* Until event_bus begins, nothing but such a call can fail, and the host has
\* not been served.
StartIsFlagged ==
  /\ pc \in Starting => /\ "bt" \in causes => btFailed
                        /\ "usb" \in causes => usbFailed
                        /\ early = {}
  /\ pc \in Starting \cup {"epoll"} => ~served

\* What failed before event_bus began is still flagged.
EarlyIsFlagged ==
  /\ "bt" \in early => btFailed
  /\ "usb" \in early => usbFailed

\* Past the first health check only a process that started cleanly is left.
LoopStartedCleanly == pc \in {"drain", "send", "wait", "events"} => early = {}

\* A report that was read is one of those to be published.
ReadIsPublished == pc = "set" => publishing < Len(InitialReports)

IInv ==
  /\ TypeOK /\ ReadIsPublished
  /\ FlagsHaveCause /\ StartIsFlagged /\ EarlyIsFlagged /\ LoopStartedCleanly
  /\ ExitHasCause /\ NoServiceAfterInitFailure

-----------------------------------------------------------------------------
(* What the shared parts of the actions do.                                *)

\* A step's calls on the devices only ever raise flags, and for a cause.
LEMMA CallsFlag ==
  ASSUME TypeOK, FlagsHaveCause, NEW bt, NEW usb, Calls(bt, usb)
  PROVE  /\ btFailed' \in BOOLEAN /\ usbFailed' \in BOOLEAN
         /\ causes' \subseteq Devices /\ causes \subseteq causes'
         /\ btFailed => btFailed'
         /\ usbFailed => usbFailed'
         /\ FlagsHaveCause'
         /\ ("bt" \in causes => btFailed) => ("bt" \in causes' => btFailed')
         /\ ("usb" \in causes => usbFailed) => ("usb" \in causes' => usbFailed')
  BY DEF Calls, TypeOK, DataTypeOK, Devices, FlagsHaveCause

\* So do steps that make no call.
LEMMA FlagsUntouched ==
  ASSUME TypeOK, FlagsHaveCause, UNCHANGED flags
  PROVE  /\ btFailed' = btFailed /\ usbFailed' = usbFailed /\ causes' = causes
         /\ FlagsHaveCause'
  BY DEF flags, FlagsHaveCause

\* Whatever report is read, it is one that main or event_bus asks for.
LEMMA BlankType ==
  ASSUME TypeOK, NEW outcome,
         NEW report \in FeatureReports, GetFeatureReport(report, outcome)
  PROVE  blank' \subseteq FeatureReports
  BY DEF GetFeatureReport, TypeOK, DataTypeOK

-----------------------------------------------------------------------------
(* The steps, by the part of the process that takes them.                  *)

LEMMA StartupStep == IInv /\ Startup => IInv'
<1> SUFFICES ASSUME IInv, Startup PROVE IInv'
  OBVIOUS
<1> USE DEF IInv, TypeOK, DataTypeOK, ControlTypeOK, threads, history
<1>1. ASSUME NEW here \in Starting, NEW next \in Starting \ {"set"},
             Require(here, next), UNCHANGED debug
      PROVE  IInv'
  BY <1>1
  DEF Require, flags, FlagsHaveCause, StartIsFlagged, EarlyIsFlagged,
      LoopStartedCleanly, ExitHasCause, NoServiceAfterInitFailure, Starting,
      ReadIsPublished
<1>2. CASE CreateGadget \/ InitUsb \/ InitBt \/ InitRecorder
  BY <1>1, <1>2 DEF CreateGadget, InitUsb, InitBt, InitRecorder, Starting
<1>3. CASE InitDebug
  BY <1>3
  DEF InitDebug, flags, FlagsHaveCause, StartIsFlagged, EarlyIsFlagged,
      LoopStartedCleanly, ExitHasCause, NoServiceAfterInitFailure, Starting,
      ReadIsPublished
<1>4. CASE SendInitialState
  <2>1. PICK bt : Calls(bt, {})
    BY <1>4 DEF SendInitialState
  <2> QED
    BY <1>4, <2>1, CallsFlag
    DEF SendInitialState, StartIsFlagged, EarlyIsFlagged, LoopStartedCleanly,
        ExitHasCause, NoServiceAfterInitFailure, Starting, ReadIsPublished
<1>5. CASE ReadInitialReport
  <2>1. PICK outcome :
          /\ Calls({outcome}, {})
          /\ GetFeatureReport(InitialReports[publishing + 1], outcome)
    BY <1>5 DEF ReadInitialReport
  <2>2. publishing + 1 \in 1..Len(InitialReports)
    BY <1>5, ReportsAssumption DEF ReadInitialReport
  <2>3. blank' \subseteq FeatureReports
    BY <2>1, <2>2, BlankType DEF FeatureReports
  <2> QED
    BY <1>5, <2>1, <2>3, CallsFlag
    DEF ReadInitialReport, StartIsFlagged, EarlyIsFlagged, LoopStartedCleanly,
        ExitHasCause, NoServiceAfterInitFailure, Starting, ReadIsPublished
<1>6. CASE PublishInitialReport
  <2>1. PICK outcome : Calls({}, {outcome})
    BY <1>6 DEF PublishInitialReport
  <2>2. publishing + 1 \in 0..Len(InitialReports)
    BY <1>6, ReportsAssumption DEF PublishInitialReport, ReadIsPublished
  <2> QED
    BY <1>6, <2>1, <2>2, CallsFlag
    DEF PublishInitialReport, StartIsFlagged, EarlyIsFlagged,
        LoopStartedCleanly, ExitHasCause, NoServiceAfterInitFailure, Starting,
        ReadIsPublished
<1>7. CASE StartAudioThread
  BY <1>7, FlagsUntouched
  DEF StartAudioThread, StartIsFlagged, EarlyIsFlagged, LoopStartedCleanly,
      ExitHasCause, NoServiceAfterInitFailure, Starting, ReadIsPublished
<1> QED
  BY <1>2, <1>3, <1>4, <1>5, <1>6, <1>7 DEF Startup

LEMMA EventBusStep == IInv /\ EventBus => IInv'
<1> SUFFICES ASSUME IInv, EventBus PROVE IInv'
  OBVIOUS
<1> USE DEF IInv, threads, history
<1>1. CASE SetUpEpoll
  <2>1. ReadIsPublished'
    BY <1>1
    DEF flags, SetUpEpoll, ReturnFromEventBus, ReadIsPublished, TypeOK,
        DataTypeOK
  <2>2. DataTypeOK'
    BY <1>1
    DEF flags, SetUpEpoll, ReturnFromEventBus, TypeOK, DataTypeOK
  <2>3. ControlTypeOK'
    BY <1>1
    DEF flags, SetUpEpoll, ReturnFromEventBus, TypeOK, ControlTypeOK, NoExit
  <2>4. /\ StartIsFlagged' /\ EarlyIsFlagged' /\ LoopStartedCleanly'
        /\ FlagsHaveCause' /\ ExitHasCause' /\ NoServiceAfterInitFailure'
    BY <1>1, FlagsUntouched
    DEF SetUpEpoll, ReturnFromEventBus, StartIsFlagged, EarlyIsFlagged,
        LoopStartedCleanly, Starting, FlagsHaveCause, ExitHasCause,
        NoServiceAfterInitFailure
  <2> QED BY <2>1, <2>2, <2>4, <2>3 DEF TypeOK
<1>2. CASE CheckHealth
  <2>1. /\ Verdict = NoExit => ~btFailed /\ ~usbFailed
        /\ Verdict = 2 => btFailed
        /\ Verdict = 3 => usbFailed
        /\ Verdict \in {NoExit, 2, 3, 6} /\ Verdict # 4
    BY DEF Verdict, NoExit
  <2>2. Verdict = NoExit => early = {}
    BY <2>1 DEF EarlyIsFlagged, Devices, TypeOK, DataTypeOK
  <2>3. ReadIsPublished'
    BY <1>2, <2>1, <2>2
    DEF flags, CheckHealth, ReturnFromEventBus, ReadIsPublished, TypeOK,
        DataTypeOK
  <2>4. DataTypeOK'
    BY <1>2, <2>1, <2>2
    DEF flags, CheckHealth, ReturnFromEventBus, TypeOK, DataTypeOK
  <2>5. ControlTypeOK'
    BY <1>2, <2>1, <2>2
    DEF flags, CheckHealth, ReturnFromEventBus, TypeOK, ControlTypeOK, NoExit
  <2>6. /\ StartIsFlagged' /\ EarlyIsFlagged' /\ LoopStartedCleanly'
        /\ FlagsHaveCause' /\ ExitHasCause' /\ NoServiceAfterInitFailure'
    BY <1>2, <2>1, <2>2, FlagsUntouched
    DEF CheckHealth, ReturnFromEventBus, StartIsFlagged, EarlyIsFlagged,
        LoopStartedCleanly, Starting, FlagsHaveCause, ExitHasCause,
        NoServiceAfterInitFailure
  <2> QED BY <2>3, <2>4, <2>6, <2>5 DEF TypeOK
<1>3. CASE Drain
  <2>1. PICK bt : Calls(bt, {})
    BY <1>3 DEF Drain
  <2>2. ReadIsPublished'
    BY <1>3, <2>1, CallsFlag
    DEF Drain, DebugAvailable, ReadIsPublished, TypeOK, DataTypeOK
  <2>3. DataTypeOK'
    BY <1>3, <2>1, CallsFlag
    DEF Drain, DebugAvailable, TypeOK, DataTypeOK
  <2>4. ControlTypeOK'
    BY <1>3, <2>1, CallsFlag
    DEF Drain, DebugAvailable, TypeOK, ControlTypeOK, NoExit
  <2>5. /\ StartIsFlagged' /\ EarlyIsFlagged' /\ LoopStartedCleanly'
        /\ FlagsHaveCause' /\ ExitHasCause' /\ NoServiceAfterInitFailure'
    BY <1>3, <2>1, CallsFlag
    DEF Drain, StartIsFlagged, EarlyIsFlagged, LoopStartedCleanly, Starting,
        FlagsHaveCause, ExitHasCause, NoServiceAfterInitFailure
  <2> QED BY <2>2, <2>3, <2>5, <2>4 DEF TypeOK
<1>4. CASE SendInputReport
  <2>1. ReadIsPublished'
    BY <1>4
    DEF flags, SendInputReport, ReadIsPublished, TypeOK, DataTypeOK
  <2>2. DataTypeOK'
    BY <1>4
    DEF flags, SendInputReport, TypeOK, DataTypeOK
  <2>3. ControlTypeOK'
    BY <1>4
    DEF flags, SendInputReport, TypeOK, ControlTypeOK, NoExit
  <2>4. /\ StartIsFlagged' /\ EarlyIsFlagged' /\ LoopStartedCleanly'
        /\ FlagsHaveCause' /\ ExitHasCause' /\ NoServiceAfterInitFailure'
    BY <1>4
    DEF flags, SendInputReport, StartIsFlagged, EarlyIsFlagged,
        LoopStartedCleanly, Starting, FlagsHaveCause, ExitHasCause,
        NoServiceAfterInitFailure
  <2> QED BY <2>1, <2>2, <2>4, <2>3 DEF TypeOK
<1>5. CASE EpollWait
  <2>1. ReadIsPublished'
    BY <1>5
    DEF flags, EpollWait, ReadIsPublished, TypeOK, DataTypeOK
  <2>2. DataTypeOK'
    BY <1>5
    DEF flags, EpollWait, TypeOK, DataTypeOK
  <2>3. ControlTypeOK'
    BY <1>5
    DEF flags, EpollWait, TypeOK, ControlTypeOK, NoExit
  <2>4. /\ StartIsFlagged' /\ EarlyIsFlagged' /\ LoopStartedCleanly'
        /\ FlagsHaveCause' /\ ExitHasCause' /\ NoServiceAfterInitFailure'
    BY <1>5
    DEF flags, EpollWait, StartIsFlagged, EarlyIsFlagged, LoopStartedCleanly,
        Starting, FlagsHaveCause, ExitHasCause, NoServiceAfterInitFailure
  <2> QED BY <2>1, <2>2, <2>4, <2>3 DEF TypeOK
<1>6. CASE NextRound \/ JoinAudioThread
  <2>1. ReadIsPublished'
    BY <1>6
    DEF flags, NextRound, JoinAudioThread, ReadIsPublished, TypeOK, DataTypeOK
  <2>2. DataTypeOK'
    BY <1>6
    DEF flags, NextRound, JoinAudioThread, TypeOK, DataTypeOK
  <2>3. ControlTypeOK'
    BY <1>6
    DEF flags, NextRound, JoinAudioThread, TypeOK, ControlTypeOK, NoExit
  <2>4. /\ StartIsFlagged' /\ EarlyIsFlagged' /\ LoopStartedCleanly'
        /\ FlagsHaveCause' /\ ExitHasCause' /\ NoServiceAfterInitFailure'
    BY <1>6
    DEF flags, NextRound, JoinAudioThread, StartIsFlagged, EarlyIsFlagged,
        LoopStartedCleanly, Starting, FlagsHaveCause, ExitHasCause,
        NoServiceAfterInitFailure
  <2> QED BY <2>1, <2>2, <2>4, <2>3 DEF TypeOK
<1>7. CASE HandleHangup
  <2>1. PICK device \in Devices : causes' = causes \cup {device}
    BY <1>7 DEF HandleHangup, Devices
  <2>2. ReadIsPublished'
    BY <1>7, <2>1
    DEF HandleHangup, ReturnFromEventBus, ReadIsPublished, TypeOK, DataTypeOK
  <2>3. DataTypeOK'
    BY <1>7, <2>1
    DEF HandleHangup, ReturnFromEventBus, TypeOK, DataTypeOK
  <2>4. ControlTypeOK'
    BY <1>7, <2>1
    DEF HandleHangup, ReturnFromEventBus, TypeOK, ControlTypeOK, NoExit
  <2>5. /\ StartIsFlagged' /\ EarlyIsFlagged' /\ LoopStartedCleanly'
        /\ FlagsHaveCause' /\ ExitHasCause' /\ NoServiceAfterInitFailure'
    BY <1>7, <2>1
    DEF HandleHangup, ReturnFromEventBus, StartIsFlagged, EarlyIsFlagged,
        LoopStartedCleanly, Starting, FlagsHaveCause, ExitHasCause,
        NoServiceAfterInitFailure
  <2> QED BY <2>2, <2>3, <2>5, <2>4 DEF TypeOK
<1>8. ASSUME NEW event, Handled(event),
             NEW bt, NEW usb, Calls(bt, usb),
             blank' \subseteq FeatureReports
      PROVE  IInv'
  <2>1. ReadIsPublished'
    BY <1>8, CallsFlag
    DEF Handled, ReadIsPublished, TypeOK, DataTypeOK
  <2>2. DataTypeOK'
    BY <1>8, CallsFlag
    DEF Handled, TypeOK, DataTypeOK
  <2>3. ControlTypeOK'
    BY <1>8, CallsFlag
    DEF Handled, TypeOK, ControlTypeOK, NoExit
  <2>4. /\ StartIsFlagged' /\ EarlyIsFlagged' /\ LoopStartedCleanly'
        /\ FlagsHaveCause' /\ ExitHasCause' /\ NoServiceAfterInitFailure'
    BY <1>8, CallsFlag
    DEF Handled, StartIsFlagged, EarlyIsFlagged, LoopStartedCleanly, Starting,
        FlagsHaveCause, ExitHasCause, NoServiceAfterInitFailure
  <2> QED BY <2>1, <2>2, <2>4, <2>3 DEF TypeOK
<1>9. CASE HandleBtInput \/ HandleUsbIgnored \/ HandleUsbOutput
  <2>1. PICK event, bt, usb :
          Handled(event) /\ Calls(bt, usb) /\ UNCHANGED blank
    BY <1>9 DEF HandleBtInput, HandleUsbIgnored, HandleUsbOutput
  <2> QED
    BY <1>8, <2>1 DEF TypeOK, DataTypeOK
<1>10. CASE HandleUsbFeature
  <2>1. PICK bt, answer, published :
          Calls(bt, published) /\ GetFeatureReport(ForwardedReport, answer)
    BY <1>10 DEF HandleUsbFeature
  <2>2. Handled("usbIn")
    BY <1>10 DEF HandleUsbFeature
  <2> QED
    BY <1>8, <2>1, <2>2, BlankType DEF FeatureReports
<1>11. CASE EpollInterrupted \/ EpollFails
  <2>1. ReadIsPublished'
    BY <1>11
    DEF flags, EpollInterrupted, EpollFails, ReturnFromEventBus,
        ReadIsPublished, TypeOK, DataTypeOK
  <2>2. DataTypeOK'
    BY <1>11
    DEF flags, EpollInterrupted, EpollFails, ReturnFromEventBus, TypeOK,
        DataTypeOK
  <2>3. ControlTypeOK'
    BY <1>11
    DEF flags, EpollInterrupted, EpollFails, ReturnFromEventBus, TypeOK,
        ControlTypeOK, NoExit
  <2>4. /\ StartIsFlagged' /\ EarlyIsFlagged' /\ LoopStartedCleanly'
        /\ FlagsHaveCause' /\ ExitHasCause' /\ NoServiceAfterInitFailure'
    BY <1>11, FlagsUntouched
    DEF EpollInterrupted, EpollFails, ReturnFromEventBus, StartIsFlagged,
        EarlyIsFlagged, LoopStartedCleanly, Starting, FlagsHaveCause,
        ExitHasCause, NoServiceAfterInitFailure
  <2> QED BY <2>1, <2>2, <2>4, <2>3 DEF TypeOK
<1> QED
  BY <1>1, <1>2, <1>3, <1>4, <1>7, <1>9, <1>10, <1>11, <1>5,
     <1>6
  DEF EventBus

\* A step of the audio thread, and the loss of the link.
LEMMA OtherStep ==
  IInv /\ (Audio \/ BtLinkLost \/ Terminated \/ UNCHANGED vars) => IInv'
<1> SUFFICES ASSUME IInv, Audio \/ BtLinkLost \/ Terminated \/ UNCHANGED vars
             PROVE  IInv'
  OBVIOUS
<1> USE DEF IInv, threads, history
<1>1. CASE AudioLoop
  <2>1. PICK outcome : Calls({outcome}, {})
    BY <1>1 DEF AudioLoop
  <2>2. ReadIsPublished'
    BY <1>1, <2>1, CallsFlag
    DEF AudioLoop, ReadIsPublished, TypeOK, DataTypeOK
  <2>3. DataTypeOK'
    BY <1>1, <2>1, CallsFlag
    DEF AudioLoop, TypeOK, DataTypeOK
  <2>4. ControlTypeOK'
    BY <1>1, <2>1, CallsFlag
    DEF AudioLoop, TypeOK, ControlTypeOK, NoExit
  <2>5. /\ StartIsFlagged' /\ EarlyIsFlagged' /\ LoopStartedCleanly'
        /\ FlagsHaveCause' /\ ExitHasCause' /\ NoServiceAfterInitFailure'
    BY <1>1, <2>1, CallsFlag
    DEF AudioLoop, StartIsFlagged, EarlyIsFlagged, LoopStartedCleanly, Starting,
        FlagsHaveCause, ExitHasCause, NoServiceAfterInitFailure
  <2> QED BY <2>2, <2>3, <2>5, <2>4 DEF TypeOK
<1>2. CASE AudioTaskReturns \/ BtLinkLost \/ UNCHANGED vars
  <2>1. ReadIsPublished'
    BY <1>2
    DEF flags, AudioTaskReturns, BtLinkLost, vars, ReadIsPublished, TypeOK,
        DataTypeOK
  <2>2. DataTypeOK'
    BY <1>2
    DEF flags, AudioTaskReturns, BtLinkLost, vars, TypeOK, DataTypeOK
  <2>3. ControlTypeOK'
    BY <1>2
    DEF flags, AudioTaskReturns, BtLinkLost, vars, TypeOK, ControlTypeOK, NoExit
  <2>4. /\ StartIsFlagged' /\ EarlyIsFlagged' /\ LoopStartedCleanly'
        /\ FlagsHaveCause' /\ ExitHasCause' /\ NoServiceAfterInitFailure'
    BY <1>2, FlagsUntouched
    DEF AudioTaskReturns, BtLinkLost, vars, StartIsFlagged, EarlyIsFlagged,
        LoopStartedCleanly, Starting, FlagsHaveCause, ExitHasCause,
        NoServiceAfterInitFailure
  <2> QED BY <2>1, <2>2, <2>4, <2>3 DEF TypeOK
<1> QED
  BY <1>1, <1>2 DEF Audio, Terminated

LEMMA InitInv == Init => IInv
<1> SUFFICES ASSUME Init PROVE IInv
  OBVIOUS
<1>1. Len(InitialReports) \in Nat
  BY ReportsAssumption
<1>2. DataTypeOK
  <2>1. publishing \in 0..Len(InitialReports)
    BY <1>1 DEF Init
  <2>2. /\ events = {} /\ causes = {} /\ early = {} /\ blank = {}
        /\ debug = "absent"
    BY DEF Init
  <2>3. {btLink, btFailed, usbFailed, served} \subseteq BOOLEAN
    BY DEF Init
  <2> QED BY <2>1, <2>2, <2>3 DEF DataTypeOK
<1>3. ControlTypeOK
  BY DEF Init, ControlTypeOK, NoExit
<1>4. ReadIsPublished
  BY DEF Init, ReadIsPublished
<1>5. /\ StartIsFlagged /\ EarlyIsFlagged /\ LoopStartedCleanly
      /\ FlagsHaveCause /\ ExitHasCause /\ NoServiceAfterInitFailure
  BY DEF Init, NoExit, StartIsFlagged, EarlyIsFlagged, LoopStartedCleanly,
     Starting, FlagsHaveCause, ExitHasCause, NoServiceAfterInitFailure
<1> QED BY <1>2, <1>5, <1>4, <1>3 DEF IInv, TypeOK

-----------------------------------------------------------------------------
(* The theorems.                                                           *)

\* The inductive invariant holds throughout, whichever thread takes the steps.
THEOREM Invariance == Spec => []IInv
<1>1. IInv /\ [Next]_vars => IInv'
  BY StartupStep, EventBusStep, OtherStep DEF Next, Main
<1> QED BY <1>1, InitInv, PTL DEF Spec

\* Every variable keeps its type; main reads no report that is not there.
THEOREM TypeCorrect == Spec => []TypeOK
<1>1. IInv => TypeOK
  BY DEF IInv
<1> QED BY <1>1, Invariance, PTL

\* The exit code of event_bus blames a device only if a call on it failed for
\* good or it hung up.
THEOREM ExitAlwaysHasCause == Spec => []ExitHasCause
<1>1. IInv => ExitHasCause
  BY DEF IInv
<1> QED BY <1>1, Invariance, PTL

\* A process in which one of main's initial calls failed for good never serves
\* the host, although main ignores what they return.
THEOREM NeverServesAfterInitFailure == Spec => []NoServiceAfterInitFailure
<1>1. IInv => NoServiceAfterInitFailure
  BY DEF IInv
<1> QED BY <1>1, Invariance, PTL
=============================================================================
