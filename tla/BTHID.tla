------------------------------- MODULE BTHID -------------------------------
(***************************************************************************)
(* The Bluetooth output side of the dongle: the one BTHID object of        *)
(* src/BTHID.cpp, called by two threads.                                   *)
(*                                                                         *)
(*  - the event bus thread (event_bus in main.cpp) calls setStateData,     *)
(*    setHeadset, handleMicButton/setMicMuted, applyUsbAudioFeatureReport  *)
(*    and setAudioRouteOverride, in any order;                             *)
(*  - the audio thread (audio_task in main.cpp) calls markAudioActive and  *)
(*    then sendCombine or sendCombineWithRoute for haptics, speaker and    *)
(*    tone packets, and sendCombine alone for the mic keepalive.           *)
(*                                                                         *)
(* outputMutex protects stateData, reportSeqCounter and the write(2) that  *)
(* follows; headset, micMuted, the volumes, audioRouteOverride and         *)
(* audioActiveUntilMs are atomics that are stored outside the lock.  A     *)
(* step of this module ends wherever the other thread can observe or       *)
(* disturb what the code does next.                                        *)
(*                                                                         *)
(* A state block is abstracted to four fields: the host output report it   *)
(* was copied from (numbered in arrival order), whether it selects the     *)
(* headset route, its mute fields, and the microphone volume, which the    *)
(* state modes "linux" and "gamepad-mic" copy as it is.  The other two     *)
(* volumes are handled like this one.                                      *)
(***************************************************************************)
EXTENDS Integers

CONSTANTS
  MaxHostReports,  \* bound: how many output reports the USB host sends
  SeqMod,          \* reportSeqCounter counts modulo this (16 in the code)
  MaxVolume,       \* a volume byte is in 0..MaxVolume (255 in the code)
  LegacyPackets,   \* DS5_AUDIO_PACKET_MODE=legacy: audio packets carry no state
  MicEnabled,      \* DS5_ENABLE_BT_MIC: the keepalive runs
  WritesFail       \* whether write(2) on the hidraw node may fail

ASSUME MaxHostReportsAssumption == MaxHostReports \in Nat
ASSUME SeqModAssumption == SeqMod \in Nat \ {0}
ASSUME MaxVolumeAssumption == MaxVolume \in Nat
ASSUME FlagsAssumption ==
  /\ LegacyPackets \in BOOLEAN
  /\ MicEnabled \in BOOLEAN
  /\ WritesFail \in BOOLEAN

VARIABLES
  headset, micMuted, micVolume, audioRouteOverride,   \* atomics
  audioActive,        \* now_ms() < audioActiveUntilMs
  outputMutex,        \* "free", or the thread that holds it
  stateData, reportSeqCounter,
  busPc, busReport,   \* event bus thread: where it is, the report it built
  audioPc, audioCall, audioReport,   \* audio thread: the same, and its call
  wire,               \* header of the last report passed to write(2)
  controller,         \* the state block the controller received last
  lost,               \* history: the last state-carrying write failed
  deferred            \* history: setStateData left its report to a later packet

atomics    == <<headset, micMuted, micVolume, audioRouteOverride>>
busVars    == <<busPc, busReport>>
audioVars  == <<audioPc, audioCall, audioReport>>
linkVars   == <<wire, controller, lost, deferred>>
vars == <<atomics, audioActive, outputMutex, stateData, reportSeqCounter,
          busVars, audioVars, linkVars>>

-----------------------------------------------------------------------------

Routes  == {"speaker", "headset"}   \* 0x13 and 0x16
NoRoute == "none"                   \* 0: no override

Volumes    == 0..MaxVolume
StateBlock == [host : 0..MaxHostReports, headset : BOOLEAN,
               muted : BOOLEAN, volume : Volumes]
Seqs       == 0..(SeqMod - 1)
Report     == [kind : {"none", "state", "audio"}, seq : Seqs,
               route : Routes \cup {NoRoute}, state : StateBlock]
Header     == [kind : {"initial", "state", "audio"}, seq : Seqs]
Call       == [op : {"none", "sendCombine", "sendCombineWithRoute"},
               route : Routes \cup {NoRoute}, raced : BOOLEAN]

\* The local packet buffer and arguments of a thread that is between two calls.
NoReport == [kind |-> "none", seq |-> 0, route |-> NoRoute,
             state |-> [host |-> 0, headset |-> FALSE, muted |-> FALSE, volume |-> 0]]
NoCall   == [op |-> "none", route |-> NoRoute, raced |-> FALSE]

\* Mutant: the mask of the four-bit field is missing.
UnmaskedNextSeq(seq) == seq + 1

\* The next value of reportSeqCounter.
NextSeq(seq) == (seq + 1) % SeqMod

\* Mutant: the override is not consulted.
RouteHeadsetWithoutOverride == headset

\* Which route a state block selects (the routeHeadset of the code).
RouteHeadset ==
  \/ audioRouteOverride = "headset"
  \/ headset /\ audioRouteOverride # "speaker"

\* normalizeAudioStateLocked: the audio fields of a state block always come
\* from the atomics, whatever the host wrote there.
NormalizedRoute(sd)         == [sd EXCEPT !.headset = RouteHeadset]
NormalizedLevels(sd, volume) == [sd EXCEPT !.muted = micMuted, !.volume = volume]
Normalized(sd, volume)      == NormalizedLevels(NormalizedRoute(sd), volume)

HeadsetRoute == IF headset THEN "headset" ELSE "speaker"

\* Mutant: audio packets have no state block in either format.
OnlyStateReportsCarryState(report) == report.kind = "state"

CarriesState(report) == report.kind = "state" \/ ~LegacyPackets

-----------------------------------------------------------------------------
(* write(2): the report reaches the controller, or the call fails and the  *)
(* report is gone; nothing is retried.                                     *)

Delivered(report) ==
  /\ controller' = IF CarriesState(report) THEN report.state ELSE controller
  /\ lost' = (lost /\ ~CarriesState(report))
  /\ deferred' = (deferred /\ ~CarriesState(report))

Dropped(report) ==
  /\ WritesFail
  /\ lost' = (lost \/ CarriesState(report))
  /\ UNCHANGED <<controller, deferred>>

Send(report) ==
  /\ wire' = [kind |-> report.kind, seq |-> report.seq]
  /\ Delivered(report) \/ Dropped(report)

\* Mutant: the lock_guard is missing.
Unguarded == TRUE

\* A thread may enter the critical section only while nobody is in it.
LockFree == outputMutex = "free"

-----------------------------------------------------------------------------
(* The event bus thread.                                                   *)

\* sendStateReportLocked, up to its write: the report carries stateData'.
BuildStateReport ==
  /\ busReport' = [kind |-> "state", seq |-> reportSeqCounter,
                   route |-> NoRoute, state |-> stateData']
  /\ reportSeqCounter' = NextSeq(reportSeqCounter)
  /\ outputMutex' = "bus"
  /\ busPc' = "write"

\* The volume of an output report; one without the volume flag has volume =
\* micVolume here.
ApplyUsbOutputReport(volume) == micVolume' = volume

\* A host output report.  While audio is active the report is only kept in
\* stateData, for the next audio packet to carry.
SetStateData(volume) ==
  /\ busPc = "idle" /\ LockFree
  /\ stateData.host < MaxHostReports
  /\ ApplyUsbOutputReport(volume)
  /\ stateData' = Normalized([stateData EXCEPT !.host = @ + 1], volume)
  /\ \/ /\ audioActive
        /\ deferred' = TRUE
        /\ UNCHANGED <<busVars, reportSeqCounter, outputMutex>>
     \/ /\ ~audioActive
        /\ BuildStateReport
        /\ UNCHANGED deferred
  /\ UNCHANGED <<headset, micMuted, audioRouteOverride, audioActive,
                 audioVars, wire, controller, lost>>

\* A store of the bus thread to headset or audioRouteOverride that falls
\* between the audio thread's loads of the route before and under the lock.
MarkRace ==
  audioCall' = [audioCall EXCEPT !.raced = @ \/ audioPc \in {"pickHeadset", "lock"}]

\* The exchange in setHeadset; the report follows in PushState.
SetHeadset(connected) ==
  /\ busPc = "idle"
  /\ connected # headset
  /\ headset' = connected
  /\ busPc' = "push"
  /\ MarkRace
  /\ UNCHANGED <<micMuted, micVolume, audioRouteOverride, audioActive,
                 outputMutex, stateData, reportSeqCounter, busReport,
                 audioPc, audioReport, linkVars>>

\* The exchange in setMicMuted; the report follows in PushState.
SetMicMuted(muted) ==
  /\ busPc = "idle"
  /\ muted # micMuted
  /\ micMuted' = muted
  /\ busPc' = "push"
  /\ UNCHANGED <<headset, micVolume, audioRouteOverride, audioActive,
                 outputMutex, stateData, reportSeqCounter, busReport,
                 audioVars, linkVars>>

\* The volume store of a feature report (after its clamp); the report follows
\* in PushState.
ApplyUsbAudioFeatureReport(volume) ==
  /\ busPc = "idle"
  /\ micVolume' = volume
  /\ busPc' = "push"
  /\ UNCHANGED <<headset, micMuted, audioRouteOverride, audioActive,
                 outputMutex, stateData, reportSeqCounter, busReport,
                 audioVars, linkVars>>

\* A plain store: no report is sent for it.
SetAudioRouteOverride(route) ==
  /\ busPc = "idle"
  /\ audioRouteOverride' = route
  /\ MarkRace
  /\ UNCHANGED <<headset, micMuted, micVolume, audioActive, outputMutex,
                 stateData, reportSeqCounter, busVars, audioPc, audioReport,
                 linkVars>>

\* Mutant: sendAudioControlState without its lock_guard.
PushStateUnlocked ==
  /\ busPc = "push"
  /\ stateData' = Normalized(stateData, micVolume)
  /\ BuildStateReport
  /\ UNCHANGED <<atomics, audioActive, audioVars, linkVars>>

\* sendAudioControlState, and the locked tail of setHeadset: unlike
\* setStateData they send whether or not audio is active.
PushState ==
  /\ busPc = "push" /\ LockFree
  /\ stateData' = Normalized(stateData, micVolume)
  /\ BuildStateReport
  /\ UNCHANGED <<atomics, audioActive, audioVars, linkVars>>

BusWrite ==
  /\ busPc = "write"
  /\ Send(busReport)
  /\ outputMutex' = "free"
  /\ busPc' = "idle" /\ busReport' = NoReport
  /\ UNCHANGED <<atomics, audioActive, stateData, reportSeqCounter, audioVars>>

-----------------------------------------------------------------------------
(* The audio thread.                                                       *)

StartPacket(op, route, next) ==
  /\ audioPc = "idle"
  /\ audioCall' = [op |-> op, route |-> route, raced |-> FALSE]
  /\ audioPc' = next
  /\ UNCHANGED <<atomics, outputMutex, stateData, reportSeqCounter,
                 busVars, audioReport, linkVars>>

\* haptics_proc: 64 haptics bytes are ready.
HapticsPacket ==
  /\ StartPacket("sendCombine", NoRoute, "pick")
  /\ audioActive' = TRUE

\* waveout_proc: the route of the test tone is the caller's.
WaveOutPacket(route) ==
  /\ StartPacket("sendCombineWithRoute", route, "lock")
  /\ audioActive' = TRUE

\* mic_keepalive_proc: only while no other audio packet is being sent.
MicKeepalive ==
  /\ MicEnabled
  /\ ~audioActive
  /\ StartPacket("sendCombine", NoRoute, "pick")
  /\ UNCHANGED audioActive

\* sendCombine: the load of the override, before the lock.
PickOverride ==
  /\ audioPc = "pick"
  /\ audioCall' = [audioCall EXCEPT !.route = audioRouteOverride]
  /\ audioPc' = IF audioRouteOverride = NoRoute THEN "pickHeadset" ELSE "lock"
  /\ UNCHANGED <<atomics, audioActive, outputMutex, stateData,
                 reportSeqCounter, busVars, audioReport, linkVars>>

\* sendCombine: without an override, the load of headset.
PickHeadset ==
  /\ audioPc = "pickHeadset"
  /\ audioCall' = [audioCall EXCEPT !.route = HeadsetRoute]
  /\ audioPc' = "lock"
  /\ UNCHANGED <<atomics, audioActive, outputMutex, stateData,
                 reportSeqCounter, busVars, audioReport, linkVars>>

\* sendCombineWithRoute: lock, and the loads of headset and the override.
LockAndLoadRoute ==
  /\ audioPc = "lock" /\ LockFree
  /\ outputMutex' = "audio"
  /\ stateData' = NormalizedRoute(stateData)
  /\ audioPc' = "build"
  /\ UNCHANGED <<atomics, audioActive, reportSeqCounter, busVars, audioCall,
                 audioReport, linkVars>>

\* The rest of the normalisation, and the packet.
BuildPacket ==
  /\ audioPc = "build"
  /\ stateData' = NormalizedLevels(stateData, micVolume)
  /\ audioReport' = [kind |-> "audio", seq |-> reportSeqCounter,
                     route |-> audioCall.route, state |-> stateData']
  /\ reportSeqCounter' = NextSeq(reportSeqCounter)
  /\ audioPc' = "write"
  /\ UNCHANGED <<atomics, audioActive, outputMutex, busVars, audioCall, linkVars>>

AudioWrite ==
  /\ audioPc = "write"
  /\ Send(audioReport)
  /\ outputMutex' = "free"
  /\ audioPc' = "idle" /\ audioReport' = NoReport /\ audioCall' = NoCall
  /\ UNCHANGED <<atomics, audioActive, stateData, reportSeqCounter, busVars>>

\* 100 ms pass without another markAudioActive.
AudioWindowExpires ==
  /\ audioActive
  /\ audioActive' = FALSE
  /\ UNCHANGED <<atomics, outputMutex, stateData, reportSeqCounter, busVars,
                 audioVars, linkVars>>

-----------------------------------------------------------------------------

\* The state after sendInitialState, when main starts the audio thread: the
\* 0x32 report carries the number 1 and the counter is set to 1.  With the
\* mic enabled, enableBluetoothMicExperiment has sent one more report.  Their
\* return values are ignored, so either may already be lost.
Init ==
  /\ headset = FALSE /\ micMuted = FALSE /\ audioRouteOverride = NoRoute
  /\ micVolume = MaxVolume
  /\ audioActive = FALSE
  /\ outputMutex = "free"
  /\ stateData = [host |-> 0, headset |-> FALSE, muted |-> FALSE,
                  volume |-> MaxVolume]
  /\ wire = [kind |-> IF MicEnabled THEN "state" ELSE "initial",
             seq |-> 1 % SeqMod]
  /\ reportSeqCounter = IF MicEnabled THEN NextSeq(1 % SeqMod) ELSE 1 % SeqMod
  /\ busPc = "idle" /\ audioPc = "idle"
  /\ busReport = NoReport /\ audioReport = NoReport /\ audioCall = NoCall
  /\ lost \in {FALSE, WritesFail}
  /\ controller \in IF lost THEN [host : {0}, headset : BOOLEAN,
                                  muted : BOOLEAN, volume : Volumes]
                             ELSE {stateData}
  /\ deferred = FALSE

Bus ==
  \/ \E volume \in Volumes : SetStateData(volume)
  \/ \E connected \in BOOLEAN : SetHeadset(connected)
  \/ \E muted \in BOOLEAN : SetMicMuted(muted)
  \/ \E volume \in Volumes : ApplyUsbAudioFeatureReport(volume)
  \/ \E route \in Routes : SetAudioRouteOverride(route)
  \/ PushState
  \/ BusWrite

Audio ==
  \/ HapticsPacket
  \/ \E route \in Routes : WaveOutPacket(route)
  \/ MicKeepalive
  \/ PickOverride
  \/ PickHeadset
  \/ LockAndLoadRoute
  \/ BuildPacket
  \/ AudioWrite

Next == Bus \/ Audio \/ AudioWindowExpires

Spec == Init /\ [][Next]_vars

\* Both threads keep running what they have begun, audio_task calls the
\* keepalive again and again, and time passes.  The USB host, the controller
\* and the audio stream owe nothing.
Fairness ==
  /\ WF_vars(PushState) /\ WF_vars(BusWrite)
  /\ WF_vars(PickOverride) /\ WF_vars(PickHeadset)
  /\ WF_vars(LockAndLoadRoute) /\ WF_vars(BuildPacket) /\ WF_vars(AudioWrite)
  /\ WF_vars(MicKeepalive)
  /\ WF_vars(AudioWindowExpires)

FairSpec == Spec /\ Fairness

-----------------------------------------------------------------------------
(* Properties.                                                             *)

TypeOK ==
  /\ headset \in BOOLEAN /\ micMuted \in BOOLEAN
  /\ micVolume \in Volumes
  /\ audioRouteOverride \in Routes \cup {NoRoute}
  /\ audioActive \in BOOLEAN
  /\ outputMutex \in {"free", "bus", "audio"}
  /\ stateData \in StateBlock /\ controller \in StateBlock
  /\ reportSeqCounter \in Seqs
  /\ busPc \in {"idle", "push", "write"}
  /\ audioPc \in {"idle", "pick", "pickHeadset", "lock", "build", "write"}
  /\ busReport \in Report /\ audioReport \in Report
  /\ audioCall \in Call
  /\ wire \in Header
  /\ lost \in BOOLEAN /\ deferred \in BOOLEAN

\* A state block agrees with the atomics the bus thread has stored.
Current(sd) == sd.muted = micMuted /\ sd.volume = micVolume

\* Whenever the event bus thread is between two calls, the controller's
\* mute state (and with it the LED of the mic button) is micMuted, and it
\* has the host's last output report and volume -- unless the last write that
\* carried the state failed, or setStateData left its report to an audio
\* packet that has not come yet.  Neither thread overwrites what the other
\* has just sent.
ControllerInSync ==
  busPc = "idle" /\ ~lost =>
    /\ controller.muted = micMuted
    /\ ~deferred => /\ controller.host = stateData.host
                    /\ controller.volume = micVolume

\* A packet of sendCombine whose route byte contradicts the state block it
\* carries was overtaken by a store to headset or audioRouteOverride between
\* the loads sendCombine makes of them before the lock and those of
\* normalizeAudioStateLocked under it; in every other packet the two agree.
CombineIsCoherent ==
  /\ audioPc = "write"
  /\ audioCall.op = "sendCombine" /\ ~audioCall.raced
  => ((audioReport.route = "headset") <=> audioReport.state.headset)

\* What the controller sees is one stream: the two threads' reports are
\* numbered consecutively in the order in which they are written, and each
\* carries the host's newest output report, never an older one.
Stream == INSTANCE ReportStream WITH
            number    <- IF wire.kind = "initial" THEN 0 ELSE wire.seq,
            accepted  <- stateData.host,
            delivered <- controller.host
ImplementsStream == Stream!Spec

\* Every output report the host sends reaches the controller, or a later one
\* does: none is forgotten in stateData.
HostReportDelivered ==
  \A n \in 1..MaxHostReports :
    (stateData.host = n) ~> (controller.host >= n)
=============================================================================
