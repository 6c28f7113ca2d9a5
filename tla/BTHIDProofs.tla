----------------------------- MODULE BTHIDProofs -----------------------------
(***************************************************************************)
(* Proofs about BTHID for every number of host reports, every sequence     *)
(* modulus, every volume range and every setting of the flags.             *)
(*                                                                         *)
(* None of the properties is inductive alone.  IInv strengthens them with  *)
(* what holds while a thread is inside a call: who holds outputMutex, that *)
(* a report built under the lock still equals stateData when it is         *)
(* written, which number comes next, and that stateData is up to date      *)
(* with the atomics unless the event bus thread is about to send it.       *)
(***************************************************************************)
EXTENDS BTHID, TLAPS

-----------------------------------------------------------------------------

\* outputMutex is held exactly by the thread whose pc is in its critical
\* section, so never by both.
LockHeld ==
  /\ outputMutex = "bus" <=> busPc = "write"
  /\ outputMutex = "audio" <=> audioPc \in {"build", "write"}

\* The number of the last report written, as ReportStream counts.
LastNumber == IF wire.kind = "initial" THEN 0 ELSE wire.seq

\* The counter is one ahead of the last report written or, while a report
\* waits for its write, of that report.
NumberInv ==
  /\ busPc = "write" =>
       /\ busReport.seq = NextSeq(LastNumber)
       /\ reportSeqCounter = NextSeq(busReport.seq)
  /\ audioPc = "write" =>
       /\ audioReport.seq = NextSeq(LastNumber)
       /\ reportSeqCounter = NextSeq(audioReport.seq)
  /\ busPc # "write" /\ audioPc # "write" => reportSeqCounter = NextSeq(LastNumber)

\* A report that waits for its write is a copy of stateData.
ReportFresh ==
  /\ busPc = "write" => busReport.kind = "state" /\ busReport.state = stateData
  /\ audioPc = "write" => audioReport.kind = "audio" /\ audioReport.state = stateData

\* stateData agrees with the stored atomics unless a report is due for them.
StateDataCurrent == busPc # "push" => Current(stateData)

\* ControllerInSync, in terms of stateData.
ControllerCurrent ==
  busPc = "idle" /\ ~lost =>
    /\ controller.muted = stateData.muted
    /\ ~deferred => /\ controller.host = stateData.host
                    /\ controller.volume = stateData.volume

\* What a packet of sendCombine that no store overtook has seen so far.
RouteInv ==
  audioCall.op = "sendCombine" /\ ~audioCall.raced =>
    /\ audioPc = "pickHeadset" => audioRouteOverride = NoRoute
    /\ audioPc = "lock" => ((audioCall.route = "headset") <=> RouteHeadset)
    /\ audioPc \in {"build", "write"} =>
         ((audioCall.route = "headset") <=> stateData.headset)
    /\ audioPc = "write" => audioReport.route = audioCall.route

IInv ==
  /\ TypeOK
  /\ LockHeld
  /\ NumberInv
  /\ ReportFresh
  /\ StateDataCurrent
  /\ ControllerCurrent
  /\ RouteInv

-----------------------------------------------------------------------------
(* Facts about the operators.                                              *)

\* The next report number is again a number of the four-bit field.
LEMMA NextSeqType == \A seq \in Seqs : NextSeq(seq) \in Seqs
  BY SeqModAssumption DEF NextSeq, Seqs

\* A thread between two calls has an empty report and an empty call.
LEMMA IdleTypes == NoReport \in Report /\ NoCall \in Call /\ 0 \in Seqs
  BY SeqModAssumption, MaxHostReportsAssumption, MaxVolumeAssumption
  DEF NoReport, NoCall, Report, Call, StateBlock, Seqs, Volumes

\* normalizeAudioStateLocked rewrites the audio fields of a state block from
\* the atomics, and nothing else: the host's own fields stay.
LEMMA NormalizedFields ==
  ASSUME NEW sd \in StateBlock, NEW volume \in Volumes, TypeOK
  PROVE  /\ NormalizedRoute(sd) \in StateBlock
         /\ NormalizedRoute(sd).host = sd.host
         /\ NormalizedRoute(sd).headset = RouteHeadset
         /\ NormalizedRoute(sd).muted = sd.muted
         /\ NormalizedRoute(sd).volume = sd.volume
         /\ NormalizedLevels(sd, volume) \in StateBlock
         /\ NormalizedLevels(sd, volume).host = sd.host
         /\ NormalizedLevels(sd, volume).headset = sd.headset
         /\ NormalizedLevels(sd, volume).muted = micMuted
         /\ NormalizedLevels(sd, volume).volume = volume
         /\ Normalized(sd, volume) \in StateBlock
         /\ Normalized(sd, volume).host = sd.host
         /\ Normalized(sd, volume).muted = micMuted
         /\ Normalized(sd, volume).volume = volume
<1>1. micMuted \in BOOLEAN /\ RouteHeadset \in BOOLEAN
  BY DEF TypeOK, RouteHeadset
<1> QED
  BY <1>1 DEF NormalizedRoute, NormalizedLevels, Normalized, StateBlock

-----------------------------------------------------------------------------
(* Type correctness.                                                       *)

LEMMA TypeInit == Init => TypeOK
<1> SUFFICES ASSUME Init PROVE TypeOK
  OBVIOUS
<1>1. MaxVolume \in Volumes /\ 0 \in 0..MaxHostReports
  BY MaxVolumeAssumption, MaxHostReportsAssumption DEF Volumes
<1>2. stateData \in StateBlock
  BY <1>1 DEF Init, StateBlock
<1>3. controller \in StateBlock
  <2>1. [host : {0}, headset : BOOLEAN, muted : BOOLEAN, volume : Volumes]
          \subseteq StateBlock
    BY <1>1 DEF StateBlock
  <2> QED  BY <1>2, <2>1 DEF Init
<1>4. 1 % SeqMod \in Seqs
  BY SeqModAssumption DEF Seqs
<1>5. wire \in Header /\ reportSeqCounter \in Seqs
  BY <1>4, NextSeqType DEF Init, Header
<1>6. lost \in BOOLEAN
  BY FlagsAssumption DEF Init
<1> QED
  BY <1>1, <1>2, <1>3, <1>5, <1>6, IdleTypes DEF Init, TypeOK

\* A report built from a state block of the right type has the right type.
LEMMA SendType ==
  ASSUME TypeOK, NEW report \in Report, report.kind # "none", Send(report)
  PROVE  wire' \in Header /\ controller' \in StateBlock
         /\ lost' \in BOOLEAN /\ deferred' \in BOOLEAN
<1>1. wire' \in Header
  BY DEF Send, Report, Header
<1>2. controller' \in StateBlock
  BY DEF Send, Delivered, Dropped, Report, TypeOK
<1>3. lost' \in BOOLEAN /\ deferred' \in BOOLEAN
  BY DEF Send, Delivered, Dropped, CarriesState, TypeOK
<1> QED  BY <1>1, <1>2, <1>3

-----------------------------------------------------------------------------
(* Each part of IInv is preserved by every step.                           *)

\* Every step keeps every variable in its type.
LEMMA TypeStep == IInv /\ [Next]_vars => TypeOK'
<1> SUFFICES ASSUME IInv, [Next]_vars PROVE TypeOK'
  OBVIOUS
<1> USE DEF IInv, TypeOK
<1>1. ASSUME NEW volume \in Volumes, SetStateData(volume) PROVE TypeOK'
  <2>1. stateData.host + 1 \in 0..MaxHostReports
    BY <1>1, MaxHostReportsAssumption DEF SetStateData, StateBlock
  <2>2. [stateData EXCEPT !.host = @ + 1] \in StateBlock
    BY <2>1 DEF StateBlock
  <2>3. stateData' \in StateBlock
    BY <1>1, <2>2, NormalizedFields DEF SetStateData
  <2>4. CASE audioActive /\ UNCHANGED <<busVars, reportSeqCounter, outputMutex>>
    BY <1>1, <2>3, <2>4
    DEF SetStateData, ApplyUsbOutputReport, atomics, busVars, audioVars, linkVars
  <2>5. CASE BuildStateReport
    <3>1. busReport' \in Report /\ reportSeqCounter' \in Seqs
      BY <2>3, <2>5, NextSeqType DEF BuildStateReport, Report
    <3> QED
      BY <1>1, <2>3, <2>5, <3>1
      DEF SetStateData, ApplyUsbOutputReport, BuildStateReport, atomics,
          busVars, audioVars, linkVars
  <2> QED
    BY <1>1, <2>4, <2>5 DEF SetStateData
<1>2. ASSUME NEW connected \in BOOLEAN, SetHeadset(connected) PROVE TypeOK'
  BY <1>2 DEF SetHeadset, MarkRace, Call, atomics, busVars, audioVars, linkVars
<1>3. ASSUME NEW muted \in BOOLEAN, SetMicMuted(muted) PROVE TypeOK'
  BY <1>3 DEF SetMicMuted, atomics, busVars, audioVars, linkVars
<1>4. ASSUME NEW volume \in Volumes, ApplyUsbAudioFeatureReport(volume) PROVE TypeOK'
  BY <1>4 DEF ApplyUsbAudioFeatureReport, atomics, busVars, audioVars, linkVars
<1>5. ASSUME NEW route \in Routes, SetAudioRouteOverride(route) PROVE TypeOK'
  <2>1. audioCall' \in Call
    BY <1>5 DEF SetAudioRouteOverride, MarkRace, Call
  <2> QED
    BY <1>5, <2>1 DEF SetAudioRouteOverride, atomics, busVars, audioVars, linkVars
<1>6. CASE PushState
  <2>1. stateData' \in StateBlock
    BY <1>6, NormalizedFields DEF PushState
  <2>2. busReport' \in Report /\ reportSeqCounter' \in Seqs
    BY <1>6, <2>1, NextSeqType DEF PushState, BuildStateReport, Report
  <2> QED
    BY <1>6, <2>1, <2>2
    DEF PushState, BuildStateReport, atomics, busVars, audioVars, linkVars
<1>7. CASE BusWrite
  <2>1. wire' \in Header /\ controller' \in StateBlock
        /\ lost' \in BOOLEAN /\ deferred' \in BOOLEAN
    BY <1>7, SendType DEF BusWrite, ReportFresh
  <2> QED
    BY <1>7, <2>1, IdleTypes DEF BusWrite, atomics, busVars, audioVars, linkVars
<1>8. CASE HapticsPacket
  BY <1>8 DEF HapticsPacket, StartPacket, Call, atomics, busVars, audioVars, linkVars
<1>9. ASSUME NEW route \in Routes, WaveOutPacket(route) PROVE TypeOK'
  BY <1>9 DEF WaveOutPacket, StartPacket, Call, atomics, busVars, audioVars, linkVars
<1>10. CASE MicKeepalive
  BY <1>10 DEF MicKeepalive, StartPacket, Call, atomics, busVars, audioVars, linkVars
<1>11. CASE PickOverride
  BY <1>11 DEF PickOverride, Call, atomics, busVars, audioVars, linkVars
<1>12. CASE PickHeadset
  BY <1>12 DEF PickHeadset, HeadsetRoute, Call, Routes, atomics, busVars,
               audioVars, linkVars
<1>13. CASE LockAndLoadRoute
  <2>1. stateData' \in StateBlock
    BY <1>13, NormalizedFields DEF LockAndLoadRoute
  <2> QED
    BY <1>13, <2>1 DEF LockAndLoadRoute, atomics, busVars, audioVars, linkVars
<1>14. CASE BuildPacket
  <2>1. stateData' \in StateBlock
    BY <1>14, NormalizedFields DEF BuildPacket
  <2>2. audioReport' \in Report /\ reportSeqCounter' \in Seqs
    BY <1>14, <2>1, NextSeqType DEF BuildPacket, Report, Call
  <2> QED
    BY <1>14, <2>1, <2>2 DEF BuildPacket, atomics, busVars, audioVars, linkVars
<1>15. CASE AudioWrite
  <2>1. wire' \in Header /\ controller' \in StateBlock
        /\ lost' \in BOOLEAN /\ deferred' \in BOOLEAN
    BY <1>15, SendType DEF AudioWrite, ReportFresh
  <2> QED
    BY <1>15, <2>1, IdleTypes DEF AudioWrite, atomics, busVars, audioVars, linkVars
<1>16. CASE AudioWindowExpires
  BY <1>16 DEF AudioWindowExpires, atomics, busVars, audioVars, linkVars
<1>17. CASE UNCHANGED vars
  BY <1>17 DEF vars, atomics, busVars, audioVars, linkVars
<1> QED
  BY <1>1, <1>2, <1>3, <1>4, <1>5, <1>6, <1>7, <1>8,
     <1>9, <1>10, <1>11, <1>12, <1>13, <1>14, <1>15, <1>16, <1>17
  DEF Next, Bus, Audio

\* The lock stays with the thread whose pc says it holds it.
LEMMA LockStep == IInv /\ [Next]_vars => LockHeld'
<1> SUFFICES ASSUME IInv, [Next]_vars PROVE LockHeld'
  OBVIOUS
<1> USE DEF IInv, LockHeld, LockFree, TypeOK
<1>1. ASSUME NEW volume \in Volumes, SetStateData(volume) PROVE LockHeld'
  BY <1>1 DEF SetStateData, BuildStateReport, atomics, busVars, audioVars, linkVars
<1>2. ASSUME NEW connected \in BOOLEAN, SetHeadset(connected) PROVE LockHeld'
  BY <1>2 DEF SetHeadset, MarkRace, atomics, busVars, audioVars, linkVars
<1>3. ASSUME NEW muted \in BOOLEAN, SetMicMuted(muted) PROVE LockHeld'
  BY <1>3 DEF SetMicMuted, atomics, busVars, audioVars, linkVars
<1>4. ASSUME NEW volume \in Volumes, ApplyUsbAudioFeatureReport(volume) PROVE LockHeld'
  BY <1>4 DEF ApplyUsbAudioFeatureReport, atomics, busVars, audioVars, linkVars
<1>5. ASSUME NEW route \in Routes, SetAudioRouteOverride(route) PROVE LockHeld'
  BY <1>5 DEF SetAudioRouteOverride, MarkRace, atomics, busVars, audioVars, linkVars
<1>6. CASE PushState
  BY <1>6 DEF PushState, BuildStateReport, atomics, busVars, audioVars, linkVars
<1>7. CASE BusWrite
  BY <1>7 DEF BusWrite, atomics, busVars, audioVars, linkVars
<1>8. CASE HapticsPacket
  BY <1>8 DEF HapticsPacket, StartPacket, atomics, busVars, audioVars, linkVars
<1>9. ASSUME NEW route \in Routes, WaveOutPacket(route) PROVE LockHeld'
  BY <1>9 DEF WaveOutPacket, StartPacket, atomics, busVars, audioVars, linkVars
<1>10. CASE MicKeepalive
  BY <1>10 DEF MicKeepalive, StartPacket, atomics, busVars, audioVars, linkVars
<1>11. CASE PickOverride
  BY <1>11 DEF PickOverride, atomics, busVars, audioVars, linkVars
<1>12. CASE PickHeadset
  BY <1>12 DEF PickHeadset, atomics, busVars, audioVars, linkVars
<1>13. CASE LockAndLoadRoute
  BY <1>13 DEF LockAndLoadRoute, atomics, busVars, audioVars, linkVars
<1>14. CASE BuildPacket
  BY <1>14 DEF BuildPacket, atomics, busVars, audioVars, linkVars
<1>15. CASE AudioWrite
  BY <1>15 DEF AudioWrite, atomics, busVars, audioVars, linkVars
<1>16. CASE AudioWindowExpires
  BY <1>16, SMTT(30)
  DEF AudioWindowExpires, atomics, busVars, audioVars, linkVars
<1>17. CASE UNCHANGED vars
  BY <1>17 DEF vars, atomics, busVars, audioVars, linkVars
<1> QED
  BY <1>1, <1>2, <1>3, <1>4, <1>5, <1>6, <1>7, <1>8,
     <1>9, <1>10, <1>11, <1>12, <1>13, <1>14, <1>15, <1>16, <1>17
  DEF Next, Bus, Audio

\* A report takes the number after the last one written, and no other report
\* comes between its number and its write.
LEMMA NumberStep == IInv /\ [Next]_vars => NumberInv'
<1> SUFFICES ASSUME IInv, [Next]_vars PROVE NumberInv'
  OBVIOUS
<1> USE DEF IInv, NumberInv, LastNumber, LockHeld, LockFree, ReportFresh
<1>1. ASSUME NEW volume \in Volumes, SetStateData(volume) PROVE NumberInv'
  <2>1. busPc = "idle" /\ audioPc # "write"
    BY <1>1 DEF SetStateData
  <2> QED
    BY <1>1, <2>1 DEF SetStateData, BuildStateReport, atomics, busVars, audioVars, linkVars
<1>2. ASSUME NEW connected \in BOOLEAN, SetHeadset(connected) PROVE NumberInv'
  BY <1>2 DEF SetHeadset, MarkRace, atomics, busVars, audioVars, linkVars
<1>3. ASSUME NEW muted \in BOOLEAN, SetMicMuted(muted) PROVE NumberInv'
  BY <1>3 DEF SetMicMuted, atomics, busVars, audioVars, linkVars
<1>4. ASSUME NEW volume \in Volumes, ApplyUsbAudioFeatureReport(volume) PROVE NumberInv'
  BY <1>4 DEF ApplyUsbAudioFeatureReport, atomics, busVars, audioVars, linkVars
<1>5. ASSUME NEW route \in Routes, SetAudioRouteOverride(route) PROVE NumberInv'
  BY <1>5 DEF SetAudioRouteOverride, MarkRace, atomics, busVars, audioVars, linkVars
<1>6. CASE PushState
  BY <1>6 DEF PushState, BuildStateReport, atomics, busVars, audioVars, linkVars
<1>7. CASE BusWrite
  <2>1. LastNumber' = busReport.seq /\ audioPc # "write"
    BY <1>7 DEF BusWrite, Send
  <2> QED
    BY <1>7, <2>1 DEF BusWrite, atomics, busVars, audioVars, linkVars
<1>8. CASE HapticsPacket
  BY <1>8 DEF HapticsPacket, StartPacket, atomics, busVars, audioVars, linkVars
<1>9. ASSUME NEW route \in Routes, WaveOutPacket(route) PROVE NumberInv'
  BY <1>9 DEF WaveOutPacket, StartPacket, atomics, busVars, audioVars, linkVars
<1>10. CASE MicKeepalive
  BY <1>10 DEF MicKeepalive, StartPacket, atomics, busVars, audioVars, linkVars
<1>11. CASE PickOverride
  BY <1>11 DEF PickOverride, atomics, busVars, audioVars, linkVars
<1>12. CASE PickHeadset
  BY <1>12 DEF PickHeadset, atomics, busVars, audioVars, linkVars
<1>13. CASE LockAndLoadRoute
  BY <1>13 DEF LockAndLoadRoute, atomics, busVars, audioVars, linkVars
<1>14. CASE BuildPacket
  BY <1>14 DEF BuildPacket, atomics, busVars, audioVars, linkVars
<1>15. CASE AudioWrite
  <2>1. LastNumber' = audioReport.seq /\ busPc # "write"
    BY <1>15 DEF AudioWrite, Send
  <2> QED
    BY <1>15, <2>1 DEF AudioWrite, atomics, busVars, audioVars, linkVars
<1>16. CASE AudioWindowExpires
  BY <1>16 DEF AudioWindowExpires, atomics, busVars, audioVars, linkVars
<1>17. CASE UNCHANGED vars
  BY <1>17 DEF vars, atomics, busVars, audioVars, linkVars
<1> QED
  BY <1>1, <1>2, <1>3, <1>4, <1>5, <1>6, <1>7, <1>8,
     <1>9, <1>10, <1>11, <1>12, <1>13, <1>14, <1>15, <1>16, <1>17
  DEF Next, Bus, Audio

\* Nobody changes stateData while a report built from it waits for its write.
LEMMA FreshStep == IInv /\ [Next]_vars => ReportFresh'
<1> SUFFICES ASSUME IInv, [Next]_vars PROVE ReportFresh'
  OBVIOUS
<1> USE DEF IInv, ReportFresh, LockHeld, LockFree
<1>1. ASSUME NEW volume \in Volumes, SetStateData(volume) PROVE ReportFresh'
  BY <1>1 DEF SetStateData, BuildStateReport, atomics, busVars, audioVars, linkVars
<1>2. ASSUME NEW connected \in BOOLEAN, SetHeadset(connected) PROVE ReportFresh'
  BY <1>2 DEF SetHeadset, MarkRace, atomics, busVars, audioVars, linkVars
<1>3. ASSUME NEW muted \in BOOLEAN, SetMicMuted(muted) PROVE ReportFresh'
  BY <1>3 DEF SetMicMuted, atomics, busVars, audioVars, linkVars
<1>4. ASSUME NEW volume \in Volumes, ApplyUsbAudioFeatureReport(volume) PROVE ReportFresh'
  BY <1>4 DEF ApplyUsbAudioFeatureReport, atomics, busVars, audioVars, linkVars
<1>5. ASSUME NEW route \in Routes, SetAudioRouteOverride(route) PROVE ReportFresh'
  BY <1>5 DEF SetAudioRouteOverride, MarkRace, atomics, busVars, audioVars, linkVars
<1>6. CASE PushState
  BY <1>6 DEF PushState, BuildStateReport, atomics, busVars, audioVars, linkVars
<1>7. CASE BusWrite
  BY <1>7 DEF BusWrite, atomics, busVars, audioVars, linkVars
<1>8. CASE HapticsPacket
  BY <1>8 DEF HapticsPacket, StartPacket, atomics, busVars, audioVars, linkVars
<1>9. ASSUME NEW route \in Routes, WaveOutPacket(route) PROVE ReportFresh'
  BY <1>9 DEF WaveOutPacket, StartPacket, atomics, busVars, audioVars, linkVars
<1>10. CASE MicKeepalive
  BY <1>10 DEF MicKeepalive, StartPacket, atomics, busVars, audioVars, linkVars
<1>11. CASE PickOverride
  BY <1>11 DEF PickOverride, atomics, busVars, audioVars, linkVars
<1>12. CASE PickHeadset
  BY <1>12 DEF PickHeadset, atomics, busVars, audioVars, linkVars
<1>13. CASE LockAndLoadRoute
  BY <1>13 DEF LockAndLoadRoute, atomics, busVars, audioVars, linkVars
<1>14. CASE BuildPacket
  BY <1>14 DEF BuildPacket, atomics, busVars, audioVars, linkVars
<1>15. CASE AudioWrite
  BY <1>15 DEF AudioWrite, atomics, busVars, audioVars, linkVars
<1>16. CASE AudioWindowExpires
  BY <1>16 DEF AudioWindowExpires, atomics, busVars, audioVars, linkVars
<1>17. CASE UNCHANGED vars
  BY <1>17 DEF vars, atomics, busVars, audioVars, linkVars
<1> QED
  BY <1>1, <1>2, <1>3, <1>4, <1>5, <1>6, <1>7, <1>8,
     <1>9, <1>10, <1>11, <1>12, <1>13, <1>14, <1>15, <1>16, <1>17
  DEF Next, Bus, Audio

\* The atomics never run ahead of stateData except on the way to PushState.
LEMMA CurrentStep == IInv /\ [Next]_vars => StateDataCurrent'
<1> SUFFICES ASSUME IInv, [Next]_vars PROVE StateDataCurrent'
  OBVIOUS
<1> USE DEF IInv, StateDataCurrent, Current
<1>1. ASSUME NEW volume \in Volumes, SetStateData(volume) PROVE StateDataCurrent'
  <2>1. [stateData EXCEPT !.host = @ + 1] \in StateBlock
    BY <1>1, MaxHostReportsAssumption DEF SetStateData, TypeOK, StateBlock
  <2> QED
    BY <1>1, <2>1, NormalizedFields DEF SetStateData, ApplyUsbOutputReport
<1>2. ASSUME NEW connected \in BOOLEAN, SetHeadset(connected) PROVE StateDataCurrent'
  BY <1>2 DEF SetHeadset, MarkRace, atomics, busVars, audioVars, linkVars
<1>3. ASSUME NEW muted \in BOOLEAN, SetMicMuted(muted) PROVE StateDataCurrent'
  BY <1>3 DEF SetMicMuted, atomics, busVars, audioVars, linkVars
<1>4. ASSUME NEW volume \in Volumes, ApplyUsbAudioFeatureReport(volume) PROVE StateDataCurrent'
  BY <1>4 DEF ApplyUsbAudioFeatureReport, atomics, busVars, audioVars, linkVars
<1>5. ASSUME NEW route \in Routes, SetAudioRouteOverride(route) PROVE StateDataCurrent'
  BY <1>5 DEF SetAudioRouteOverride, MarkRace, atomics, busVars, audioVars, linkVars
<1>6. CASE PushState
  BY <1>6, NormalizedFields DEF PushState, atomics, TypeOK
<1>7. CASE BusWrite
  BY <1>7 DEF BusWrite, atomics, busVars, audioVars, linkVars
<1>8. CASE HapticsPacket
  BY <1>8 DEF HapticsPacket, StartPacket, atomics, busVars, audioVars, linkVars
<1>9. ASSUME NEW route \in Routes, WaveOutPacket(route) PROVE StateDataCurrent'
  BY <1>9 DEF WaveOutPacket, StartPacket, atomics, busVars, audioVars, linkVars
<1>10. CASE MicKeepalive
  BY <1>10 DEF MicKeepalive, StartPacket, atomics, busVars, audioVars, linkVars
<1>11. CASE PickOverride
  BY <1>11 DEF PickOverride, atomics, busVars, audioVars, linkVars
<1>12. CASE PickHeadset
  BY <1>12 DEF PickHeadset, atomics, busVars, audioVars, linkVars
<1>13. CASE LockAndLoadRoute
  BY <1>13, NormalizedFields DEF LockAndLoadRoute, atomics, busVars, TypeOK
<1>14. CASE BuildPacket
  BY <1>14, NormalizedFields DEF BuildPacket, atomics, busVars, TypeOK
<1>15. CASE AudioWrite
  BY <1>15 DEF AudioWrite, atomics, busVars, audioVars, linkVars
<1>16. CASE AudioWindowExpires
  BY <1>16 DEF AudioWindowExpires, atomics, busVars, audioVars, linkVars
<1>17. CASE UNCHANGED vars
  BY <1>17 DEF vars, atomics, busVars, audioVars, linkVars
<1> QED
  BY <1>1, <1>2, <1>3, <1>4, <1>5, <1>6, <1>7, <1>8,
     <1>9, <1>10, <1>11, <1>12, <1>13, <1>14, <1>15, <1>16, <1>17
  DEF Next, Bus, Audio

\* The controller falls behind stateData only through a lost write or a report
\* left to an audio packet.
LEMMA ControllerStep == IInv /\ [Next]_vars => ControllerCurrent'
<1> SUFFICES ASSUME IInv, [Next]_vars PROVE ControllerCurrent'
  OBVIOUS
<1> USE DEF IInv, ControllerCurrent
<1>1. ASSUME NEW volume \in Volumes, SetStateData(volume) PROVE ControllerCurrent'
  <2>1. [stateData EXCEPT !.host = @ + 1] \in StateBlock
    BY <1>1, MaxHostReportsAssumption DEF SetStateData, TypeOK, StateBlock
  <2>2. stateData'.muted = stateData.muted
    BY <1>1, <2>1, NormalizedFields DEF SetStateData, StateDataCurrent, Current
  <2> QED
    BY <1>1, <2>2 DEF SetStateData, BuildStateReport, linkVars
<1>2. ASSUME NEW connected \in BOOLEAN, SetHeadset(connected) PROVE ControllerCurrent'
  BY <1>2 DEF SetHeadset, MarkRace, atomics, busVars, audioVars, linkVars
<1>3. ASSUME NEW muted \in BOOLEAN, SetMicMuted(muted) PROVE ControllerCurrent'
  BY <1>3 DEF SetMicMuted, atomics, busVars, audioVars, linkVars
<1>4. ASSUME NEW volume \in Volumes, ApplyUsbAudioFeatureReport(volume) PROVE ControllerCurrent'
  BY <1>4 DEF ApplyUsbAudioFeatureReport, atomics, busVars, audioVars, linkVars
<1>5. ASSUME NEW route \in Routes, SetAudioRouteOverride(route) PROVE ControllerCurrent'
  BY <1>5 DEF SetAudioRouteOverride, MarkRace, atomics, busVars, audioVars, linkVars
<1>6. CASE PushState
  BY <1>6 DEF PushState, BuildStateReport
<1>7. CASE BusWrite
  BY <1>7 DEF BusWrite, Send, Delivered, Dropped, CarriesState, ReportFresh
<1>8. CASE HapticsPacket
  BY <1>8 DEF HapticsPacket, StartPacket, atomics, busVars, audioVars, linkVars
<1>9. ASSUME NEW route \in Routes, WaveOutPacket(route) PROVE ControllerCurrent'
  BY <1>9 DEF WaveOutPacket, StartPacket, atomics, busVars, audioVars, linkVars
<1>10. CASE MicKeepalive
  BY <1>10 DEF MicKeepalive, StartPacket, atomics, busVars, audioVars, linkVars
<1>11. CASE PickOverride
  BY <1>11 DEF PickOverride, atomics, busVars, audioVars, linkVars
<1>12. CASE PickHeadset
  BY <1>12 DEF PickHeadset, atomics, busVars, audioVars, linkVars
<1>13. CASE LockAndLoadRoute
  BY <1>13, NormalizedFields DEF LockAndLoadRoute, busVars, linkVars, TypeOK
<1>14. CASE BuildPacket
  <2>1. busPc = "idle" => UNCHANGED <<stateData.muted, stateData.volume, stateData.host>>
    BY <1>14, NormalizedFields DEF BuildPacket, TypeOK, StateDataCurrent, Current
  <2> QED
    BY <1>14, <2>1 DEF BuildPacket, busVars, linkVars
<1>15. CASE AudioWrite
  BY <1>15 DEF AudioWrite, Send, Delivered, Dropped, CarriesState, ReportFresh, busVars
<1>16. CASE AudioWindowExpires
  BY <1>16 DEF AudioWindowExpires, atomics, busVars, audioVars, linkVars
<1>17. CASE UNCHANGED vars
  BY <1>17 DEF vars, atomics, busVars, audioVars, linkVars
<1> QED
  BY <1>1, <1>2, <1>3, <1>4, <1>5, <1>6, <1>7, <1>8,
     <1>9, <1>10, <1>11, <1>12, <1>13, <1>14, <1>15, <1>16, <1>17
  DEF Next, Bus, Audio

\* A packet keeps the route its loads agreed on unless a store overtakes it.
LEMMA RouteStep == IInv /\ [Next]_vars => RouteInv'
<1> SUFFICES ASSUME IInv, [Next]_vars PROVE RouteInv'
  OBVIOUS
<1> USE DEF IInv, RouteInv, RouteHeadset
<1>1. ASSUME NEW volume \in Volumes, SetStateData(volume) PROVE RouteInv'
  <2>1. audioPc \notin {"build", "write"}
    BY <1>1 DEF SetStateData, LockFree, LockHeld
  <2> QED
    BY <1>1, <2>1 DEF SetStateData, audioVars
<1>2. ASSUME NEW connected \in BOOLEAN, SetHeadset(connected) PROVE RouteInv'
  BY <1>2 DEF SetHeadset, MarkRace, TypeOK, Call, atomics, busVars, audioVars
<1>3. ASSUME NEW muted \in BOOLEAN, SetMicMuted(muted) PROVE RouteInv'
  BY <1>3 DEF SetMicMuted, atomics, busVars, audioVars, linkVars
<1>4. ASSUME NEW volume \in Volumes, ApplyUsbAudioFeatureReport(volume) PROVE RouteInv'
  BY <1>4 DEF ApplyUsbAudioFeatureReport, atomics, busVars, audioVars, linkVars
<1>5. ASSUME NEW route \in Routes, SetAudioRouteOverride(route) PROVE RouteInv'
  BY <1>5 DEF SetAudioRouteOverride, MarkRace, TypeOK, Call, atomics, audioVars
<1>6. CASE PushState
  <2>1. audioPc \notin {"build", "write"}
    BY <1>6 DEF PushState, LockFree, LockHeld
  <2> QED
    BY <1>6, <2>1 DEF PushState, atomics, audioVars
<1>7. CASE BusWrite
  BY <1>7 DEF BusWrite, atomics, busVars, audioVars, linkVars
<1>8. CASE HapticsPacket
  BY <1>8 DEF HapticsPacket, StartPacket, atomics, busVars, audioVars, linkVars
<1>9. ASSUME NEW route \in Routes, WaveOutPacket(route) PROVE RouteInv'
  BY <1>9 DEF WaveOutPacket, StartPacket, atomics, busVars, audioVars, linkVars
<1>10. CASE MicKeepalive
  BY <1>10 DEF MicKeepalive, StartPacket, atomics, busVars, audioVars, linkVars
<1>11. CASE PickOverride
  BY <1>11 DEF PickOverride, TypeOK, Call, Routes, NoRoute, atomics
<1>12. CASE PickHeadset
  BY <1>12 DEF PickHeadset, HeadsetRoute, TypeOK, Call, Routes, NoRoute, atomics
<1>13. CASE LockAndLoadRoute
  BY <1>13, NormalizedFields DEF LockAndLoadRoute, TypeOK, audioVars
<1>14. CASE BuildPacket
  <2>1. stateData'.headset = stateData.headset
    BY <1>14, NormalizedFields DEF BuildPacket, TypeOK
  <2>2. audioPc' = "write" /\ audioCall' = audioCall
        /\ audioReport'.route = audioCall.route
    BY <1>14 DEF BuildPacket
  <2> QED
    BY <1>14, <2>1, <2>2 DEF BuildPacket
<1>15. CASE AudioWrite
  BY <1>15 DEF AudioWrite, NoCall
<1>16. CASE AudioWindowExpires
  BY <1>16 DEF AudioWindowExpires, atomics, busVars, audioVars, linkVars
<1>17. CASE UNCHANGED vars
  BY <1>17 DEF vars, atomics, busVars, audioVars, linkVars
<1> QED
  BY <1>1, <1>2, <1>3, <1>4, <1>5, <1>6, <1>7, <1>8,
     <1>9, <1>10, <1>11, <1>12, <1>13, <1>14, <1>15, <1>16, <1>17
  DEF Next, Bus, Audio

-----------------------------------------------------------------------------
(* The inductive invariant and the theorems.                               *)

LEMMA IInvInit == Init => IInv
<1> SUFFICES ASSUME Init PROVE IInv
  OBVIOUS
<1>1. TypeOK
  BY TypeInit
<1>2. LockHeld /\ ReportFresh /\ RouteInv
  BY DEF Init, LockHeld, ReportFresh, RouteInv, NoCall
<1>3. NumberInv
  <2>1. (0 + 1) % SeqMod = 1 % SeqMod
    OBVIOUS
  <2> QED
    BY <2>1 DEF Init, NumberInv, LastNumber, NextSeq
<1>4. StateDataCurrent /\ ControllerCurrent
  BY DEF Init, StateDataCurrent, ControllerCurrent, Current
<1> QED
  BY <1>1, <1>2, <1>3, <1>4 DEF IInv

LEMMA IInvStep == IInv /\ [Next]_vars => IInv'
  BY TypeStep, LockStep, NumberStep, FreshStep, CurrentStep, ControllerStep,
     RouteStep
  DEF IInv

\* Every reachable state satisfies IInv.
THEOREM Invariance == Spec => []IInv
  BY IInvInit, IInvStep, PTL DEF Spec

\* Every variable keeps its type: no report number leaves its field, no volume
\* its range, and no pc strays.
THEOREM TypeCorrect == Spec => []TypeOK
<1>1. IInv => TypeOK
  BY DEF IInv
<1> QED
  BY Invariance, <1>1, PTL

\* With nothing lost and nothing deferred the controller is in sync whenever
\* the event bus thread is between two calls, whatever the audio thread does.
THEOREM InSync == Spec => []ControllerInSync
<1>1. IInv => ControllerInSync
  BY DEF IInv, ControllerInSync, ControllerCurrent, StateDataCurrent, Current
<1> QED
  BY Invariance, <1>1, PTL

\* A packet of sendCombine contradicts itself only when a store to headset or
\* audioRouteOverride fell between its two loads of the route.
THEOREM Coherent == Spec => []CombineIsCoherent
<1>1. IInv => CombineIsCoherent
  <2> SUFFICES ASSUME IInv, audioPc = "write",
                      audioCall.op = "sendCombine", ~audioCall.raced
               PROVE  (audioReport.route = "headset") <=> audioReport.state.headset
    BY DEF CombineIsCoherent
  <2>1. audioReport.route = audioCall.route
    BY DEF IInv, RouteInv
  <2>2. (audioCall.route = "headset") <=> stateData.headset
    BY DEF IInv, RouteInv
  <2>3. audioReport.state = stateData
    BY DEF IInv, ReportFresh
  <2> QED
    BY <2>1, <2>2, <2>3
<1> QED
  BY Invariance, <1>1, PTL

-----------------------------------------------------------------------------
(* Refinement: the two threads together send one ReportStream.             *)

LEMMA StreamInit == Init => Stream!Init
<1> SUFFICES ASSUME Init PROVE Stream!Init
  OBVIOUS
<1>1. LastNumber \in 0..(SeqMod - 1)
  BY TypeInit, SeqModAssumption DEF TypeOK, LastNumber, Header, Seqs
<1>2. controller.host = 0
  BY DEF Init
<1> QED
  BY <1>1, <1>2 DEF Init, Stream!Init, LastNumber

\* The write of a report that carries the next number and stateData itself is
\* a Transmit of the stream.
LEMMA SendIsTransmit ==
  ASSUME NEW report, Send(report),
         report.kind # "initial",
         report.seq = NextSeq(LastNumber),
         report.state = stateData,
         UNCHANGED stateData
  PROVE  Stream!Transmit
<1>1. LastNumber' = NextSeq(LastNumber)
  BY DEF Send, LastNumber
<1>2. controller'.host \in {controller.host, stateData.host}
  BY DEF Send, Delivered, Dropped
<1> QED
  BY <1>1, <1>2 DEF Stream!Transmit, LastNumber, NextSeq

LEMMA StreamStep == IInv /\ [Next]_vars => [Stream!Next]_(Stream!vars)
<1> SUFFICES ASSUME IInv, [Next]_vars PROVE [Stream!Next]_(Stream!vars)
  OBVIOUS
<1> USE DEF IInv, Stream!vars
<1>1. ASSUME NEW volume \in Volumes, SetStateData(volume)
      PROVE  [Stream!Next]_(Stream!vars)
  <2>1. [stateData EXCEPT !.host = @ + 1] \in StateBlock
    BY <1>1, MaxHostReportsAssumption DEF SetStateData, TypeOK, StateBlock
  <2>2. stateData'.host = stateData.host + 1
    BY <1>1, <2>1, NormalizedFields DEF SetStateData, TypeOK, StateBlock
  <2>3. Stream!Accept
    BY <1>1, <2>2 DEF SetStateData, Stream!Accept
  <2> QED
    BY <2>3 DEF Stream!Next
<1>2. ASSUME NEW connected \in BOOLEAN, SetHeadset(connected)
      PROVE  [Stream!Next]_(Stream!vars)
  BY <1>2 DEF SetHeadset, MarkRace, linkVars
<1>3. ASSUME NEW muted \in BOOLEAN, SetMicMuted(muted)
      PROVE  [Stream!Next]_(Stream!vars)
  BY <1>3 DEF SetMicMuted, linkVars
<1>4. ASSUME NEW volume \in Volumes, ApplyUsbAudioFeatureReport(volume)
      PROVE  [Stream!Next]_(Stream!vars)
  BY <1>4 DEF ApplyUsbAudioFeatureReport, linkVars
<1>5. ASSUME NEW route \in Routes, SetAudioRouteOverride(route)
      PROVE  [Stream!Next]_(Stream!vars)
  BY <1>5 DEF SetAudioRouteOverride, MarkRace, linkVars
<1>6. CASE PushState
  BY <1>6, NormalizedFields DEF PushState, TypeOK, linkVars
<1>7. CASE BusWrite
  BY <1>7, SendIsTransmit DEF BusWrite, NumberInv, ReportFresh, Stream!Next
<1>8. CASE HapticsPacket
  BY <1>8 DEF HapticsPacket, StartPacket, linkVars
<1>9. ASSUME NEW route \in Routes, WaveOutPacket(route)
      PROVE  [Stream!Next]_(Stream!vars)
  BY <1>9 DEF WaveOutPacket, StartPacket, linkVars
<1>10. CASE MicKeepalive
  BY <1>10 DEF MicKeepalive, StartPacket, linkVars
<1>11. CASE PickOverride
  BY <1>11 DEF PickOverride, linkVars
<1>12. CASE PickHeadset
  BY <1>12 DEF PickHeadset, linkVars
<1>13. CASE LockAndLoadRoute
  BY <1>13, NormalizedFields DEF LockAndLoadRoute, TypeOK, linkVars
<1>14. CASE BuildPacket
  BY <1>14, NormalizedFields DEF BuildPacket, TypeOK, linkVars
<1>15. CASE AudioWrite
  BY <1>15, SendIsTransmit DEF AudioWrite, NumberInv, ReportFresh, Stream!Next
<1>16. CASE AudioWindowExpires
  BY <1>16 DEF AudioWindowExpires, linkVars
<1>17. CASE UNCHANGED vars
  BY <1>17 DEF vars, linkVars
<1> QED
  BY <1>1, <1>2, <1>3, <1>4, <1>5, <1>6, <1>7, <1>8,
     <1>9, <1>10, <1>11, <1>12, <1>13, <1>14, <1>15, <1>16, <1>17
  DEF Next, Bus, Audio

\* Consecutive numbers across both threads, and never a stale state.
THEOREM Refinement == Spec => ImplementsStream
  BY StreamInit, StreamStep, Invariance, PTL DEF Spec, ImplementsStream, Stream!Spec
=============================================================================
