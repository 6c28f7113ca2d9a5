----------------------------- MODULE InputPath -----------------------------
(***************************************************************************)
(* The input side of the dongle: how the controller's reports become the   *)
(* USB input report, the microphone's mute state, the headset flag and the *)
(* microphone stream (event_bus and its helpers in src/main.cpp, drain in  *)
(* src/DebugHIDInput.cpp, handleMicButton in src/BTHID.cpp,                *)
(* mic_add_packet in src/ALSARecord.cpp).                                  *)
(*                                                                         *)
(* The kernel hands every report of the controller to two readers of the   *)
(* event bus thread: the hidraw node, read one report per epoll event, and *)
(* the debugfs "events" file of the same device, which drain empties once  *)
(* per round of the loop.  Both copies carry the same reports in the same  *)
(* order, so each reader is modelled by how far it has come in `sent'; the *)
(* HID core writes the debugfs copy first, so drain is never behind.       *)
(***************************************************************************)
EXTENDS Integers, Sequences, FiniteSetsExt

CONSTANTS
  MaxReports,     \* bound: how many reports the controller sends
  MaxDualReports, \* the same while there are two sources, whose steps multiply
  Kinds,          \* kinds of reports it sends: some of "input", "mic", "short"
  DebugAtStart    \* what DebugHIDInput::init may find: "open", "absent"

ASSUME MaxReportsAssumption == MaxReports \in Nat /\ MaxDualReports \in Nat
ASSUME KindsAssumption == Kinds \subseteq {"input", "mic", "short"}
ASSUME DebugAtStartAssumption == DebugAtStart \subseteq {"open", "absent"}

VARIABLES
  sent,            \* the reports the controller has sent
  btSeen,          \* how many of them were read from the hidraw node
  debugSeen,       \* how many of them were read from the debugfs file
  debug,           \* "open", "absent" or (after an error or EOF) "failed"
  buttonMute,      \* the environment lets the mic button toggle the mute
  lastMicButton, micMuted, headset,   \* of BTHID
  interruptData,   \* the USB input report being assembled
  host,            \* the last USB input report the host received
  written,         \* history: the mic packets written to the USB mic
  failedAt,        \* history: btSeen when the debugfs file failed
  pc               \* where the event bus thread is in its loop

controls == <<lastMicButton, micMuted, headset>>
vars == <<sent, btSeen, debugSeen, debug, buttonMute, controls,
          interruptData, host, written, failedAt, pc>>

-----------------------------------------------------------------------------

\* An input report has the mic button and the headset bit; the audio payload
\* and the controls of a short report are not told apart.
Report == [kind : {"input"}, button : BOOLEAN, headset : BOOLEAN]
          \cup [kind : {"mic", "short"}, button : {FALSE}, headset : {FALSE}]

\* The USB input report: the report its sticks and buttons come from (0: the
\* resting values of the initial array) and the mute bit of its status byte.
UsbReport(n) == [from : 0..n, muted : BOOLEAN]

DebugAvailable == debug = "open"

OfKind(reports, kind) == {i \in reports : sent[i].kind = kind}

\* The report a drain leaves behind: of several, the last one copied.
NewestOf(inputs) == Max(inputs)

\* Mutant: the button's level toggles, not its edge.
HandleMicButtonLevel(pressed) ==
  /\ lastMicButton' = pressed
  /\ micMuted' = IF buttonMute THEN micMuted # pressed ELSE FALSE

\* handleMicButton; with the button disabled a muted microphone is unmuted.
HandleMicButton(pressed) ==
  /\ lastMicButton' = pressed
  /\ micMuted' = IF buttonMute
                 THEN micMuted # (pressed /\ ~lastMicButton)
                 ELSE FALSE

\* Mutant: unplugging the headset goes unnoticed.
SetHeadsetSticky(report) == headset' = (headset \/ report.headset)

\* setHeadset, with the headset bit of the status byte.
SetHeadset(report) == headset' = report.headset

\* Mutant: the mute bit is left as it is.
UnsyncedMute(data, muted) == data

\* sync_usb_mic_mute_status: the host sees BTHID's mute state, not the status
\* bit the controller sent.
SyncedMute(data, muted) == [data EXCEPT !.muted = muted]

\* The n-th of a set of reports.
NthOf(reports, n) ==
  CHOOSE i \in reports : Cardinality({j \in reports : j < i}) = n - 1

\* Mutant: the packet is not silenced.
WriteMicAloud(reports, source) ==
  \E kept \in SUBSET OfKind(reports, "mic") :
    written' = written \o [n \in 1..Cardinality(kept) |->
                             [packet |-> NthOf(kept, n), source |-> source,
                              silent |-> FALSE]]

\* Mutant: the mono and the stereo write both happen.
WriteMicTwice(reports, source) ==
  \E kept \in SUBSET OfKind(reports, "mic") :
    written' = written \o [n \in 1..2 * Cardinality(kept) |->
                             [packet |-> NthOf(kept, (n + 1) \div 2),
                              source |-> source, silent |-> micMuted]]

\* mic_add_packet, for each microphone report among `reports', in order: a
\* packet that arrives while muted is replaced by silence.  Any of them may be
\* lost: too short, not decoded, or refused by the USB microphone, whose buffer
\* is full or which has to be restarted.
WriteMic(reports, source) ==
  \E kept \in SUBSET OfKind(reports, "mic") :
    written' = written \o [n \in 1..Cardinality(kept) |->
                             [packet |-> NthOf(kept, n), source |-> source,
                              silent |-> micMuted]]

-----------------------------------------------------------------------------

\* The bound that applies: init finds the file or not, once and for all.
ReportBound == IF debug = "absent" THEN MaxReports ELSE MaxDualReports

\* The controller sends a report: both files of the device will have it.
Emit(report) ==
  /\ Len(sent) < ReportBound
  /\ report.kind \in Kinds
  /\ sent' = Append(sent, report)
  /\ UNCHANGED <<btSeen, debugSeen, debug, buttonMute, controls,
                 interruptData, host, written, failedAt, pc>>

\* A drain that reads up to report n.  Mic packets go out as their lines are
\* parsed; of the input reports only the last is looked at, after the drain.
\* The copied status byte still has the controller's own mute bit.
DrainUpTo(n) ==
  LET batch  == (debugSeen + 1)..n
      inputs == OfKind(batch, "input")
  IN  /\ debugSeen' = n
      /\ WriteMic(batch, "debug")
      /\ \/ /\ inputs = {}
            /\ UNCHANGED <<controls, interruptData>>
         \/ /\ inputs # {}
            /\ \E bit \in BOOLEAN :
                 interruptData' = [from |-> NewestOf(inputs), muted |-> bit]
            /\ SetHeadset(sent[NewestOf(inputs)])
            /\ HandleMicButton(sent[NewestOf(inputs)].button)

\* drain reads until the file is empty.
Drain ==
  /\ pc = "drain" /\ DebugAvailable
  /\ \E n \in Max({btSeen, debugSeen})..Len(sent) : DrainUpTo(n)
  /\ pc' = "send"
  /\ UNCHANGED <<sent, btSeen, debug, buttonMute, host, failedAt>>

\* A read error or EOF ends the drain early; what was read still counts, and
\* from now on the hidraw node is the only source.
DrainFails ==
  /\ pc = "drain" /\ DebugAvailable
  /\ \E n \in debugSeen..Len(sent) : DrainUpTo(n)
  /\ debug' = "failed" /\ failedAt' = btSeen
  /\ pc' = "send"
  /\ UNCHANGED <<sent, btSeen, buttonMute, host>>

SkipDrain ==
  /\ pc = "drain" /\ ~DebugAvailable
  /\ pc' = "send"
  /\ UNCHANGED <<sent, btSeen, debugSeen, debug, buttonMute, controls,
                 interruptData, host, written, failedAt>>

\* The 4 ms period has passed: the report goes to the host.
UsbSend ==
  /\ pc = "send"
  /\ interruptData' = SyncedMute(interruptData, micMuted)
  /\ host' = interruptData'
  /\ pc' = "wait"
  /\ UNCHANGED <<sent, btSeen, debugSeen, debug, buttonMute, controls, written,
                 failedAt>>

\* The same, but the write fails with EAGAIN; the report is not kept.
UsbSendFails ==
  /\ pc = "send"
  /\ interruptData' = SyncedMute(interruptData, micMuted)
  /\ pc' = "wait"
  /\ UNCHANGED <<sent, btSeen, debugSeen, debug, buttonMute, controls, host,
                 written, failedAt>>

SendNotDue ==
  /\ pc = "send"
  /\ pc' = "wait"
  /\ UNCHANGED <<sent, btSeen, debugSeen, debug, buttonMute, controls,
                 interruptData, host, written, failedAt>>

\* Mutant: the copy is off by one.
ApplyShortOffByOne(i) ==
  /\ interruptData' = IF DebugAvailable THEN interruptData
                      ELSE [interruptData EXCEPT !.from = i + 1]
  /\ UNCHANGED <<controls, written>>

\* Mutant: the short report is applied although drain has the full one.
ApplyShortAlways(i) ==
  /\ interruptData' = [interruptData EXCEPT !.from = i]
  /\ UNCHANGED <<controls, written>>

\* A short report updates the sticks and buttons only, and only when there is
\* no debugfs file to do it.
ApplyShortInputReport(i) ==
  /\ interruptData' = IF DebugAvailable THEN interruptData
                      ELSE [interruptData EXCEPT !.from = i]
  /\ UNCHANGED <<controls, written>>

\* A full report: button, headset, then the copy and the mute bit.
ApplyInputReport(i) ==
  /\ HandleMicButton(sent[i].button)
  /\ SetHeadset(sent[i])
  /\ interruptData' = SyncedMute([from |-> i, muted |-> FALSE], micMuted')
  /\ UNCHANGED written

\* The epoll event of the hidraw node: one report is read.
BtRecv ==
  /\ pc = "wait"
  /\ btSeen < Len(sent)
  /\ btSeen' = btSeen + 1
  /\ \/ /\ sent[btSeen'].kind = "short"
        /\ ApplyShortInputReport(btSeen')
     \/ /\ sent[btSeen'].kind = "mic"
        /\ WriteMic({btSeen'}, "bt")
        /\ UNCHANGED <<controls, interruptData>>
     \/ /\ sent[btSeen'].kind = "input"
        /\ ApplyInputReport(btSeen')
  /\ pc' = "drain"
  /\ UNCHANGED <<sent, debugSeen, debug, buttonMute, host, failedAt>>

\* The timeout for the next USB report, or an event of the USB side.
WaitEnds ==
  /\ pc = "wait"
  /\ pc' = "drain"
  /\ UNCHANGED <<sent, btSeen, debugSeen, debug, buttonMute, controls,
                 interruptData, host, written, failedAt>>

-----------------------------------------------------------------------------

Init ==
  /\ sent = << >>
  /\ btSeen = 0 /\ debugSeen = 0
  /\ debug \in DebugAtStart
  /\ buttonMute \in BOOLEAN
  /\ lastMicButton = FALSE /\ micMuted = FALSE /\ headset = FALSE
  /\ interruptData = [from |-> 0, muted |-> FALSE]
  /\ host = interruptData
  /\ written = << >> /\ failedAt = 0
  /\ pc = "drain"

Loop ==
  \/ Drain \/ DrainFails \/ SkipDrain
  \/ UsbSend \/ UsbSendFails \/ SendNotDue
  \/ BtRecv \/ WaitEnds

Next == Loop \/ \E report \in Report : Emit(report)

Spec == Init /\ [][Next]_vars

\* The loop keeps running; the 4 ms deadline comes again and again and the
\* host then takes a report; epoll is level-triggered, so an unread report is
\* not passed over for ever.  The controller owes nothing.
Fairness ==
  /\ WF_vars(Loop)
  /\ SF_vars(UsbSend)
  /\ SF_vars(BtRecv)

FairSpec == Spec /\ Fairness

-----------------------------------------------------------------------------
(* Properties.                                                             *)

TypeOK ==
  /\ sent \in Seq(Report) /\ Len(sent) <= ReportBound
  /\ btSeen \in 0..Len(sent) /\ debugSeen \in 0..Len(sent)
  /\ debug \in {"open", "absent", "failed"}
  /\ buttonMute \in BOOLEAN
  /\ lastMicButton \in BOOLEAN /\ micMuted \in BOOLEAN /\ headset \in BOOLEAN
  /\ interruptData \in UsbReport(Len(sent)) /\ host \in UsbReport(Len(sent))
  /\ written \in Seq([packet : 1..Len(sent), source : {"bt", "debug"},
                      silent : BOOLEAN])
  /\ failedAt \in 0..btSeen
  /\ pc \in {"drain", "send", "wait"}

\* The reports among the first n that press the mic button down.
Presses(n) ==
  LET inputs == OfKind(1..n, "input")
      before(i) == {j \in inputs : j < i}
  IN  {i \in inputs : /\ sent[i].button
                      /\ before(i) = {} \/ ~sent[Max(before(i))].button}

\* What the user expects of the mute state after the first n reports.
MutedAfter(n) == buttonMute /\ Cardinality(Presses(n)) % 2 = 1

AllRead == /\ btSeen = Len(sent)
           /\ DebugAvailable => debugSeen = Len(sent)

\* When everything the controller has sent is read, each press of the mic
\* button has toggled the mute exactly once.
MuteFollowsButton == AllRead => micMuted = MutedAfter(Len(sent))

\* The same where the hidraw node is the only source, as it is without debugfs:
\* no order of rounds, sends and reads loses a press or counts it twice.
MuteFollowsSingleSource == debug = "absent" => MuteFollowsButton

\* With a single source, a mic packet that the controller sent after the button
\* muted it goes to the host as silence.
MutedMicIsSilent ==
  debug = "absent" => \A n \in 1..Len(written) :
                        MutedAfter(written[n].packet) => written[n].silent

\* No mic packet is written to the USB microphone twice, or out of order.
MicPacketsOnce ==
  \A n \in 2..Len(written) : written[n - 1].packet < written[n].packet

\* The same for each source by itself, with one source or two, also when one
\* fails in the middle of a batch: whichever packets get lost, those a source
\* has written are in the order sent, and none is there twice.
MicPacketsInOrder ==
  \A m, n \in 1..Len(written) :
    m < n /\ written[m].source = written[n].source
    => written[m].packet < written[n].packet

\* The reports the controller sent after the debugfs file failed, or that the
\* hidraw node had not delivered yet when it did.
SinceFailure == (failedAt + 1)..Len(sent)

\* The headset flag is that of the newest report once everything is read, even
\* when the two sources have been applied out of step, or when debugfs failed
\* in the middle of a batch.  The drain that fails may be behind the hidraw node
\* and leave an older flag: then it takes one more input report.
HeadsetFollows ==
  /\ AllRead /\ OfKind(1..Len(sent), "input") # {}
  /\ debug = "failed" => OfKind(SinceFailure, "input") # {}
  => headset = sent[Max(OfKind(1..Len(sent), "input"))].headset

\* The newest report that carries controls this configuration uses.
NewestControls ==
  Max({0} \cup OfKind(1..Len(sent), "input")
          \cup IF DebugAvailable THEN {} ELSE OfKind(1..Len(sent), "short"))

\* Once the controller stops sending, the host ends up with the true mute state
\* and the newest controls, although writes fail, reports are overwritten before
\* they are sent, the two sources overtake each other and debugfs fails.  What a
\* drain that failed left behind stays until one more report with controls.
HostSettles ==
  <>[](/\ host.muted = micMuted
       /\ \/ host.from = NewestControls
          \/ debug = "failed" /\ NewestControls \notin SinceFailure)
=============================================================================
