----------------------------- MODULE Lifecycle -----------------------------
(***************************************************************************)
(* The life of the process: main opens the devices one after the other,    *)
(* publishes the controller's feature reports to the USB host and starts   *)
(* the audio thread; event_bus then runs until it finds a device gone, and *)
(* its return value is the exit code for the service manager; the audio    *)
(* thread is stopped and joined on the way out (src/main.cpp, and the      *)
(* `failed' flags of BTHID, USBHID and DebugHIDInput).                     *)
(*                                                                         *)
(* The controller's link may go away at any step.  A call on a device ends *)
(* in one of three ways: it works, it fails with an errno the wrapper      *)
(* calls transient, or it fails for good.                                  *)
(***************************************************************************)
EXTENDS Integers, Sequences

CONSTANTS
  InitialReports,   \* the feature reports main reads and publishes, in order
  ForwardedReport   \* the one forward_usb_feature_report reads and publishes

ASSUME ReportsAssumption == InitialReports \in Seq(STRING \ {ForwardedReport})

VARIABLES
  btLink,               \* the controller is connected
  btFailed, usbFailed,  \* the atomic flags behind healthy()
  debug,                \* DebugHIDInput: "absent", "open" or "failed"
  pc,                   \* of the main thread, event_bus included
  publishing,           \* how many of InitialReports main has handled
  blank,                \* reports published without the controller's answer
  events,               \* what epoll_wait returned and is not handled yet
  audio, stopRequested, \* the audio thread, and its stop token
  exitCode,
  served,               \* history: the host was sent an input report
  causes,               \* history: devices a call failed on for good
  early                 \* history: those that failed before event_bus began

flags     == <<btFailed, usbFailed, causes>>
threads   == <<audio, stopRequested>>
history   == <<served, early>>
vars == <<btLink, flags, debug, pc, publishing, blank, events, threads,
          exitCode, history>>

-----------------------------------------------------------------------------

Outcomes == {"ok", "transient", "error"}
NoExit   == 0
Events   == {"btHup", "btIn", "usbErr", "usbIn"}

\* Mutant: every errno counts as permanent.
CallsNeverTransient(bt, usb) ==
  /\ ~btLink => bt \subseteq {"error"}
  /\ btFailed' = (btFailed \/ bt \cap {"transient", "error"} # {})
  /\ usbFailed' = (usbFailed \/ usb \cap {"transient", "error"} # {})
  /\ causes' = causes \cup (IF "error" \in bt THEN {"bt"} ELSE {})
                     \cup (IF "error" \in usb THEN {"usb"} ELSE {})

\* The outcomes of the calls one step makes on the hidraw node and on the
\* gadget.  A link that is down never works.  Only an errno that is not
\* transient sets `failed'.
Calls(bt, usb) ==
  /\ ~btLink => bt \subseteq {"error"}
  /\ btFailed' = (btFailed \/ "error" \in bt)
  /\ usbFailed' = (usbFailed \/ "error" \in usb)
  /\ causes' = causes \cup (IF "error" \in bt THEN {"bt"} ELSE {})
                     \cup (IF "error" \in usb THEN {"usb"} ELSE {})

DebugAvailable == debug = "open"   \* fd >= 0 and not failed
DebugHealthy   == debug # "failed"

\* Mutant: a plain thread, joined without being asked to stop.
ReturnWithoutStop(code) ==
  /\ exitCode' = code
  /\ pc' = "join"
  /\ UNCHANGED threads

\* Returning from event_bus destroys the jthread: stop is requested, then join.
ReturnFromEventBus(code) ==
  /\ exitCode' = code
  /\ stopRequested' = TRUE
  /\ pc' = "join"
  /\ UNCHANGED audio

-----------------------------------------------------------------------------
(* main, up to event_bus.                                                  *)

\* One call that main cannot do without: on failure it returns -1.
Require(here, next) ==
  /\ pc = here
  /\ \/ pc' = next /\ UNCHANGED exitCode
     \/ pc' = "exited" /\ exitCode' = -1
  /\ UNCHANGED <<btLink, flags, publishing, blank, events, threads, history>>

CreateGadget == Require("gadget", "usb") /\ UNCHANGED debug
InitUsb      == Require("usb", "bt") /\ UNCHANGED debug

\* The node can be opened only while the link is up.
InitBt == /\ Require("bt", "debug")
          /\ ~btLink => pc' = "exited"
          /\ UNCHANGED debug

\* Its result is ignored.
InitDebug ==
  /\ pc = "debug"
  /\ debug' \in {"absent", "open"}
  /\ pc' = "recorder"
  /\ UNCHANGED <<btLink, flags, publishing, blank, events, threads, exitCode,
                 history>>

InitRecorder == Require("recorder", "initial") /\ UNCHANGED debug

\* sendInitialState (with the microphone enabled it makes two more calls): its
\* result is ignored, but not the flag it may set.
SendInitialState ==
  /\ pc = "initial"
  /\ \E bt \in SUBSET Outcomes \ {{}} : Calls(bt, {})
  /\ pc' = "get"
  /\ UNCHANGED <<btLink, debug, publishing, blank, events, threads, exitCode,
                 history>>

\* get_feature_report returns the zeroed buffer when the ioctl fails.
GetFeatureReport(report, outcome) ==
  blank' = IF outcome = "ok" THEN blank \ {report} ELSE blank \cup {report}

ReadInitialReport ==
  /\ pc = "get" /\ publishing < Len(InitialReports)
  /\ \E outcome \in Outcomes :
       /\ Calls({outcome}, {})
       /\ GetFeatureReport(InitialReports[publishing + 1], outcome)
  /\ pc' = "set"
  /\ UNCHANGED <<btLink, debug, publishing, events, threads, exitCode, history>>

\* usb.set_get_report: whatever was read is handed to the gadget.
PublishInitialReport ==
  /\ pc = "set"
  /\ \E outcome \in Outcomes : Calls({}, {outcome})
  /\ publishing' = publishing + 1
  /\ pc' = "get"
  /\ UNCHANGED <<btLink, debug, blank, events, threads, exitCode, history>>

StartAudioThread ==
  /\ pc = "get" /\ publishing = Len(InitialReports)
  /\ audio' = "running"
  /\ early' = causes
  /\ pc' = "epoll"
  /\ UNCHANGED <<btLink, flags, debug, publishing, blank, events,
                 stopRequested, exitCode, served>>

-----------------------------------------------------------------------------
(* event_bus.                                                              *)

\* epoll_create1 and the two epoll_ctl calls.
SetUpEpoll ==
  /\ pc = "epoll"
  /\ \/ pc' = "health" /\ UNCHANGED <<threads, exitCode>>
     \/ ReturnFromEventBus(1)
  /\ UNCHANGED <<btLink, flags, debug, publishing, blank, events, history>>

\* Mutants: the gadget is not checked; the hidraw node is not checked; the two
\* codes are added up.
VerdictBtOnly  == IF btFailed THEN 2 ELSE NoExit
VerdictUsbOnly == IF usbFailed THEN 3 ELSE NoExit
VerdictSum     == (IF btFailed THEN 2 ELSE 0) + (IF usbFailed THEN 3 ELSE 0)

\* The verdict of the three checks at the top of the loop, in their order.
Verdict ==
  IF btFailed THEN 2
  ELSE IF usbFailed THEN 3
  ELSE IF DebugAvailable /\ ~DebugHealthy THEN 6
  ELSE NoExit

CheckHealth ==
  /\ pc = "health"
  /\ \/ /\ Verdict = NoExit
        /\ pc' = "drain"
        /\ UNCHANGED <<threads, exitCode>>
     \/ /\ Verdict # NoExit
        /\ ReturnFromEventBus(Verdict)
  /\ UNCHANGED <<btLink, flags, debug, publishing, blank, events, history>>

\* Draining the debugfs file, if there is one: it may fail; what it brought may
\* make BTHID send a report.
Drain ==
  /\ pc = "drain"
  /\ debug' \in IF DebugAvailable THEN {"open", "failed"} ELSE {debug}
  /\ \E bt \in SUBSET Outcomes :
       /\ ~DebugAvailable => bt = {}
       /\ Calls(bt, {})
  /\ pc' = "send"
  /\ UNCHANGED <<btLink, publishing, blank, events, threads, exitCode, history>>

\* usb.send, when it is due.  It may fail, for good as well: unlike the other
\* calls on the gadget it never sets `failed', and its result is ignored.
SendInputReport ==
  /\ pc = "send"
  /\ served' \in {served, TRUE}
  /\ pc' = "wait"
  /\ UNCHANGED <<btLink, flags, debug, publishing, blank, events, threads,
                 exitCode, early>>

\* epoll_wait: a lost link is always among the events; the gadget may report
\* an error at any time.
EpollWait ==
  /\ pc = "wait"
  /\ events' \in SUBSET Events
  /\ ("btHup" \in events') = ~btLink
  /\ ~({"btHup", "btIn"} \subseteq events')
  /\ ~({"usbErr", "usbIn"} \subseteq events')
  /\ pc' = "events"
  /\ UNCHANGED <<btLink, flags, debug, publishing, blank, threads, exitCode,
                 history>>

\* epoll_wait is interrupted: the loop starts over.
EpollInterrupted ==
  /\ pc = "wait"
  /\ pc' = "health"
  /\ UNCHANGED <<btLink, flags, debug, publishing, blank, events, threads,
                 exitCode, history>>

\* Any other error of epoll_wait.
EpollFails ==
  /\ pc = "wait"
  /\ ReturnFromEventBus(1)
  /\ UNCHANGED <<btLink, flags, debug, publishing, blank, events, history>>

\* EPOLLERR or EPOLLHUP of the hidraw node, EPOLLERR of the gadget (its
\* EPOLLHUP is treated as input).
HandleHangup ==
  /\ pc = "events"
  /\ \/ "btHup" \in events /\ causes' = causes \cup {"bt"}
     \/ "usbErr" \in events /\ causes' = causes \cup {"usb"}
  /\ ReturnFromEventBus(4)
  /\ UNCHANGED <<btLink, btFailed, usbFailed, debug, publishing, blank, events,
                 history>>

Handled(event) ==
  /\ pc = "events" /\ event \in events
  /\ events' = events \ {event}
  /\ UNCHANGED <<btLink, debug, pc, publishing, threads, exitCode, history>>

\* bt.recv, and after it the reports BTHID may send.
HandleBtInput ==
  /\ Handled("btIn")
  /\ \E bt \in SUBSET Outcomes \ {{}} : Calls(bt, {})
  /\ UNCHANGED blank

\* usb.recv fails, or brings nothing the dongle knows.
HandleUsbIgnored ==
  /\ Handled("usbIn")
  /\ \E outcome \in Outcomes : Calls({}, {outcome})
  /\ UNCHANGED blank

\* A host output report: BTHID may send it.
HandleUsbOutput ==
  /\ Handled("usbIn")
  /\ \E bt \in SUBSET Outcomes : Calls(bt, {"ok"})
  /\ UNCHANGED blank

\* A feature report: forward_usb_feature_report sends the audio settings and
\* the report, reads the answer and publishes it if it is not empty.
HandleUsbFeature ==
  /\ Handled("usbIn")
  /\ \E bt \in SUBSET Outcomes, answer, published \in Outcomes :
       /\ Calls(bt \cup {answer}, {published})
       /\ GetFeatureReport(ForwardedReport, answer)

NextRound ==
  /\ pc = "events" /\ events = {}
  /\ pc' = "health"
  /\ UNCHANGED <<btLink, flags, debug, publishing, blank, events, threads,
                 exitCode, history>>

JoinAudioThread ==
  /\ pc = "join"
  /\ audio = "done"
  /\ pc' = "exited"
  /\ UNCHANGED <<btLink, flags, debug, publishing, blank, events, threads,
                 exitCode, history>>

-----------------------------------------------------------------------------
(* audio_task, and the world outside.                                      *)

\* One round of audio_loop that sends a packet.
AudioLoop ==
  /\ audio = "running" /\ ~stopRequested
  /\ \E outcome \in Outcomes : Calls({outcome}, {})
  /\ UNCHANGED <<btLink, debug, pc, publishing, blank, events, threads,
                 exitCode, history>>

AudioTaskReturns ==
  /\ audio = "running" /\ stopRequested
  /\ audio' = "done"
  /\ UNCHANGED <<btLink, flags, debug, pc, publishing, blank, events,
                 stopRequested, exitCode, history>>

BtLinkLost ==
  /\ btLink
  /\ btLink' = FALSE
  /\ UNCHANGED <<flags, debug, pc, publishing, blank, events, threads,
                 exitCode, history>>

Terminated == pc = "exited" /\ UNCHANGED vars

-----------------------------------------------------------------------------

Init ==
  /\ btLink = TRUE
  /\ btFailed = FALSE /\ usbFailed = FALSE /\ causes = {}
  /\ debug = "absent"
  /\ pc = "gadget"
  /\ publishing = 0 /\ blank = {}
  /\ events = {}
  /\ audio = "none" /\ stopRequested = FALSE
  /\ exitCode = NoExit
  /\ served = FALSE /\ early = {}

Startup ==
  \/ CreateGadget \/ InitUsb \/ InitBt \/ InitDebug \/ InitRecorder
  \/ SendInitialState \/ ReadInitialReport \/ PublishInitialReport
  \/ StartAudioThread

EventBus ==
  \/ SetUpEpoll \/ CheckHealth \/ Drain \/ SendInputReport
  \/ EpollWait \/ EpollInterrupted \/ EpollFails
  \/ HandleHangup \/ HandleBtInput
  \/ HandleUsbIgnored \/ HandleUsbOutput \/ HandleUsbFeature
  \/ NextRound \/ JoinAudioThread

Main  == Startup \/ EventBus
Audio == AudioLoop \/ AudioTaskReturns
Next == Main \/ Audio \/ BtLinkLost \/ Terminated

Spec == Init /\ [][Next]_vars

\* The main thread keeps running, signals do not interrupt every single wait,
\* and a thread asked to stop gets to see it; nothing is assumed of the devices,
\* nor that audio_loop ever fails.
FairSpec ==
  Spec /\ WF_vars(Main) /\ SF_vars(EpollWait) /\ WF_vars(AudioTaskReturns)

-----------------------------------------------------------------------------
(* Properties.                                                             *)

Devices == {"bt", "usb"}
FeatureReports ==
  {InitialReports[i] : i \in 1..Len(InitialReports)} \cup {ForwardedReport}

DataTypeOK ==
  /\ btLink \in BOOLEAN
  /\ btFailed \in BOOLEAN /\ usbFailed \in BOOLEAN
  /\ debug \in {"absent", "open", "failed"}
  /\ publishing \in 0..Len(InitialReports)
  /\ blank \subseteq FeatureReports
  /\ events \subseteq Events
  /\ served \in BOOLEAN
  /\ causes \subseteq Devices /\ early \subseteq Devices

ControlTypeOK ==
  /\ pc \in {"gadget", "usb", "bt", "debug", "recorder", "initial", "get", "set",
            "epoll", "health", "drain", "send", "wait", "events", "join", "exited"}
  /\ audio \in {"none", "running", "done"} /\ stopRequested \in BOOLEAN
  /\ exitCode \in {-1, NoExit, 1, 2, 3, 4, 6}

TypeOK == DataTypeOK /\ ControlTypeOK

Exited == pc = "exited" /\ audio # "running"

\* The exit code tells the service manager what went wrong: a device is blamed
\* only if a call on it failed for good or it hung up.  Transient errors of
\* either thread never end the process.
ExitHasCause ==
  /\ exitCode = 2 => "bt" \in causes
  /\ exitCode = 3 => "usb" \in causes
  /\ exitCode = 4 => causes # {}

\* main ignores what its initial calls return; all the same, the host is never
\* served by a process in which one of them failed for good.
NoServiceAfterInitFailure == served => early = {}

\* A lost controller ends the process, whichever call or event notices it
\* first and whichever thread makes it, and the audio thread with it.
BtLossEndsProcess == ~btLink ~> Exited

\* So does a permanent error of the gadget that usb.recv or usb.set_get_report
\* meets, in the middle of a batch of events or before event_bus has begun, and
\* an EPOLLERR of it.  An error that only usb.send meets is logged and no more:
\* such a process keeps running.
NotedUsbFailureEndsProcess == "usb" \in causes ~> Exited

\* What the third check at the top of event_bus announces: a debugfs file that
\* fails makes the process exit for a restart.
DebugFailureEndsProcess == debug = "failed" ~> Exited

\* What the test of forward_usb_feature_report is for: an answer that could not
\* be read is not published.
FailedReadNotForwarded == ForwardedReport \notin blank
=============================================================================
