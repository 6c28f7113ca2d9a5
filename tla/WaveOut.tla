------------------------------ MODULE WaveOut ------------------------------
(***************************************************************************)
(* The 1 kHz test tone of the dongle: how the host's output reports and    *)
(* test commands turn it on and off and choose its route                   *)
(* (handle_usb_output_report, handle_usb_test_command and the inferred     *)
(* pattern in src/main.cpp), and how the audio thread follows (audio_loop  *)
(* and waveout_proc in src/ALSARecord.cpp, sendCombineWithRoute in         *)
(* src/BTHID.cpp).                                                         *)
(*                                                                         *)
(* The event bus thread publishes its decision in three atomics, stored    *)
(* with relaxed order one after the other: the recorder's waveOutRoute and *)
(* waveOutActive and BTHID's audioRouteOverride.  On the target (aarch64)  *)
(* such stores reach the other thread in any order; `stores' holds the     *)
(* value of each atomic that is still on its way, `shared' what the audio  *)
(* thread sees.                                                            *)
(*                                                                         *)
(* Of an output report only what the handler looks at is kept.  A state    *)
(* block is reduced to the route it selects.                               *)
(***************************************************************************)
EXTENDS Integers, Sequences, FiniteSetsExt

CONSTANTS
  MaxHostEvents,   \* bound: how many reports and commands the host sends
  Hold,            \* kInferredWaveOutHold, in ticks
  HostReports,     \* the output reports the host sends
  Headset          \* headset of BTHID: one is plugged in, throughout

Routes  == {"speaker", "headset"}      \* 0x13 and 0x16
NoRoute == "none"                      \* 0: no override

\* An output report as its handler sees it.  The volumes are zero, the value
\* that stands for a test tone (0x41 for the headphone, 0x55 for the speaker)
\* or another one; `touched' are the three audio flags of validFlag0, and a
\* short report has fewer than the eight bytes the handler needs.
OutputReport ==
  [op : {"output"}, headphone : {"zero", "wave", "other"},
   speaker : {"zero", "wave", "other"}, control30 : BOOLEAN,
   touched : BOOLEAN, short : BOOLEAN]

ASSUME MaxHostEventsAssumption == MaxHostEvents \in Nat
ASSUME HoldAssumption == Hold \in Nat \ {0}
ASSUME HostReportsAssumption == HostReports \subseteq OutputReport
ASSUME HeadsetAssumption == Headset \in BOOLEAN

VARIABLES
  pendingWaveOutRoute,   \* the route the next on command will use
  featureWaveOut,        \* the tone by command: active, route
  inferredWaveOut,       \* the tone by pattern: active, route
  hostAudioRoute,
  holdLeft,              \* ticks to inferredWaveOutDeadline; 0 without pattern
  busPc, busReport,      \* event bus thread: where it is, the report it handles
  shared, stores,        \* the atomics the audio thread sees; those on the way
  audioActive,           \* now_ms() < audioActiveUntilMs
  audioPc, audioCall,    \* audio thread: where it is, the tone packet's call
  controller,            \* the route the controller was told last
  log, sinceWave, tail   \* history: events; ticks since the last pattern
                         \* report; tone packets since the tone was turned off

busVars   == <<pendingWaveOutRoute, featureWaveOut, inferredWaveOut,
               hostAudioRoute, holdLeft>>
audioVars == <<audioPc, audioCall, tail>>
vars == <<busVars, busPc, busReport, shared, stores, audioActive,
          audioVars, controller, log, sinceWave>>

-----------------------------------------------------------------------------

Cells    == {"route", "active", "override"}
Tone     == [active : BOOLEAN, route : Routes]
NoReport == [op |-> "none"]
NoCall   == [route |-> NoRoute, clean |-> FALSE]
Event    == OutputReport
            \cup [op : {"prepare"}, route : Routes]
            \cup [op : {"on", "off", "expire"}]

\* headphoneWave and speakerWave: which tone the volumes of a report ask for.
Wave(report) ==
  CASE report.headphone = "wave" /\ report.speaker = "zero" -> "headset"
    [] report.speaker = "wave" /\ report.headphone = "zero" -> "speaker"
    [] OTHER -> NoRoute

\* The route a report sets hostAudioRoute to, if it does.
Level(report) ==
  CASE \/ report.control30
       \/ report.speaker # "zero" /\ report.headphone = "zero"
         -> "speaker"
    [] ~report.control30 /\ report.headphone # "zero" /\ report.speaker = "zero"
         -> "headset"
    [] OTHER -> NoRoute

\* The events after which apply_waveout_state runs.
Applied(event) ==
  \/ event.op \in {"on", "off", "expire"}
  \/ /\ event.op = "output" /\ ~event.short
     /\ event.touched \/ Wave(event) # NoRoute

\* What the event bus thread itself reads from the override.
OwnOverride ==
  CHOOSE route \in Routes \cup {NoRoute} :
    IF stores["override"] = {} THEN route = shared["override"]
    ELSE route \in stores["override"]

\* The route normalizeAudioStateLocked puts into a state block.
BlockRoute(override) ==
  IF override # NoRoute THEN override
  ELSE IF Headset THEN "headset" ELSE "speaker"

\* No store is on its way.
NothingInFlight == \A c \in Cells : stores[c] = {}

\* Mutant: the override keeps its old route.
StoreRecorderOnly(enabled, route) ==
  /\ stores' = [stores EXCEPT !["active"] = {enabled}, !["route"] = {route}]
  /\ audioCall' = [audioCall EXCEPT !.clean = FALSE]

\* setWaveOut and setAudioRouteOverride; a store that is still on its way is
\* overtaken by the next one to the same atomic.
StoreAll(enabled, route) ==
  /\ stores' = [route |-> {route}, active |-> {enabled}, override |-> {route}]
  /\ audioCall' = [audioCall EXCEPT !.clean = FALSE]

\* Mutant: the pattern takes precedence over the command.
ApplyPatternFirst(feature, inferred, host) ==
  StoreAll(feature.active \/ inferred.active,
           IF inferred.active THEN inferred.route
           ELSE IF feature.active THEN feature.route ELSE host)

\* apply_waveout_state, given the values its caller has just assigned.
ApplyWaveOutState(feature, inferred, host) ==
  StoreAll(feature.active \/ inferred.active,
           IF feature.active THEN feature.route
           ELSE IF inferred.active THEN inferred.route ELSE host)

-----------------------------------------------------------------------------
(* The event bus thread.                                                   *)

\* A host event is logged when its handler starts.
HostEvent(event) ==
  /\ busPc = "idle"
  /\ Cardinality({i \in 1..Len(log) : log[i].op # "expire"}) < MaxHostEvents
  /\ log' = Append(log, event)

\* A state report for the controller, unless audio is active.
TellController ==
  controller' = IF audioActive THEN controller ELSE BlockRoute(OwnOverride)

\* setStateData comes first: the report goes out with the route in force so far.
SetStateData(report) ==
  /\ HostEvent(report)
  /\ TellController
  /\ busPc' = "handle" /\ busReport' = report
  /\ UNCHANGED <<busVars, shared, stores, audioActive, audioVars, sinceWave>>

\* A report too short to have the audio bytes.
IgnoreShort ==
  /\ busPc = "handle" /\ busReport.short
  /\ busPc' = "idle" /\ busReport' = NoReport
  /\ UNCHANGED <<busVars, shared, stores, audioActive, audioVars, controller,
                 log, sinceWave>>

\* Mutant: volumes that name no route store one all the same.
SetHostAudioRouteAlways == hostAudioRoute' = Level(busReport)

\* hostAudioRoute follows the volumes of every report, tone or not.
SetHostAudioRoute ==
  hostAudioRoute' = IF Level(busReport) = NoRoute THEN hostAudioRoute
                    ELSE Level(busReport)

\* Mutant: the deadline is set only when the pattern changes.
RenewHoldOnChange(wave) ==
  holdLeft' = IF inferredWaveOut = wave THEN holdLeft ELSE Hold

\* A pattern report starts the hold anew, also when it changes nothing.
RenewHold(wave) == holdLeft' = Hold

\* set_inferred_waveout(true): the volumes of the report ask for a tone.
InferOn ==
  /\ busPc = "handle" /\ ~busReport.short
  /\ Wave(busReport) # NoRoute
  /\ SetHostAudioRoute
  /\ inferredWaveOut' = [active |-> TRUE, route |-> Wave(busReport)]
  /\ RenewHold(inferredWaveOut')
  /\ ApplyWaveOutState(featureWaveOut, inferredWaveOut', hostAudioRoute')
  /\ sinceWave' = 0
  /\ busPc' = "idle" /\ busReport' = NoReport
  /\ UNCHANGED <<pendingWaveOutRoute, featureWaveOut, shared, audioActive,
                 audioPc, tail, controller, log>>

\* Audio fields without the pattern: the state is applied once as it is and,
\* if a pattern was on, again without it.
AudioTouched ==
  /\ busPc = "handle" /\ ~busReport.short
  /\ Wave(busReport) = NoRoute /\ busReport.touched
  /\ SetHostAudioRoute
  /\ ApplyWaveOutState(featureWaveOut, inferredWaveOut, hostAudioRoute')
  /\ busPc' = IF inferredWaveOut.active THEN "inferOff" ELSE "idle"
  /\ busReport' = NoReport
  /\ UNCHANGED <<pendingWaveOutRoute, featureWaveOut, inferredWaveOut,
                 holdLeft, shared, audioActive, audioPc, tail, controller, log,
                 sinceWave>>

\* Light bar, triggers, rumble: the volumes are looked at all the same.
AudioUntouched ==
  /\ busPc = "handle" /\ ~busReport.short
  /\ Wave(busReport) = NoRoute /\ ~busReport.touched
  /\ SetHostAudioRoute
  /\ busPc' = "idle" /\ busReport' = NoReport
  /\ UNCHANGED <<pendingWaveOutRoute, featureWaveOut, inferredWaveOut,
                 holdLeft, shared, stores, audioActive, audioVars, controller,
                 log, sinceWave>>

\* Mutant: the end of the pattern is noted, but not applied.
InferOffQuietly ==
  /\ inferredWaveOut' = [inferredWaveOut EXCEPT !.active = FALSE]
  /\ holdLeft' = 0 /\ sinceWave' = 0
  /\ busPc' = "idle"
  /\ UNCHANGED <<pendingWaveOutRoute, featureWaveOut, hostAudioRoute,
                 busReport, shared, stores, audioActive, audioVars,
                 controller>>

\* set_inferred_waveout(false), for a tone that is on.
InferOff ==
  /\ inferredWaveOut' = [inferredWaveOut EXCEPT !.active = FALSE]
  /\ ApplyWaveOutState(featureWaveOut, inferredWaveOut', hostAudioRoute)
  /\ holdLeft' = 0 /\ sinceWave' = 0
  /\ busPc' = "idle"
  /\ UNCHANGED <<pendingWaveOutRoute, featureWaveOut, hostAudioRoute,
                 busReport, shared, audioActive, audioPc, tail, controller>>

PatternEnds == busPc = "inferOff" /\ InferOff /\ UNCHANGED log

\* poll_inferred_waveout, once per round of the loop.
PollInferredWaveOut ==
  /\ busPc = "idle"
  /\ inferredWaveOut.active /\ holdLeft = 0
  /\ InferOff
  /\ log' = Append(log, [op |-> "expire"])

\* The prepare command moves the override, but not the recorder's route.
Prepare(route) ==
  /\ HostEvent([op |-> "prepare", route |-> route])
  /\ pendingWaveOutRoute' = route
  /\ stores' = [stores EXCEPT !["override"] = {route}]
  /\ audioCall' = [audioCall EXCEPT !.clean = FALSE]
  /\ UNCHANGED <<featureWaveOut, inferredWaveOut, hostAudioRoute, holdLeft,
                 busPc, busReport, shared, audioActive, audioPc, tail,
                 controller, sinceWave>>

\* The on and the off command take the route prepared last.
Switch(enabled) ==
  /\ HostEvent([op |-> IF enabled THEN "on" ELSE "off"])
  /\ featureWaveOut' = [active |-> enabled, route |-> pendingWaveOutRoute]
  /\ ApplyWaveOutState(featureWaveOut', inferredWaveOut, hostAudioRoute)
  /\ UNCHANGED <<pendingWaveOutRoute, inferredWaveOut, hostAudioRoute,
                 holdLeft, busPc, busReport, shared, audioActive, audioPc,
                 tail, controller, sinceWave>>

-----------------------------------------------------------------------------
(* The audio thread, the memory between the two, and time.                 *)

\* A store becomes visible to the audio thread.
Land(c) ==
  /\ \E value \in stores[c] : shared' = [shared EXCEPT ![c] = value]
  /\ stores' = [stores EXCEPT ![c] = {}]
  /\ tail' = IF c = "active" THEN 0 ELSE tail
  /\ UNCHANGED <<busVars, busPc, busReport, audioActive, audioPc, audioCall,
                 controller, log, sinceWave>>

\* audio_loop finds the tone on.
LoadActive ==
  /\ audioPc = "loop" /\ shared["active"]
  /\ audioPc' = "tone"
  /\ UNCHANGED <<busVars, busPc, busReport, shared, stores, audioActive,
                 audioCall, tail, controller, log, sinceWave>>

\* The tone packet of this round is not due: sleep, and look again.
ToneNotDue ==
  /\ audioPc = "tone"
  /\ audioPc' = "loop"
  /\ UNCHANGED <<busVars, busPc, busReport, shared, stores, audioActive,
                 audioCall, tail, controller, log, sinceWave>>

\* History: the log ends with a prepare command that was not applied yet.
Prepared == \E i \in 1..Len(log) :
              /\ log[i].op = "prepare"
              /\ \A j \in i..Len(log) : ~Applied(log[j])

\* waveout_proc, up to its call: the packet is due and its route is loaded.
LoadRoute ==
  /\ audioPc = "tone"
  /\ audioActive' = TRUE
  /\ audioCall' = [route |-> shared["route"],
                   clean |-> NothingInFlight /\ busPc = "idle" /\ ~Prepared]
  /\ audioPc' = "send"
  /\ UNCHANGED <<busVars, busPc, busReport, shared, stores, tail, controller,
                 log, sinceWave>>

\* Mutant: further packets are sent without a look at waveOutActive.
NextRoundSameTone == audioPc' \in {"loop", "tone"}

\* audio_loop returns after each packet and starts over.
NextRound == audioPc' = "loop"

\* sendCombineWithRoute: lock, normalise, write.
SendTone ==
  /\ audioPc = "send"
  /\ controller' = BlockRoute(shared["override"])
  /\ tail' = IF shared["active"] THEN 0 ELSE Min({tail + 1, 2})
  /\ audioCall' = NoCall
  /\ NextRound
  /\ UNCHANGED <<busVars, busPc, busReport, shared, stores, audioActive, log,
                 sinceWave>>

\* haptics_proc, while no tone is on (for its own race see CombineIsCoherent).
SendHaptics ==
  /\ audioPc = "loop" /\ ~shared["active"]
  /\ audioActive' = TRUE
  /\ controller' = BlockRoute(shared["override"])
  /\ UNCHANGED <<busVars, busPc, busReport, shared, stores, audioVars, log,
                 sinceWave>>

\* 100 ms without a packet.
AudioWindowExpires ==
  /\ audioActive
  /\ audioActive' = FALSE
  /\ UNCHANGED <<busVars, busPc, busReport, shared, stores, audioVars,
                 controller, log, sinceWave>>

\* Time passes while a pattern is on.
Tick ==
  /\ inferredWaveOut.active /\ holdLeft > 0
  /\ holdLeft' = holdLeft - 1
  /\ sinceWave' = Min({sinceWave + 1, Hold})
  /\ UNCHANGED <<pendingWaveOutRoute, featureWaveOut, inferredWaveOut,
                 hostAudioRoute, busPc, busReport, shared, stores, audioActive,
                 audioVars, controller, log>>

-----------------------------------------------------------------------------

Init ==
  /\ pendingWaveOutRoute = "speaker"
  /\ featureWaveOut = [active |-> FALSE, route |-> "speaker"]
  /\ inferredWaveOut = [active |-> FALSE, route |-> "speaker"]
  /\ hostAudioRoute = "speaker" /\ holdLeft = 0
  /\ busPc = "idle" /\ busReport = NoReport
  /\ shared = [route |-> "speaker", active |-> FALSE, override |-> NoRoute]
  /\ stores = [c \in Cells |-> {}]
  /\ audioActive = FALSE
  /\ audioPc = "loop" /\ audioCall = NoCall
  /\ controller = BlockRoute(NoRoute)
  /\ log = << >> /\ sinceWave = 0 /\ tail = 0

HandleReport ==
  IgnoreShort \/ InferOn \/ AudioTouched \/ AudioUntouched \/ PatternEnds

HostActs ==
  \/ \E report \in HostReports : SetStateData(report)
  \/ \E route \in Routes : Prepare(route)
  \/ \E enabled \in BOOLEAN : Switch(enabled)

Next ==
  \/ HostActs \/ HandleReport \/ PollInferredWaveOut
  \/ \E c \in Cells : Land(c)
  \/ LoadActive \/ ToneNotDue \/ LoadRoute \/ SendTone
  \/ SendHaptics \/ AudioWindowExpires \/ Tick

Spec == Init /\ [][Next]_vars

\* Both threads keep running, time passes, a store becomes visible in the end
\* and every 10 ms a tone packet is due.  The host owes nothing.
Fairness ==
  /\ WF_vars(HandleReport) /\ SF_vars(PollInferredWaveOut)
  /\ WF_vars(\E c \in Cells : Land(c))
  /\ WF_vars(LoadActive \/ SendTone) /\ SF_vars(LoadRoute)
  /\ WF_vars(Tick)

FairSpec == Spec /\ Fairness

-----------------------------------------------------------------------------
(* What the host asked for, read off the events alone.                     *)

IsWave(event) == event.op = "output" /\ ~event.short /\ Wave(event) # NoRoute

Among(n, P(_)) == {i \in 1..n : P(log[i])}

Latest(n, P(_)) == Max({0} \cup Among(n, P))

IsCommand(event) == event.op \in {"on", "off"}
IsPrepare(event) == event.op = "prepare"
EndsPattern(event) ==
  \/ event.op = "expire"
  \/ event.op = "output" /\ Applied(event) /\ ~IsWave(event)
HasLevel(event) == event.op = "output" /\ ~event.short /\ Level(event) # NoRoute

CommandOn(n) ==
  LET last == Latest(n, IsCommand) IN last > 0 /\ log[last].op = "on"

PatternOn(n) == Latest(n, IsWave) > Latest(n, EndsPattern)

PreparedRoute(n) ==
  LET last == Latest(n, IsPrepare)
  IN  IF last = 0 THEN "speaker" ELSE log[last].route

HostRoute(n) ==
  LET last == Latest(n, HasLevel)
  IN  IF last = 0 THEN "speaker" ELSE Level(log[last])

\* The route the host asked for with its first n events: the tone's, by command
\* before by pattern, or else the one of its volumes.
AskedRoute(n) ==
  IF CommandOn(n) THEN PreparedRoute(Latest(n, IsCommand))
  ELSE IF PatternOn(n) THEN Wave(log[Latest(n, IsWave)])
  ELSE HostRoute(n)

\* The route in force after n events: volumes without an audio flag and prepared
\* routes of the recorder wait for the next event that is applied.
RecorderRoute(n) ==
  LET last == Latest(n, Applied)
  IN  IF last = 0 THEN "speaker" ELSE AskedRoute(last)

RouteInForce(n) ==
  LET prepare == Latest(n, IsPrepare)
      apply   == Latest(n, Applied)
  IN  IF prepare > apply THEN log[prepare].route
      ELSE IF apply > 0 THEN AskedRoute(apply)
      ELSE BlockRoute(NoRoute)

-----------------------------------------------------------------------------
(* Properties.                                                             *)

\* The event bus thread, and what the host has sent.
BusTypeOK ==
  /\ pendingWaveOutRoute \in Routes /\ hostAudioRoute \in Routes
  /\ featureWaveOut \in Tone /\ inferredWaveOut \in Tone
  /\ holdLeft \in 0..Hold /\ sinceWave \in 0..Hold
  /\ busPc \in {"idle", "handle", "inferOff"}
  /\ busReport \in HostReports \cup {NoReport}
  /\ log \in Seq(Event)

\* The audio thread, the memory between the two, and the controller.
AudioTypeOK ==
  /\ shared \in [route : Routes, active : BOOLEAN,
                 override : Routes \cup {NoRoute}]
  /\ stores \in [route : SUBSET Routes, active : SUBSET BOOLEAN,
                 override : SUBSET Routes]
  /\ audioActive \in BOOLEAN
  /\ audioPc \in {"loop", "tone", "send"}
  /\ audioCall \in [route : Routes \cup {NoRoute}, clean : BOOLEAN]
  /\ controller \in Routes
  /\ tail \in 0..2

TypeOK == BusTypeOK /\ AudioTypeOK

\* Whenever the event bus thread is between handlers and its stores have
\* arrived, the audio thread sees exactly what the host's events ask for, in
\* whatever order commands, patterns, volumes and timeouts came.
AudioThreadFollowsHost ==
  busPc = "idle" /\ NothingInFlight =>
    /\ shared["active"] = (CommandOn(Len(log)) \/ PatternOn(Len(log)))
    /\ shared["route"] = RecorderRoute(Len(log))
    /\ BlockRoute(shared["override"]) = RouteInForce(Len(log))

\* A tone packet's route byte agrees with its state block, unless the route was
\* on its way to the audio thread or a prepare command had moved half of it.
TonePacketCoherent ==
  [][audioPc = "send" /\ audioPc' # "send" /\ audioCall.clean
       => controller' = audioCall.route]_vars

\* Once the audio thread sees the tone off, it completes at most the packet it
\* has begun.
ToneStopsAtOnce == tail <= 1

\* The state report that an output report causes never tells the controller an
\* outdated route: it is the one in force with the report or the one just before
\* it, whatever commands, patterns and timeouts came earlier, and wherever their
\* stores are.  (Which of the two it should be, nothing in the code says; today
\* the report goes out first and its own volumes move the route afterwards.)
ReportRouteNotStale ==
  [][busPc = "idle" /\ busPc' = "handle" /\ ~audioActive
       => controller' \in {RouteInForce(Len(log)), RouteInForce(Len(log))'}]_vars

\* A tone by pattern is timed out only when the host has not repeated the
\* pattern for the whole hold.
PatternIsHeld ==
  [][busPc = "idle" /\ inferredWaveOut.active /\ ~inferredWaveOut'.active
       => sinceWave = Hold]_vars

\* When the host falls silent, the only tone that stays on is one it turned on
\* by command, and unless a prepared route awaits its command the controller is
\* told the route of that tone.
ToneSettles ==
  /\ <>[](shared["active"] => CommandOn(Len(log)))
  /\ <>[](shared["active"] /\ ~Prepared => controller = AskedRoute(Len(log)))
=============================================================================
