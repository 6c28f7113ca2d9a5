--------------------------- MODULE WaveOutProofs ---------------------------
(***************************************************************************)
(* Proofs about WaveOut, for any number of host events, any reports and    *)
(* any hold.                                                               *)
(*                                                                         *)
(* The properties read what the host asked for off the log of its events,  *)
(* the code keeps a few variables.  The lemmas turn the log's operators    *)
(* into what one more event changes; IInv says how far the event bus       *)
(* thread has followed the log, and that the last store to each atomic,    *)
(* landed or not, is what the log asks for.                                *)
(***************************************************************************)
EXTENDS WaveOut, MaxTheorems, SequenceTheorems, TLAPS

-----------------------------------------------------------------------------
(* What the first n events of a log s ask for.                             *)

Waves    == {e \in Event : IsWave(e)}
Ends     == {e \in Event : EndsPattern(e)}
Commands == {e \in Event : IsCommand(e)}
Prepares == {e \in Event : IsPrepare(e)}
Levels   == {e \in Event : HasLevel(e)}
Applies  == {e \in Event : Applied(e)}

\* The last of the first n events that is in E, or 0.
LastOf(s, n, E) == Max({0} \cup {i \in 1..n : s[i] \in E})

Prep(s, n) ==
  IF LastOf(s, n, Prepares) = 0 THEN "speaker"
  ELSE s[LastOf(s, n, Prepares)].route
Cmd(s, n) ==
  LastOf(s, n, Commands) > 0 /\ s[LastOf(s, n, Commands)].op = "on"
PrepAtCmd(s, n) == Prep(s, LastOf(s, n, Commands))
Pat(s, n)    == LastOf(s, n, Waves) > LastOf(s, n, Ends)
WaveOf(s, n) == Wave(s[LastOf(s, n, Waves)])
Host(s, n) ==
  IF LastOf(s, n, Levels) = 0 THEN "speaker"
  ELSE Level(s[LastOf(s, n, Levels)])

Asked(s, n) ==
  IF Cmd(s, n) THEN PrepAtCmd(s, n)
  ELSE IF Pat(s, n) THEN WaveOf(s, n) ELSE Host(s, n)
Recorder(s, n) ==
  IF LastOf(s, n, Applies) = 0 THEN "speaker"
  ELSE Asked(s, LastOf(s, n, Applies))
InForce(s, n) ==
  IF LastOf(s, n, Prepares) > LastOf(s, n, Applies)
  THEN s[LastOf(s, n, Prepares)].route
  ELSE IF LastOf(s, n, Applies) > 0 THEN Asked(s, LastOf(s, n, Applies))
  ELSE BlockRoute(NoRoute)

-----------------------------------------------------------------------------
(* The last event of a kind.                                               *)

\* It is 0 or an event of the kind, and none of the kind comes after it.
LEMMA LastOfType ==
  ASSUME NEW s \in Seq(Event), NEW n \in 0..Len(s), NEW E
  PROVE  /\ LastOf(s, n, E) \in 0..n
         /\ LastOf(s, n, E) > 0 =>
              LastOf(s, n, E) \in 1..n /\ s[LastOf(s, n, E)] \in E
         /\ \A i \in 1..n : s[i] \in E => i <= LastOf(s, n, E)
<1> DEFINE S == {0} \cup {i \in 1..n : s[i] \in E}
<1>1. n \in Nat /\ S \in SUBSET (0..n) /\ S # {}  OBVIOUS
<1>2. \A x \in S : x > 0 => x \in 1..n /\ s[x] \in E  OBVIOUS
<1>3. \A i \in 1..n : s[i] \in E => i \in S  OBVIOUS
<1>4. LastOf(s, n, E) = Max(S)  BY DEF LastOf
<1> HIDE DEF S
<1>5. Max(S) \in S /\ \A y \in S : y <= Max(S)  BY <1>1, MaxOf
<1> QED  BY <1>1, <1>2, <1>3, <1>4, <1>5

\* More events do not change what the first n say.
LEMMA LastOfStays ==
  ASSUME NEW s \in Seq(Event), NEW e \in Event, NEW n \in 0..Len(s), NEW E
  PROVE  LastOf(Append(s, e), n, E) = LastOf(s, n, E)
<1>1. \A i \in 1..n : Append(s, e)[i] = s[i]  OBVIOUS
<1> QED  BY <1>1 DEF LastOf

\* One more event is the last of its kind.
LEMMA LastOfNext ==
  ASSUME NEW s \in Seq(Event), NEW n \in Nat, n + 1 <= Len(s), NEW E
  PROVE  LastOf(s, n + 1, E) =
           IF s[n + 1] \in E THEN n + 1 ELSE LastOf(s, n, E)
<1> DEFINE S(m) == {0} \cup {i \in 1..m : s[i] \in E}
<1>1. \A i \in 1..(n + 1) : i \in 1..n \/ i = n + 1  OBVIOUS
<1>2. CASE s[n + 1] \in E
  <2>1. n + 1 \in S(n + 1) /\ \A y \in S(n + 1) : y <= n + 1  BY <1>2
  <2>2. S(n + 1) \in SUBSET Int  OBVIOUS
  <2>3. LastOf(s, n + 1, E) = Max(S(n + 1))  BY DEF LastOf
  <2> HIDE DEF S
  <2> QED  BY <1>2, <2>1, <2>2, <2>3, MaxIs
<1>3. CASE s[n + 1] \notin E
  <2>1. {i \in 1..(n + 1) : s[i] \in E} = {i \in 1..n : s[i] \in E}
    BY <1>1, <1>3
  <2> QED  BY <1>3, <2>1 DEF LastOf
<1> QED  BY <1>2, <1>3

-----------------------------------------------------------------------------
(* What the events of each kind carry.                                     *)

LEMMA KindsOfEvents ==
  ASSUME NEW e \in Event
  PROVE  /\ e \in Waves => Wave(e) \in Routes
         /\ e \in Levels => Level(e) \in Routes
         /\ e \in Prepares => e.route \in Routes
         /\ e \in Commands => e.op \in {"on", "off"}
         /\ ~(e \in Waves /\ e \in Ends)
         /\ ~(e \in Commands /\ e \in Prepares)
         /\ ~(e \in Applies /\ e \in Prepares)
         /\ e \in Waves \/ e \in Ends \/ e \in Commands => e \in Applies
<1> USE DEF Waves, Ends, Commands, Prepares, Levels, Applies
<1>1. e \in Waves => Wave(e) \in Routes
  BY DEF IsWave, Wave, Routes, NoRoute
<1>2. e \in Levels => Level(e) \in Routes
  BY DEF HasLevel, Level, Routes, NoRoute
<1>3. e \in Prepares => e.route \in Routes
  BY DEF IsPrepare, Event, OutputReport
<1>4. e \in Commands => e.op \in {"on", "off"}
  BY DEF IsCommand
<1>5. ~(e \in Waves /\ e \in Ends)
  BY DEF IsWave, EndsPattern
<1>6. ~(e \in Commands /\ e \in Prepares)
  BY DEF IsCommand, IsPrepare
<1>7. ~(e \in Applies /\ e \in Prepares)
  BY DEF Applied, IsPrepare
<1>8. e \in Waves \/ e \in Ends \/ e \in Commands => e \in Applies
  BY DEF IsWave, EndsPattern, IsCommand, Applied
<1> QED  BY <1>1, <1>2, <1>3, <1>4, <1>5, <1>6, <1>7, <1>8

\* What the first n events ask for is a route, and a tone is on or not.
LEMMA AskedType ==
  ASSUME NEW s \in Seq(Event), NEW n \in 0..Len(s)
  PROVE  /\ Prep(s, n) \in Routes /\ PrepAtCmd(s, n) \in Routes
         /\ Host(s, n) \in Routes /\ Asked(s, n) \in Routes
         /\ Cmd(s, n) \in BOOLEAN /\ Pat(s, n) \in BOOLEAN
         /\ Pat(s, n) => WaveOf(s, n) \in Routes
         /\ Recorder(s, n) \in Routes /\ InForce(s, n) \in Routes
<1>1. \A E : /\ LastOf(s, n, E) \in 0..n
             /\ LastOf(s, n, E) > 0 =>
                  LastOf(s, n, E) \in 1..n /\ s[LastOf(s, n, E)] \in E
  BY LastOfType
<1>2. \A m \in 0..n : Prep(s, m) \in Routes
  <2> TAKE m \in 0..n
  <2>1. m \in 0..Len(s)  OBVIOUS
  <2>2. /\ LastOf(s, m, Prepares) \in 0..m
        /\ LastOf(s, m, Prepares) > 0 => s[LastOf(s, m, Prepares)] \in Prepares
    BY <2>1, LastOfType
  <2>3. \A e \in Prepares : e \in Event  BY DEF Prepares
  <2> QED  BY <2>2, <2>3, KindsOfEvents DEF Prep, Routes
<1>3. PrepAtCmd(s, n) \in Routes  BY <1>1, <1>2 DEF PrepAtCmd
<1>4. \A m \in 0..n : Host(s, m) \in Routes
  <2> TAKE m \in 0..n
  <2>1. m \in 0..Len(s)  OBVIOUS
  <2>2. /\ LastOf(s, m, Levels) \in 0..m
        /\ LastOf(s, m, Levels) > 0 => s[LastOf(s, m, Levels)] \in Levels
    BY <2>1, LastOfType
  <2>3. \A e \in Levels : e \in Event  BY DEF Levels
  <2> QED  BY <2>2, <2>3, KindsOfEvents DEF Host, Routes
<1>5. \A m \in 0..n : Pat(s, m) => WaveOf(s, m) \in Routes
  <2> SUFFICES ASSUME NEW m \in 0..n, Pat(s, m)
               PROVE  WaveOf(s, m) \in Routes
    OBVIOUS
  <2>1. m \in 0..Len(s)  OBVIOUS
  <2>2. /\ LastOf(s, m, Waves) \in 0..m /\ LastOf(s, m, Ends) \in 0..m
        /\ LastOf(s, m, Waves) > 0 => s[LastOf(s, m, Waves)] \in Waves
    BY <2>1, LastOfType
  <2>3. s[LastOf(s, m, Waves)] \in Waves  BY <2>2 DEF Pat
  <2>4. \A e \in Waves : e \in Event  BY DEF Waves
  <2> QED  BY <2>3, <2>4, KindsOfEvents DEF WaveOf
<1>6. \A m \in 0..n : Asked(s, m) \in Routes
  <2> TAKE m \in 0..n
  <2>1. m \in 0..Len(s)  OBVIOUS
  <2>2. LastOf(s, m, Commands) \in 0..m  BY <2>1, LastOfType
  <2>3. PrepAtCmd(s, m) \in Routes  BY <1>2, <2>2 DEF PrepAtCmd
  <2> QED  BY <1>4, <1>5, <2>3 DEF Asked
<1>7. Recorder(s, n) \in Routes  BY <1>1, <1>6 DEF Recorder, Routes
<1>8. InForce(s, n) \in Routes
  <2>1. LastOf(s, n, Prepares) > LastOf(s, n, Applies) =>
          s[LastOf(s, n, Prepares)] \in Prepares
    BY <1>1
  <2>2. \A e \in Prepares : e \in Event  BY DEF Prepares
  <2>3. BlockRoute(NoRoute) \in Routes  BY DEF BlockRoute, NoRoute, Routes
  <2> QED  BY <1>1, <1>6, <2>1, <2>2, <2>3, KindsOfEvents DEF InForce
<1>9. Cmd(s, n) \in BOOLEAN /\ Pat(s, n) \in BOOLEAN  BY DEF Cmd, Pat
<1> QED  BY <1>2, <1>3, <1>4, <1>5, <1>6, <1>7, <1>8, <1>9

-----------------------------------------------------------------------------
(* What one more event changes.                                            *)

\* What the first n events ask for stays when more are logged.
LEMMA LogStays ==
  ASSUME NEW s \in Seq(Event), NEW e \in Event, NEW n \in 0..Len(s),
         NEW t, t = Append(s, e)
  PROVE  /\ Prep(t, n) = Prep(s, n) /\ PrepAtCmd(t, n) = PrepAtCmd(s, n)
         /\ Cmd(t, n) = Cmd(s, n) /\ Pat(t, n) = Pat(s, n)
         /\ Pat(s, n) => WaveOf(t, n) = WaveOf(s, n)
         /\ Host(t, n) = Host(s, n) /\ Asked(t, n) = Asked(s, n)
         /\ Recorder(t, n) = Recorder(s, n) /\ InForce(t, n) = InForce(s, n)
         /\ LastOf(t, n, Prepares) = LastOf(s, n, Prepares)
         /\ LastOf(t, n, Applies) = LastOf(s, n, Applies)
<1>1. \A E : \A m \in 0..n :
        /\ LastOf(t, m, E) = LastOf(s, m, E)
        /\ LastOf(s, m, E) \in 0..n /\ LastOf(s, m, E) <= m
  <2> TAKE E
  <2> TAKE m \in 0..n
  <2>1. m \in 0..Len(s)  OBVIOUS
  <2>2. LastOf(s, m, E) \in 0..m  BY <2>1, LastOfType
  <2> QED  BY <2>1, <2>2, LastOfStays
<1>2. \A i \in 0..n : i > 0 => t[i] = s[i]  OBVIOUS
<1>3. \A m \in 0..n : Prep(t, m) = Prep(s, m)
  BY <1>1, <1>2 DEF Prep
<1>4. \A m \in 0..n : Cmd(t, m) = Cmd(s, m) /\ PrepAtCmd(t, m) = PrepAtCmd(s, m)
  BY <1>1, <1>2, <1>3 DEF Cmd, PrepAtCmd
<1>5. \A m \in 0..n : Pat(t, m) = Pat(s, m)
  BY <1>1 DEF Pat
<1>6. \A m \in 0..n : Pat(s, m) => WaveOf(t, m) = WaveOf(s, m)
  BY <1>1, <1>2 DEF Pat, WaveOf
<1>7. \A m \in 0..n : Host(t, m) = Host(s, m)
  BY <1>1, <1>2 DEF Host
<1>8. \A m \in 0..n : Asked(t, m) = Asked(s, m)
  BY <1>4, <1>5, <1>6, <1>7 DEF Asked
<1>9. n \in 0..n  OBVIOUS
<1>10. Recorder(t, n) = Recorder(s, n) /\ InForce(t, n) = InForce(s, n)
  BY <1>1, <1>2, <1>8, <1>9 DEF Recorder, InForce
<1> QED  BY <1>1, <1>3, <1>4, <1>5, <1>6, <1>7, <1>8, <1>9, <1>10

\* The next event, e, moves what is of its kind and leaves the rest.
LEMMA NextEvent ==
  ASSUME NEW s \in Seq(Event), NEW n \in Nat, n + 1 <= Len(s),
         NEW e \in Event, e = s[n + 1]
  PROVE  /\ Prep(s, n + 1) = IF e \in Prepares THEN e.route ELSE Prep(s, n)
         /\ Cmd(s, n + 1) = IF e \in Commands THEN e.op = "on" ELSE Cmd(s, n)
         /\ PrepAtCmd(s, n + 1) =
              IF e \in Commands THEN Prep(s, n) ELSE PrepAtCmd(s, n)
         /\ WaveOf(s, n + 1) = IF e \in Waves THEN Wave(e) ELSE WaveOf(s, n)
         /\ Host(s, n + 1) = IF e \in Levels THEN Level(e) ELSE Host(s, n)
         /\ Recorder(s, n + 1) =
              IF e \in Applies THEN Asked(s, n + 1) ELSE Recorder(s, n)
         /\ InForce(s, n + 1) =
              IF e \in Applies THEN Asked(s, n + 1)
              ELSE IF e \in Prepares THEN e.route ELSE InForce(s, n)
<1>1. \A E : LastOf(s, n + 1, E) = IF e \in E THEN n + 1 ELSE LastOf(s, n, E)
  BY LastOfNext
<1>2. \A E : LastOf(s, n, E) \in 0..n
  BY LastOfType
<1>3. Prep(s, n + 1) = IF e \in Prepares THEN e.route ELSE Prep(s, n)
  BY <1>1, <1>2 DEF Prep
<1>4. Cmd(s, n + 1) = IF e \in Commands THEN e.op = "on" ELSE Cmd(s, n)
  BY <1>1, <1>2 DEF Cmd
<1>5. PrepAtCmd(s, n + 1) =
        IF e \in Commands THEN Prep(s, n) ELSE PrepAtCmd(s, n)
  BY <1>1, <1>3, KindsOfEvents DEF PrepAtCmd
<1>6. WaveOf(s, n + 1) = IF e \in Waves THEN Wave(e) ELSE WaveOf(s, n)
  BY <1>1 DEF WaveOf
<1>7. Host(s, n + 1) = IF e \in Levels THEN Level(e) ELSE Host(s, n)
  BY <1>1, <1>2 DEF Host
<1>8. Recorder(s, n + 1) =
        IF e \in Applies THEN Asked(s, n + 1) ELSE Recorder(s, n)
  BY <1>1, <1>2 DEF Recorder
<1>9. InForce(s, n + 1) =
         IF e \in Applies THEN Asked(s, n + 1)
         ELSE IF e \in Prepares THEN e.route ELSE InForce(s, n)
  <2>1. CASE e \in Applies
    <3>1. LastOf(s, n + 1, Applies) = n + 1  BY <1>1, <2>1
    <3>2. LastOf(s, n + 1, Prepares) \in 0..(n + 1)  BY <1>1, <1>2
    <3> QED  BY <2>1, <3>1, <3>2 DEF InForce
  <2>2. CASE e \notin Applies /\ e \in Prepares
    <3>1. LastOf(s, n + 1, Prepares) = n + 1  BY <1>1, <2>2
    <3>2. LastOf(s, n + 1, Applies) \in 0..n  BY <1>1, <1>2, <2>2
    <3> QED  BY <2>2, <3>1, <3>2 DEF InForce
  <2>3. CASE e \notin Applies /\ e \notin Prepares
    BY <1>1, <2>3 DEF InForce
  <2> QED  BY <2>1, <2>2, <2>3
<1> QED  BY <1>3, <1>4, <1>5, <1>6, <1>7, <1>8, <1>9

\* The pattern is on after a report with the pattern and off after an event that
\* ends it; any other event leaves it as it was.
LEMMA PatternStarts ==
  ASSUME NEW s \in Seq(Event), NEW n \in Nat, n + 1 <= Len(s),
         s[n + 1] \in Waves
  PROVE  Pat(s, n + 1) = TRUE
<1>1. s[n + 1] \in Event /\ s[n + 1] \notin Ends
  BY KindsOfEvents DEF Waves
<1>2. LastOf(s, n + 1, Waves) = n + 1  BY LastOfNext
<1>3. LastOf(s, n + 1, Ends) = LastOf(s, n, Ends)  BY <1>1, LastOfNext
<1>4. LastOf(s, n, Ends) \in 0..n  BY LastOfType
<1>5. LastOf(s, n + 1, Waves) > LastOf(s, n + 1, Ends)
  BY <1>2, <1>3, <1>4
<1> QED  BY <1>5 DEF Pat

LEMMA PatternStops ==
  ASSUME NEW s \in Seq(Event), NEW n \in Nat, n + 1 <= Len(s),
         s[n + 1] \in Ends
  PROVE  Pat(s, n + 1) = FALSE
<1>1. s[n + 1] \in Event /\ s[n + 1] \notin Waves
  BY KindsOfEvents DEF Ends
<1>2. LastOf(s, n + 1, Ends) = n + 1  BY LastOfNext
<1>3. LastOf(s, n + 1, Waves) = LastOf(s, n, Waves)  BY <1>1, LastOfNext
<1>4. LastOf(s, n, Waves) \in 0..n  BY LastOfType
<1>5. ~(LastOf(s, n + 1, Waves) > LastOf(s, n + 1, Ends))
  BY <1>2, <1>3, <1>4
<1> QED  BY <1>5 DEF Pat

LEMMA PatternGoesOn ==
  ASSUME NEW s \in Seq(Event), NEW n \in Nat, n + 1 <= Len(s),
         s[n + 1] \notin Waves, s[n + 1] \notin Ends
  PROVE  Pat(s, n + 1) = Pat(s, n)
<1>1. /\ LastOf(s, n + 1, Ends) = LastOf(s, n, Ends)
      /\ LastOf(s, n + 1, Waves) = LastOf(s, n, Waves)
  BY LastOfNext
<1> QED  BY <1>1 DEF Pat

-----------------------------------------------------------------------------
(* The inductive invariant.                                                *)

\* The last store to an atomic, on its way or landed.
Stored(c) == IF stores[c] = {} THEN {shared[c]} ELSE stores[c]

\* The variables of the commands and of the volumes follow n events, ...
BusFollows(n) ==
  /\ pendingWaveOutRoute = Prep(log, n)
  /\ featureWaveOut.active = Cmd(log, n)
  /\ featureWaveOut.route = PrepAtCmd(log, n)
  /\ hostAudioRoute = Host(log, n)

\* ... those of the pattern do, ...
PatternFollows(n) ==
  /\ inferredWaveOut.active = Pat(log, n)
  /\ Pat(log, n) => inferredWaveOut.route = WaveOf(log, n)

\* ... and so does what is stored for the audio thread.
AudioFollows(n) ==
  /\ Stored("active") = {Cmd(log, n) \/ Pat(log, n)}
  /\ Stored("route") = {Recorder(log, n)}
  /\ \E override \in Routes \cup {NoRoute} :
       /\ Stored("override") = {override}
       /\ BlockRoute(override) = InForce(log, n)

Follows(n) == BusFollows(n) /\ PatternFollows(n) /\ AudioFollows(n)

\* Between handlers everything follows the whole log; in a handler all but its
\* last event; and before the pattern's end is applied, all but the pattern.
BusInv ==
  /\ busPc = "idle" => Follows(Len(log))
  /\ busPc = "handle" =>
       /\ Len(log) > 0 /\ log[Len(log)] = busReport
       /\ busReport \in HostReports
       /\ Follows(Len(log) - 1)
  /\ busPc = "inferOff" =>
       /\ Len(log) > 0 /\ log[Len(log)] \in Applies \cap Ends
       /\ inferredWaveOut.active
       /\ BusFollows(Len(log))

\* No tone without an event that was applied.
ToneHasEvent ==
  \/ \E i \in 1..(IF busPc = "handle" THEN Len(log) - 1 ELSE Len(log)) :
       log[i] \in Applies
  \/ audioPc = "loop" /\ ~shared["active"] /\ TRUE \notin stores["active"]

\* A packet's call is clean as long as nothing was stored since its route was
\* loaded, and that route was in force.
CleanCall ==
  audioCall.clean =>
    /\ NothingInFlight
    /\ audioCall.route = BlockRoute(shared["override"])

\* A tone packet sent while the tone is off was the one already begun.
TailInv == tail \in 0..1 /\ (tail = 1 => audioPc = "loop" /\ ~shared["active"])

HoldInv == inferredWaveOut.active => holdLeft + sinceWave = Hold

IInv ==
  /\ TypeOK /\ BusInv /\ ToneHasEvent /\ CleanCall /\ TailInv /\ HoldInv

-----------------------------------------------------------------------------
(* Types.                                                                  *)

LEMMA RoutesOf ==
  /\ \A r \in Routes \cup {NoRoute} : BlockRoute(r) \in Routes
  /\ \A r \in Routes : BlockRoute(r) = r
  /\ \A e : Level(e) = NoRoute \/ Level(e) \in Routes
  /\ \A e : Wave(e) = NoRoute \/ Wave(e) \in Routes
  /\ NoRoute \notin Routes
<1> USE DEF Routes, NoRoute
<1>1. /\ \A r \in Routes \cup {NoRoute} : BlockRoute(r) \in Routes
      /\ \A r \in Routes : BlockRoute(r) = r
  BY DEF BlockRoute
<1>2. \A e : Level(e) = NoRoute \/ Level(e) \in Routes  BY DEF Level
<1>3. \A e : Wave(e) = NoRoute \/ Wave(e) \in Routes  BY DEF Wave
<1> QED  BY <1>1, <1>2, <1>3

\* Both atomics of the recorder and the override, stored at once.
LEMMA StoreAllStores ==
  ASSUME AudioTypeOK, NEW enabled \in BOOLEAN, NEW route \in Routes,
         StoreAll(enabled, route)
  PROVE  /\ stores' \in [route : SUBSET Routes, active : SUBSET BOOLEAN,
                         override : SUBSET Routes]
         /\ Stored("active")' = {enabled}
         /\ Stored("route")' = {route}
         /\ Stored("override")' = {route}
         /\ audioCall' \in [route : Routes \cup {NoRoute}, clean : BOOLEAN]
         /\ audioCall'.clean = FALSE
<1>1. stores' = [route |-> {route}, active |-> {enabled}, override |-> {route}]
  BY DEF StoreAll
<1>2. Stored("active")' = {enabled}  BY <1>1 DEF Stored
<1>3. Stored("route")' = {route}  BY <1>1 DEF Stored
<1>4. Stored("override")' = {route}  BY <1>1 DEF Stored
<1>5. audioCall' \in [route : Routes \cup {NoRoute}, clean : BOOLEAN]
      /\ audioCall'.clean = FALSE
  BY DEF StoreAll, AudioTypeOK
<1> QED  BY <1>1, <1>2, <1>3, <1>4, <1>5

\* What apply_waveout_state stores.
LEMMA ApplyStores ==
  ASSUME AudioTypeOK, NEW feature \in Tone, NEW inferred \in Tone,
         NEW host \in Routes, ApplyWaveOutState(feature, inferred, host)
  PROVE  /\ stores' \in [route : SUBSET Routes, active : SUBSET BOOLEAN,
                         override : SUBSET Routes]
         /\ audioCall' \in [route : Routes \cup {NoRoute}, clean : BOOLEAN]
         /\ audioCall'.clean = FALSE
<1>1. PICK enabled \in BOOLEAN, route \in Routes :
        /\ enabled = (feature.active \/ inferred.active)
        /\ route = IF feature.active THEN feature.route
                   ELSE IF inferred.active THEN inferred.route ELSE host
  BY DEF Tone
<1>2. StoreAll(enabled, route)  BY <1>1 DEF ApplyWaveOutState
<1> QED  BY <1>2, StoreAllStores

\* The event bus thread reads back its own last store.
LEMMA OverrideIsStored ==
  ASSUME AudioTypeOK
  PROVE  /\ OwnOverride \in Routes \cup {NoRoute}
         /\ \A r \in Routes \cup {NoRoute} :
              Stored("override") = {r} => OwnOverride = r
<1>1. stores["override"] = {} => shared["override"] \in Routes \cup {NoRoute}
  BY DEF AudioTypeOK
<1>2. stores["override"] # {} =>
        \E r \in Routes \cup {NoRoute} : r \in stores["override"]
  BY DEF AudioTypeOK
<1>3. /\ OwnOverride \in Routes \cup {NoRoute}
      /\ IF stores["override"] = {} THEN OwnOverride = shared["override"]
         ELSE OwnOverride \in stores["override"]
  BY <1>1, <1>2 DEF OwnOverride
<1> QED  BY <1>3 DEF Stored

\* Whatever the host sends is an event the log may hold.
LEMMA HostEventTypes ==
  /\ HostReports \subseteq Event
  /\ \A route \in Routes : [op |-> "prepare", route |-> route] \in Event
  /\ \A enabled \in BOOLEAN :
       [op |-> IF enabled THEN "on" ELSE "off"] \in Event
  /\ [op |-> "expire"] \in Event
BY HostReportsAssumption DEF Event

\* Types of the event bus thread and of the log.
LEMMA BusTypeStep ==
  ASSUME TypeOK, Next
  PROVE  BusTypeOK'
<1> USE DEF TypeOK, BusTypeOK
<1>1. ASSUME NEW report \in HostReports, SetStateData(report)
      PROVE  BusTypeOK'
  <2>1. log' \in Seq(Event)
    BY <1>1, HostEventTypes, AppendProperties DEF SetStateData, HostEvent
  <2> QED  BY <1>1, <2>1 DEF SetStateData, busVars
<1>2. ASSUME NEW route \in Routes, Prepare(route)
      PROVE  BusTypeOK'
  <2>1. log' \in Seq(Event)
    BY <1>2, HostEventTypes, AppendProperties DEF Prepare, HostEvent
  <2> QED  BY <1>2, <2>1 DEF Prepare
<1>3. ASSUME NEW enabled \in BOOLEAN, Switch(enabled)
      PROVE  BusTypeOK'
  <2>1. log' \in Seq(Event)
    BY <1>3, HostEventTypes, AppendProperties DEF Switch, HostEvent
  <2>2. featureWaveOut' \in Tone  BY <1>3 DEF Switch, Tone
  <2> QED  BY <1>3, <2>1, <2>2 DEF Switch
<1>4. CASE IgnoreShort  BY <1>4 DEF IgnoreShort, busVars
<1>5. ASSUME SetHostAudioRoute  PROVE hostAudioRoute' \in Routes
  BY <1>5, RoutesOf DEF SetHostAudioRoute
<1>6. CASE InferOn
  <2>1. inferredWaveOut' \in Tone
    BY <1>6, RoutesOf DEF InferOn, Tone
  <2>2. holdLeft' \in 0..Hold /\ sinceWave' \in 0..Hold
    BY <1>6, HoldAssumption DEF InferOn, RenewHold
  <2> QED  BY <1>5, <1>6, <2>1, <2>2 DEF InferOn
<1>7. CASE AudioTouched  BY <1>5, <1>7 DEF AudioTouched
<1>8. CASE AudioUntouched  BY <1>5, <1>8 DEF AudioUntouched
<1>9. ASSUME InferOff, log' \in Seq(Event)
      PROVE  BusTypeOK'
  <2>1. inferredWaveOut' \in Tone  BY <1>9 DEF InferOff, Tone
  <2>2. holdLeft' \in 0..Hold /\ sinceWave' \in 0..Hold
    BY <1>9, HoldAssumption DEF InferOff
  <2> QED  BY <1>9, <2>1, <2>2 DEF InferOff
<1>10. CASE PatternEnds
  <2>1. log' \in Seq(Event)  BY <1>10 DEF PatternEnds
  <2> QED  BY <1>9, <1>10, <2>1 DEF PatternEnds
<1>11. CASE PollInferredWaveOut
  <2>1. log' \in Seq(Event)
    BY <1>11, HostEventTypes, AppendProperties DEF PollInferredWaveOut
  <2> QED  BY <1>9, <1>11, <2>1 DEF PollInferredWaveOut
<1>12. ASSUME NEW c \in Cells, Land(c)  PROVE BusTypeOK'
  BY <1>12 DEF Land, busVars
<1>13. CASE LoadActive  BY <1>13 DEF LoadActive, busVars
<1>14. CASE ToneNotDue  BY <1>14 DEF ToneNotDue, busVars
<1>15. CASE LoadRoute  BY <1>15 DEF LoadRoute, busVars
<1>16. CASE SendTone  BY <1>16 DEF SendTone, busVars
<1>17. CASE SendHaptics  BY <1>17 DEF SendHaptics, busVars
<1>18. CASE AudioWindowExpires  BY <1>18 DEF AudioWindowExpires, busVars
<1>19. CASE Tick
  <2>1. holdLeft' \in 0..Hold  BY <1>19, HoldAssumption DEF Tick
  <2>2. sinceWave' \in 0..Hold
    <3>1. sinceWave + 1 \in Int /\ Hold \in Int  BY HoldAssumption
    <3>2. sinceWave' = IF sinceWave + 1 <= Hold THEN sinceWave + 1 ELSE Hold
      BY <1>19, <3>1, MinOfTwo DEF Tick
    <3> QED  BY <3>2, HoldAssumption
  <2> QED  BY <1>19, <2>1, <2>2 DEF Tick
<1> QED
  BY <1>1, <1>2, <1>3, <1>4, <1>6, <1>7, <1>8, <1>10, <1>11, <1>12, <1>13,
     <1>14, <1>15, <1>16, <1>17, <1>18, <1>19
  DEF Next, HostActs, HandleReport

\* Types of the audio thread and of the atomics.
LEMMA AudioTypeStep ==
  ASSUME TypeOK, BusTypeOK', Next
  PROVE  AudioTypeOK'
<1> USE DEF TypeOK
<1>1. ASSUME NEW report \in HostReports, SetStateData(report)
      PROVE  AudioTypeOK'
  <2>1. controller' \in Routes
    BY <1>1, OverrideIsStored, RoutesOf
    DEF SetStateData, TellController, AudioTypeOK
  <2> QED  BY <1>1, <2>1 DEF SetStateData, AudioTypeOK, audioVars
<1>2. ASSUME NEW route \in Routes, Prepare(route)
      PROVE  AudioTypeOK'
  <2>1. stores' \in [route : SUBSET Routes, active : SUBSET BOOLEAN,
                     override : SUBSET Routes]
    BY <1>2 DEF Prepare, AudioTypeOK
  <2>2. audioCall' \in [route : Routes \cup {NoRoute}, clean : BOOLEAN]
    BY <1>2 DEF Prepare, AudioTypeOK
  <2> QED  BY <1>2, <2>1, <2>2 DEF Prepare, AudioTypeOK
<1>3. ASSUME ApplyWaveOutState(featureWaveOut', inferredWaveOut',
                               hostAudioRoute'),
             UNCHANGED <<shared, audioActive, audioPc, controller, tail>>
      PROVE  AudioTypeOK'
  <2>1. /\ featureWaveOut' \in Tone /\ inferredWaveOut' \in Tone
        /\ hostAudioRoute' \in Routes
    BY DEF BusTypeOK
  <2>2. /\ stores' \in [route : SUBSET Routes, active : SUBSET BOOLEAN,
                        override : SUBSET Routes]
        /\ audioCall' \in [route : Routes \cup {NoRoute}, clean : BOOLEAN]
    BY <1>3, <2>1, ApplyStores
  <2> QED  BY <1>3, <2>2 DEF AudioTypeOK
<1>4. ASSUME NEW enabled \in BOOLEAN, Switch(enabled)
      PROVE  AudioTypeOK'
  BY <1>3, <1>4 DEF Switch
<1>5. CASE IgnoreShort  BY <1>5 DEF IgnoreShort, AudioTypeOK, audioVars
<1>6. CASE InferOn  BY <1>3, <1>6 DEF InferOn
<1>7. CASE AudioTouched  BY <1>3, <1>7 DEF AudioTouched
<1>8. CASE AudioUntouched
  BY <1>8 DEF AudioUntouched, AudioTypeOK, audioVars
<1>9. CASE PatternEnds  BY <1>3, <1>9 DEF PatternEnds, InferOff
<1>10. CASE PollInferredWaveOut
  BY <1>3, <1>10 DEF PollInferredWaveOut, InferOff
<1>11. ASSUME NEW c \in Cells, Land(c)
       PROVE  AudioTypeOK'
  <2>1. PICK value \in stores[c] : shared' = [shared EXCEPT ![c] = value]
    BY <1>11 DEF Land
  <2>2. shared' \in [route : Routes, active : BOOLEAN,
                     override : Routes \cup {NoRoute}]
    BY <2>1 DEF AudioTypeOK, Cells
  <2>3. stores' \in [route : SUBSET Routes, active : SUBSET BOOLEAN,
                     override : SUBSET Routes]
    BY <1>11 DEF Land, AudioTypeOK, Cells
  <2>4. tail' \in 0..2  BY <1>11 DEF Land, AudioTypeOK
  <2> QED  BY <1>11, <2>2, <2>3, <2>4 DEF Land, AudioTypeOK
<1>12. CASE LoadActive  BY <1>12 DEF LoadActive, AudioTypeOK
<1>13. CASE ToneNotDue  BY <1>13 DEF ToneNotDue, AudioTypeOK
<1>14. CASE LoadRoute
  <2>1. audioCall' \in [route : Routes \cup {NoRoute}, clean : BOOLEAN]
    BY <1>14 DEF LoadRoute, AudioTypeOK, NothingInFlight, Prepared
  <2> QED  BY <1>14, <2>1 DEF LoadRoute, AudioTypeOK
<1>15. CASE SendTone
  <2>1. controller' \in Routes  BY <1>15, RoutesOf DEF SendTone, AudioTypeOK
  <2>2. tail' \in 0..2
    <3>1. tail + 1 \in Int /\ 2 \in Int  BY DEF AudioTypeOK
    <3>2. Min({tail + 1, 2}) = IF tail + 1 <= 2 THEN tail + 1 ELSE 2
      BY <3>1, MinOfTwo
    <3> QED  BY <1>15, <3>2 DEF SendTone, AudioTypeOK
  <2>3. audioCall' \in [route : Routes \cup {NoRoute}, clean : BOOLEAN]
    BY <1>15 DEF SendTone, NoCall
  <2> QED
    BY <1>15, <2>1, <2>2, <2>3 DEF SendTone, NextRound, AudioTypeOK
<1>16. CASE SendHaptics
  <2>1. controller' \in Routes
    BY <1>16, RoutesOf DEF SendHaptics, AudioTypeOK
  <2> QED  BY <1>16, <2>1 DEF SendHaptics, AudioTypeOK, audioVars
<1>17. CASE AudioWindowExpires
  BY <1>17 DEF AudioWindowExpires, AudioTypeOK, audioVars
<1>18. CASE Tick  BY <1>18 DEF Tick, AudioTypeOK, audioVars
<1> QED
  BY <1>1, <1>2, <1>4, <1>5, <1>6, <1>7, <1>8, <1>9, <1>10, <1>11, <1>12, <1>13,
     <1>14, <1>15, <1>16, <1>17, <1>18
  DEF Next, HostActs, HandleReport

-----------------------------------------------------------------------------
(* The event bus thread follows the log.                                   *)

\* An event that is logged changes nothing of what those before it say.
LEMMA EarlierEvents ==
  ASSUME log \in Seq(Event), NEW e \in Event,
         log' = log \/ log' = Append(log, e),
         NEW n \in 0..Len(log)
  PROVE  /\ Prep(log', n) = Prep(log, n)
         /\ PrepAtCmd(log', n) = PrepAtCmd(log, n)
         /\ Cmd(log', n) = Cmd(log, n) /\ Pat(log', n) = Pat(log, n)
         /\ Pat(log, n) => WaveOf(log', n) = WaveOf(log, n)
         /\ Host(log', n) = Host(log, n)
         /\ Recorder(log', n) = Recorder(log, n)
         /\ InForce(log', n) = InForce(log, n)
BY LogStays

\* What follows the first n events goes on to follow them, as long as it
\* stays the same.
LEMMA StepStays ==
  ASSUME log \in Seq(Event), NEW e \in Event,
         log' = log \/ log' = Append(log, e),
         NEW n \in 0..Len(log)
  PROVE  /\ BusFollows(n) /\ UNCHANGED <<pendingWaveOutRoute, featureWaveOut,
                                         hostAudioRoute>> =>
              BusFollows(n)'
         /\ PatternFollows(n) /\ UNCHANGED inferredWaveOut =>
              PatternFollows(n)'
         /\ AudioFollows(n) /\ (\A c \in Cells : Stored(c)' = Stored(c)) =>
              AudioFollows(n)'
<1>1. /\ Prep(log', n) = Prep(log, n) /\ PrepAtCmd(log', n) = PrepAtCmd(log, n)
      /\ Cmd(log', n) = Cmd(log, n) /\ Pat(log', n) = Pat(log, n)
      /\ Pat(log, n) => WaveOf(log', n) = WaveOf(log, n)
      /\ Host(log', n) = Host(log, n)
      /\ Recorder(log', n) = Recorder(log, n)
      /\ InForce(log', n) = InForce(log, n)
  BY EarlierEvents
<1>2. BusFollows(n) /\ UNCHANGED <<pendingWaveOutRoute, featureWaveOut,
                                   hostAudioRoute>> => BusFollows(n)'
  BY <1>1 DEF BusFollows
<1>3. PatternFollows(n) /\ UNCHANGED inferredWaveOut => PatternFollows(n)'
  BY <1>1 DEF PatternFollows
<1>4. AudioFollows(n) /\ (\A c \in Cells : Stored(c)' = Stored(c)) =>
        AudioFollows(n)'
  <2>1. "active" \in Cells /\ "route" \in Cells /\ "override" \in Cells
    BY DEF Cells
  <2> QED  BY <1>1, <2>1 DEF AudioFollows
<1> QED  BY <1>2, <1>3, <1>4

\* Applied after an event that is applied, the state follows it.
LEMMA ApplyFollows ==
  ASSUME AudioTypeOK, BusTypeOK', NEW n \in Nat, n + 1 <= Len(log'),
         log'[n + 1] \in Applies,
         BusFollows(n + 1)', PatternFollows(n + 1)',
         ApplyWaveOutState(featureWaveOut', inferredWaveOut', hostAudioRoute')
  PROVE  AudioFollows(n + 1)'
<1>1. PICK s \in Seq(Event) : s = log'  BY DEF BusTypeOK
<1>2. PICK k \in 0..Len(s) : k = n + 1  BY <1>1
<1>3. log'[n + 1] \in Event  BY DEF Applies
<1>4. Recorder(s, k) = Asked(s, k) /\ InForce(s, k) = Asked(s, k)
  BY <1>1, <1>2, <1>3, NextEvent
<1>5. Asked(s, k) \in Routes /\ Cmd(s, k) \in BOOLEAN /\ Pat(s, k) \in BOOLEAN
  BY AskedType
<1>6. PICK f \in Tone, i \in Tone, h \in Routes :
        f = featureWaveOut' /\ i = inferredWaveOut' /\ h = hostAudioRoute'
  BY DEF BusTypeOK
<1>7. f.active = Cmd(s, k) /\ f.route = PrepAtCmd(s, k) /\ h = Host(s, k)
  BY <1>1, <1>2, <1>6 DEF BusFollows
<1>8. i.active = Pat(s, k) /\ (Pat(s, k) => i.route = WaveOf(s, k))
  BY <1>1, <1>2, <1>6 DEF PatternFollows
<1>9. PICK route \in Routes : route = Asked(s, k)  BY <1>5
<1>10. (IF f.active THEN f.route ELSE IF i.active THEN i.route ELSE h) = route
  BY <1>7, <1>8, <1>9 DEF Asked
<1>11. PICK on \in BOOLEAN : on = (Cmd(s, k) \/ Pat(s, k))  BY <1>5
<1>12. (f.active \/ i.active) = on  BY <1>7, <1>8, <1>11
<1>13. ApplyWaveOutState(f, i, h)  BY <1>6
<1>14. StoreAll(on, route)  BY <1>10, <1>12, <1>13 DEF ApplyWaveOutState
<1>15. /\ Stored("active")' = {on}
       /\ Stored("route")' = {route} /\ Stored("override")' = {route}
  BY <1>14, StoreAllStores
<1>16. BlockRoute(route) = route  BY RoutesOf
<1> QED
  BY <1>1, <1>2, <1>4, <1>9, <1>11, <1>15, <1>16 DEF AudioFollows

\* What a report says to the log.
LEMMA ReportKinds ==
  ASSUME NEW e \in HostReports
  PROVE  /\ e \in Event /\ e \notin Commands /\ e \notin Prepares
         /\ e.short => /\ e \notin Waves /\ e \notin Ends
                       /\ e \notin Levels /\ e \notin Applies
         /\ ~e.short => /\ e \in Levels <=> Level(e) # NoRoute
                        /\ e \in Waves <=> Wave(e) # NoRoute
                        /\ e \in Applies <=> e.touched \/ Wave(e) # NoRoute
                        /\ e \in Ends <=> e.touched /\ Wave(e) = NoRoute
<1>1. e \in Event /\ e.op = "output"
  BY HostReportsAssumption DEF Event, OutputReport
<1>2. e \notin Commands /\ e \notin Prepares
  BY <1>1 DEF Commands, Prepares, IsCommand, IsPrepare
<1>3. e \in Levels <=> ~e.short /\ Level(e) # NoRoute
  BY <1>1 DEF Levels, HasLevel
<1>4. e \in Waves <=> ~e.short /\ Wave(e) # NoRoute
  BY <1>1 DEF Waves, IsWave
<1>5. e \in Applies <=> ~e.short /\ (e.touched \/ Wave(e) # NoRoute)
  BY <1>1 DEF Applies, Applied
<1>6. e \in Ends <=> ~e.short /\ e.touched /\ Wave(e) = NoRoute
  BY <1>1 DEF Ends, EndsPattern, IsWave, Applied
<1> QED  BY <1>1, <1>2, <1>3, <1>4, <1>5, <1>6

\* What the bus commands and the expiry say to it.
LEMMA CommandKinds ==
  /\ \A r \in Routes : LET e == [op |-> "prepare", route |-> r] IN
       /\ e \in Event /\ e \in Prepares /\ e \notin Commands
       /\ e \notin Waves /\ e \notin Ends /\ e \notin Levels /\ e \notin Applies
  /\ \A on \in BOOLEAN : LET e == [op |-> IF on THEN "on" ELSE "off"] IN
       /\ e \in Event /\ e \in Commands /\ e \notin Prepares
       /\ e \notin Waves /\ e \notin Ends /\ e \notin Levels /\ e \in Applies
       /\ (e.op = "on") = on
  /\ LET e == [op |-> "expire"] IN
       /\ e \in Event /\ e \notin Commands /\ e \notin Prepares
       /\ e \notin Waves /\ e \in Ends /\ e \notin Levels /\ e \in Applies
<1> USE HostEventTypes
    DEF Waves, Ends, Commands, Prepares, Levels, Applies, IsWave, EndsPattern,
        IsCommand, IsPrepare, HasLevel, Applied
<1>1. \A r \in Routes : LET e == [op |-> "prepare", route |-> r] IN
       /\ e \in Event /\ e \in Prepares /\ e \notin Commands
       /\ e \notin Waves /\ e \notin Ends /\ e \notin Levels /\ e \notin Applies
  OBVIOUS
<1>2. \A on \in BOOLEAN : LET e == [op |-> IF on THEN "on" ELSE "off"] IN
       /\ e \in Event /\ e \in Commands /\ e \notin Prepares
       /\ e \notin Waves /\ e \notin Ends /\ e \notin Levels /\ e \in Applies
       /\ (e.op = "on") = on
  OBVIOUS
<1>3. LET e == [op |-> "expire"] IN
       /\ e \in Event /\ e \notin Commands /\ e \notin Prepares
       /\ e \notin Waves /\ e \in Ends /\ e \notin Levels /\ e \in Applies
  OBVIOUS
<1> QED  BY <1>1, <1>2, <1>3

\* A store that lands is no longer on its way, but still the last one.
LEMMA LandKeeps ==
  ASSUME AudioTypeOK, NEW c \in Cells, Land(c), NEW n, AudioFollows(n)
  PROVE  \A d \in Cells : Stored(d)' = Stored(d)
<1>1. PICK value \in stores[c] : shared' = [shared EXCEPT ![c] = value]
  BY DEF Land
<1>2. stores' = [stores EXCEPT ![c] = {}]  BY DEF Land
<1>3. DOMAIN stores = Cells /\ DOMAIN shared = Cells
  BY DEF AudioTypeOK, Cells
<1>4. \A d \in Cells : \E v : Stored(d) = {v}  BY DEF AudioFollows, Cells
<1>5. Stored(c) = {value}  BY <1>1, <1>4 DEF Stored
<1>6. Stored(c)' = {value}  BY <1>1, <1>2, <1>3 DEF Stored
<1>7. \A d \in Cells \ {c} : Stored(d)' = Stored(d)
  BY <1>1, <1>2, <1>3 DEF Stored
<1> QED  BY <1>5, <1>6, <1>7

\* Steps the event bus thread has no part in.
LEMMA BusInvStays ==
  ASSUME BusTypeOK, BusInv,
         UNCHANGED <<pendingWaveOutRoute, featureWaveOut, inferredWaveOut,
                     hostAudioRoute, busPc, busReport, log>>,
         \A n \in Nat : AudioFollows(n) =>
                          \A c \in Cells : Stored(c)' = Stored(c)
  PROVE  BusInv'
<1>1. log \in Seq(Event) /\ Len(log) \in Nat /\ log' = log
  BY DEF BusTypeOK
<1>2. [op |-> "expire"] \in Event  BY HostEventTypes
<1>3. \A n \in 0..Len(log) : BusFollows(n) => BusFollows(n)'
  BY <1>1, <1>2, StepStays
<1>4. \A n \in 0..Len(log) : Follows(n) => Follows(n)'
  BY <1>1, <1>2, StepStays DEF Follows
<1>5. CASE busPc = "idle"
  <2>1. Follows(Len(log))'  BY <1>1, <1>4, <1>5 DEF BusInv
  <2> QED  BY <1>5, <2>1 DEF BusInv
<1>6. CASE busPc = "handle"
  <2>1. Follows(Len(log) - 1)'  BY <1>1, <1>4, <1>6 DEF BusInv
  <2> QED  BY <1>6, <2>1 DEF BusInv
<1>7. CASE busPc = "inferOff"
  <2>1. BusFollows(Len(log))'  BY <1>1, <1>3, <1>7 DEF BusInv
  <2> QED  BY <1>7, <2>1 DEF BusInv
<1> QED  BY <1>5, <1>6, <1>7 DEF BusTypeOK

\* The variables of the commands and of the volumes after a report.
LEMMA ReportFollowed ==
  ASSUME BusTypeOK, BusInv, busPc = "handle",
         UNCHANGED <<pendingWaveOutRoute, featureWaveOut, log>>,
         IF busReport.short THEN UNCHANGED hostAudioRoute
         ELSE SetHostAudioRoute
  PROVE  \E n \in Nat :
           /\ n + 1 = Len(log) /\ log[n + 1] = busReport
           /\ busReport \in HostReports
           /\ Follows(n) /\ BusFollows(n + 1)'
<1>1. PICK s \in Seq(Event) : s = log  BY DEF BusTypeOK
<1>2. PICK n \in Nat : n + 1 = Len(s) /\ n = Len(s) - 1
  BY <1>1 DEF BusInv
<1>3. PICK e \in HostReports : e = busReport /\ e = s[n + 1]
  BY <1>1, <1>2 DEF BusInv
<1>4. Follows(n)  BY <1>1, <1>2 DEF BusInv
<1>5. /\ Prep(s, n + 1) = Prep(s, n) /\ Cmd(s, n + 1) = Cmd(s, n)
      /\ PrepAtCmd(s, n + 1) = PrepAtCmd(s, n)
      /\ Host(s, n + 1) = IF e \in Levels THEN Level(e) ELSE Host(s, n)
  <2>1. e \in Event /\ e \notin Prepares /\ e \notin Commands  BY ReportKinds
  <2> QED  BY <1>2, <1>3, <2>1, NextEvent
<1>6. /\ pendingWaveOutRoute = Prep(s, n)
      /\ featureWaveOut.active = Cmd(s, n)
      /\ featureWaveOut.route = PrepAtCmd(s, n)
      /\ hostAudioRoute = Host(s, n)
  BY <1>1, <1>4 DEF Follows, BusFollows
<1>7. hostAudioRoute' = IF e \in Levels THEN Level(e) ELSE hostAudioRoute
  BY <1>3, ReportKinds DEF SetHostAudioRoute
<1>8. s = log'  BY <1>1
<1>9. BusFollows(n + 1)'  BY <1>5, <1>6, <1>7, <1>8 DEF BusFollows
<1> QED  BY <1>1, <1>2, <1>3, <1>4, <1>9

\* A report that is short, or neither a pattern nor about audio, moves only the
\* volumes' route.
LEMMA QuietReport ==
  ASSUME BusTypeOK, BusInv, IgnoreShort \/ AudioUntouched
  PROVE  BusInv'
<1>1. /\ busPc = "handle" /\ busPc' = "idle"
      /\ UNCHANGED <<pendingWaveOutRoute, featureWaveOut, inferredWaveOut,
                     shared, stores, log>>
      /\ IF busReport.short THEN UNCHANGED hostAudioRoute
         ELSE SetHostAudioRoute
      /\ busReport.short \/ (Wave(busReport) = NoRoute /\ ~busReport.touched)
  BY DEF IgnoreShort, AudioUntouched, busVars
<1>2. PICK n \in Nat : /\ n + 1 = Len(log) /\ log[n + 1] = busReport
                       /\ busReport \in HostReports
                       /\ Follows(n) /\ BusFollows(n + 1)'
  BY <1>1, ReportFollowed
<1>3. PICK s \in Seq(Event) : s = log /\ s = log' /\ n + 1 <= Len(s)
  BY <1>1, <1>2 DEF BusTypeOK
<1>4. PICK e \in HostReports : e = busReport /\ e = s[n + 1]
  BY <1>2, <1>3
<1>5. /\ e \in Event /\ e \notin Commands /\ e \notin Prepares
      /\ e \notin Waves /\ e \notin Ends /\ e \notin Applies
  BY <1>1, <1>4, ReportKinds
<1>6. /\ Cmd(s, n + 1) = Cmd(s, n)
      /\ Recorder(s, n + 1) = Recorder(s, n)
      /\ InForce(s, n + 1) = InForce(s, n)
      /\ WaveOf(s, n + 1) = WaveOf(s, n)
  BY <1>3, <1>4, <1>5, NextEvent
<1>7. Pat(s, n + 1) = Pat(s, n)
  BY <1>3, <1>4, <1>5, PatternGoesOn
<1>8. PatternFollows(n + 1)'
  BY <1>1, <1>2, <1>3, <1>6, <1>7 DEF Follows, PatternFollows
<1>9. AudioFollows(n + 1)'
  BY <1>1, <1>2, <1>3, <1>6, <1>7 DEF Follows, AudioFollows, Stored
<1>10. Follows(Len(log))'
  BY <1>2, <1>3, <1>8, <1>9 DEF Follows
<1> QED  BY <1>1, <1>10 DEF BusInv

\* A pattern turns the tone on, or renews it.
LEMMA PatternReport ==
  ASSUME BusTypeOK, BusTypeOK', AudioTypeOK, BusInv, InferOn
  PROVE  BusInv'
<1>1. /\ busPc = "handle" /\ busPc' = "idle" /\ ~busReport.short
      /\ UNCHANGED <<pendingWaveOutRoute, featureWaveOut, log>>
      /\ SetHostAudioRoute
      /\ Wave(busReport) # NoRoute
      /\ inferredWaveOut' = [active |-> TRUE, route |-> Wave(busReport)]
      /\ ApplyWaveOutState(featureWaveOut', inferredWaveOut', hostAudioRoute')
  BY DEF InferOn
<1>2. PICK n \in Nat : /\ n + 1 = Len(log) /\ log[n + 1] = busReport
                       /\ busReport \in HostReports
                       /\ Follows(n) /\ BusFollows(n + 1)'
  BY <1>1, ReportFollowed
<1>3. PICK s \in Seq(Event) : s = log /\ s = log' /\ n + 1 <= Len(s)
  BY <1>1, <1>2 DEF BusTypeOK
<1>4. PICK e \in HostReports : e = busReport /\ e = s[n + 1]
  BY <1>2, <1>3
<1>5. e \in Event /\ e \in Waves /\ e \in Applies
  BY <1>1, <1>4, ReportKinds
<1>6. WaveOf(s, n + 1) = Wave(e)
  BY <1>3, <1>4, <1>5, NextEvent
<1>7. Pat(s, n + 1) = TRUE
  BY <1>3, <1>4, <1>5, PatternStarts
<1>8. PatternFollows(n + 1)'
  BY <1>1, <1>3, <1>4, <1>6, <1>7 DEF PatternFollows
<1>9. AudioFollows(n + 1)'
  BY <1>1, <1>2, <1>3, <1>4, <1>5, <1>8, ApplyFollows
<1>10. Follows(Len(log))'
  BY <1>2, <1>3, <1>8, <1>9 DEF Follows
<1> QED  BY <1>1, <1>10 DEF BusInv

\* Audio fields without the pattern: without a tone by pattern nothing is left
\* to do, with one its end is still to be applied.
LEMMA AudioReport ==
  ASSUME BusTypeOK, BusTypeOK', AudioTypeOK, BusInv, AudioTouched
  PROVE  BusInv'
<1>1. /\ busPc = "handle" /\ ~busReport.short
      /\ busPc' = IF inferredWaveOut.active THEN "inferOff" ELSE "idle"
      /\ UNCHANGED <<pendingWaveOutRoute, featureWaveOut, inferredWaveOut, log>>
      /\ SetHostAudioRoute
      /\ Wave(busReport) = NoRoute /\ busReport.touched
      /\ ApplyWaveOutState(featureWaveOut', inferredWaveOut', hostAudioRoute')
  BY DEF AudioTouched
<1>2. PICK n \in Nat : /\ n + 1 = Len(log) /\ log[n + 1] = busReport
                       /\ busReport \in HostReports
                       /\ Follows(n) /\ BusFollows(n + 1)'
  BY <1>1, ReportFollowed
<1>3. PICK s \in Seq(Event) : s = log /\ s = log' /\ n + 1 <= Len(s)
  BY <1>1, <1>2 DEF BusTypeOK
<1>4. PICK e \in HostReports : e = busReport /\ e = s[n + 1]
  BY <1>2, <1>3
<1>5. e \in Event /\ e \notin Waves /\ e \in Ends /\ e \in Applies
  BY <1>1, <1>4, ReportKinds
<1>6. CASE inferredWaveOut.active
  <2>1. log'[Len(log')] \in Applies \cap Ends
    BY <1>2, <1>3, <1>4, <1>5
  <2>2. BusFollows(Len(log))' /\ Len(log') > 0
    BY <1>2, <1>3
  <2> QED  BY <1>1, <1>6, <2>1, <2>2 DEF BusInv
<1>7. CASE ~inferredWaveOut.active
  <2>1. Pat(s, n + 1) = FALSE
    BY <1>3, <1>4, <1>5, PatternStops
  <2>2. inferredWaveOut'.active = FALSE  BY <1>1, <1>7 DEF BusTypeOK, Tone
  <2>3. PatternFollows(n + 1)'  BY <1>3, <2>1, <2>2 DEF PatternFollows
  <2>4. AudioFollows(n + 1)'
    BY <1>1, <1>2, <1>3, <1>4, <1>5, <2>3, ApplyFollows
  <2>5. Follows(Len(log))'
    BY <1>2, <1>3, <2>3, <2>4 DEF Follows
  <2> QED  BY <1>1, <1>7, <2>5 DEF BusInv
<1> QED  BY <1>6, <1>7

\* The end of the pattern, noted by a report or by the clock.
LEMMA PatternOver ==
  ASSUME BusTypeOK, BusTypeOK', AudioTypeOK, InferOff,
         NEW n \in Nat, n + 1 = Len(log'),
         log'[n + 1] \in Applies \cap Ends, BusFollows(n + 1)'
  PROVE  BusInv'
<1>1. PICK s \in Seq(Event) : s = log' /\ n + 1 <= Len(s)
  BY DEF BusTypeOK
<1>2. PICK e \in Event : e = s[n + 1] /\ e \in Applies /\ e \in Ends
  BY <1>1 DEF Applies
<1>3. Pat(s, n + 1) = FALSE  BY <1>1, <1>2, PatternStops
<1>4. inferredWaveOut'.active = FALSE  BY DEF InferOff, BusTypeOK, Tone
<1>5. PatternFollows(n + 1)'  BY <1>1, <1>3, <1>4 DEF PatternFollows
<1>6. UNCHANGED <<featureWaveOut, hostAudioRoute>> /\ busPc' = "idle"
  BY DEF InferOff
<1>7. ApplyWaveOutState(featureWaveOut', inferredWaveOut', hostAudioRoute')
  BY <1>6 DEF InferOff
<1>8. AudioFollows(n + 1)'  BY <1>1, <1>2, <1>5, <1>7, ApplyFollows
<1>9. Follows(Len(log))'  BY <1>5, <1>8 DEF Follows
<1> QED  BY <1>6, <1>9 DEF BusInv

\* The variables of the commands and of the volumes after a command or the
\* expiry, and what the events before it said, read off the longer log.
LEMMA CommandFollowed ==
  ASSUME BusTypeOK, BusInv, busPc = "idle", UNCHANGED hostAudioRoute,
         NEW e \in Event, log' = Append(log, e), e \notin Levels,
         pendingWaveOutRoute' =
           IF e \in Prepares THEN e.route ELSE pendingWaveOutRoute,
         IF e \in Commands
         THEN featureWaveOut' = [active |-> e.op = "on",
                                 route |-> pendingWaveOutRoute]
         ELSE UNCHANGED featureWaveOut
  PROVE  \E n \in Nat, s \in Seq(Event) :
           /\ n = Len(log) /\ s = log' /\ n + 1 = Len(s) /\ s[n + 1] = e
           /\ Follows(n) /\ BusFollows(n + 1)'
           /\ Cmd(s, n) = Cmd(log, n) /\ Pat(s, n) = Pat(log, n)
           /\ Pat(s, n) => WaveOf(s, n) = WaveOf(log, n)
           /\ Recorder(s, n) = Recorder(log, n)
<1>1. PICK n \in Nat : n = Len(log)  BY DEF BusTypeOK
<1>2. PICK s \in Seq(Event) :
        /\ s = log' /\ s = Append(log, e)
        /\ n + 1 = Len(s) /\ n + 1 <= Len(s) /\ s[n + 1] = e
  BY <1>1, AppendProperties DEF BusTypeOK
<1>3. Follows(n)  BY <1>1 DEF BusInv
<1>4. n \in 0..Len(log) /\ log \in Seq(Event)  BY <1>1 DEF BusTypeOK
<1>5. /\ Prep(s, n) = Prep(log, n) /\ PrepAtCmd(s, n) = PrepAtCmd(log, n)
      /\ Cmd(s, n) = Cmd(log, n) /\ Pat(s, n) = Pat(log, n)
      /\ Pat(log, n) => WaveOf(s, n) = WaveOf(log, n)
      /\ Host(s, n) = Host(log, n) /\ Recorder(s, n) = Recorder(log, n)
  BY <1>2, <1>4, EarlierEvents
<1>6. /\ pendingWaveOutRoute = Prep(s, n)
      /\ featureWaveOut.active = Cmd(s, n)
      /\ featureWaveOut.route = PrepAtCmd(s, n)
      /\ hostAudioRoute = Host(s, n)
  BY <1>3, <1>5 DEF Follows, BusFollows
<1>7. /\ Prep(s, n + 1) = IF e \in Prepares THEN e.route ELSE Prep(s, n)
      /\ Cmd(s, n + 1) = IF e \in Commands THEN e.op = "on" ELSE Cmd(s, n)
      /\ PrepAtCmd(s, n + 1) =
           IF e \in Commands THEN Prep(s, n) ELSE PrepAtCmd(s, n)
      /\ Host(s, n + 1) = Host(s, n)
  BY <1>2, NextEvent
<1>8. pendingWaveOutRoute' = Prep(s, n + 1) /\ hostAudioRoute' = Host(s, n + 1)
  BY <1>6, <1>7
<1>9. /\ featureWaveOut'.active = Cmd(s, n + 1)
      /\ featureWaveOut'.route = PrepAtCmd(s, n + 1)
  <2>1. CASE e \in Commands  BY <1>6, <1>7, <2>1
  <2>2. CASE e \notin Commands  BY <1>6, <1>7, <2>2
  <2> QED  BY <2>1, <2>2
<1>10. BusFollows(n + 1)'  BY <1>2, <1>8, <1>9 DEF BusFollows
<1> QED  BY <1>1, <1>2, <1>3, <1>5, <1>10

\* The prepare command moves the override, the recorder goes on as it was.
LEMMA PrepareStep ==
  ASSUME BusTypeOK, AudioTypeOK, BusInv, NEW route \in Routes, Prepare(route)
  PROVE  BusInv'
<1>1. PICK e \in Event :
        /\ e = [op |-> "prepare", route |-> route] /\ e.route = route
        /\ e \in Prepares /\ e \notin Commands /\ e \notin Waves
        /\ e \notin Ends /\ e \notin Levels /\ e \notin Applies
  BY CommandKinds
<1>2. /\ busPc = "idle" /\ busPc' = "idle" /\ log' = Append(log, e)
      /\ pendingWaveOutRoute' = route
      /\ stores' = [stores EXCEPT !["override"] = {route}]
      /\ UNCHANGED <<featureWaveOut, inferredWaveOut, hostAudioRoute, shared>>
  BY <1>1 DEF Prepare, HostEvent
<1>3. PICK n \in Nat, s \in Seq(Event) :
           /\ n = Len(log) /\ s = log' /\ n + 1 = Len(s) /\ s[n + 1] = e
           /\ Follows(n) /\ BusFollows(n + 1)'
           /\ Cmd(s, n) = Cmd(log, n) /\ Pat(s, n) = Pat(log, n)
           /\ Pat(s, n) => WaveOf(s, n) = WaveOf(log, n)
           /\ Recorder(s, n) = Recorder(log, n)
  BY <1>1, <1>2, CommandFollowed
<1>4. n + 1 <= Len(s)  BY <1>3
<1>5. /\ Cmd(s, n + 1) = Cmd(s, n) /\ WaveOf(s, n + 1) = WaveOf(s, n)
      /\ Recorder(s, n + 1) = Recorder(s, n) /\ InForce(s, n + 1) = route
  BY <1>1, <1>3, <1>4, NextEvent
<1>6. Pat(s, n + 1) = Pat(s, n)
  BY <1>1, <1>3, <1>4, PatternGoesOn
<1>7. PatternFollows(n + 1)'
  BY <1>2, <1>3, <1>5, <1>6 DEF Follows, PatternFollows
<1>8. /\ Stored("active")' = Stored("active")
      /\ Stored("route")' = Stored("route")
      /\ Stored("override")' = {route}
  BY <1>2 DEF Stored, AudioTypeOK
<1>9. BlockRoute(route) = route  BY RoutesOf
<1>10. AudioFollows(n + 1)'
  BY <1>3, <1>5, <1>6, <1>8, <1>9 DEF Follows, AudioFollows
<1>11. Follows(Len(log))'  BY <1>3, <1>7, <1>10 DEF Follows
<1> QED  BY <1>2, <1>11 DEF BusInv

\* The on and the off command are applied at once.
LEMMA SwitchStep ==
  ASSUME BusTypeOK, BusTypeOK', AudioTypeOK, BusInv,
         NEW enabled \in BOOLEAN, Switch(enabled)
  PROVE  BusInv'
<1>1. PICK e \in Event :
        /\ e = [op |-> IF enabled THEN "on" ELSE "off"]
        /\ (e.op = "on") = enabled
        /\ e \in Commands /\ e \notin Prepares /\ e \notin Waves
        /\ e \notin Ends /\ e \notin Levels /\ e \in Applies
  BY CommandKinds
<1>2. /\ busPc = "idle" /\ busPc' = "idle" /\ log' = Append(log, e)
      /\ featureWaveOut' = [active |-> e.op = "on",
                            route |-> pendingWaveOutRoute]
      /\ UNCHANGED <<pendingWaveOutRoute, inferredWaveOut, hostAudioRoute>>
      /\ ApplyWaveOutState(featureWaveOut', inferredWaveOut', hostAudioRoute')
  BY <1>1 DEF Switch, HostEvent
<1>3. PICK n \in Nat, s \in Seq(Event) :
           /\ n = Len(log) /\ s = log' /\ n + 1 = Len(s) /\ s[n + 1] = e
           /\ Follows(n) /\ BusFollows(n + 1)'
           /\ Cmd(s, n) = Cmd(log, n) /\ Pat(s, n) = Pat(log, n)
           /\ Pat(s, n) => WaveOf(s, n) = WaveOf(log, n)
           /\ Recorder(s, n) = Recorder(log, n)
  BY <1>1, <1>2, CommandFollowed
<1>4. n + 1 <= Len(s)  BY <1>3
<1>5. WaveOf(s, n + 1) = WaveOf(s, n)
  BY <1>1, <1>3, <1>4, NextEvent
<1>6. Pat(s, n + 1) = Pat(s, n)
  BY <1>1, <1>3, <1>4, PatternGoesOn
<1>7. PatternFollows(n + 1)'
  BY <1>2, <1>3, <1>5, <1>6 DEF Follows, PatternFollows
<1>8. AudioFollows(n + 1)'
  BY <1>1, <1>2, <1>3, <1>4, <1>7, ApplyFollows
<1>9. Follows(Len(log))'  BY <1>3, <1>7, <1>8 DEF Follows
<1> QED  BY <1>2, <1>9 DEF BusInv

\* The event bus thread's variables follow the log through every step.
LEMMA BusStep ==
  ASSUME BusTypeOK, BusTypeOK', AudioTypeOK, BusInv, Next
  PROVE  BusInv'
<1>1. ASSUME NEW report \in HostReports, SetStateData(report)
      PROVE  BusInv'
  <2>1. /\ busPc = "idle" /\ busPc' = "handle" /\ busReport' = report
        /\ log' = Append(log, report)
        /\ UNCHANGED <<pendingWaveOutRoute, featureWaveOut, inferredWaveOut,
                       hostAudioRoute, shared, stores>>
    BY <1>1 DEF SetStateData, HostEvent, busVars
  <2>2. PICK n \in Nat : n = Len(log)  BY DEF BusTypeOK
  <2>3. report \in Event /\ log \in Seq(Event) /\ n \in 0..Len(log)
    BY <2>2, HostEventTypes DEF BusTypeOK
  <2>4. Len(log') - 1 = n /\ Len(log') > 0 /\ log'[Len(log')] = report
    BY <2>1, <2>2, <2>3, AppendProperties
  <2>5. \A c \in Cells : Stored(c)' = Stored(c)  BY <2>1 DEF Stored
  <2>6. Follows(n)  BY <2>1, <2>2 DEF BusInv
  <2>7. Follows(n)'
    BY <2>1, <2>3, <2>5, <2>6, StepStays DEF Follows
  <2>8. Follows(Len(log) - 1)'  BY <2>4, <2>7
  <2> QED  BY <2>1, <2>4, <2>8 DEF BusInv
<1>2. CASE PatternEnds
  <2>1. busPc = "inferOff" /\ InferOff /\ log' = log  BY <1>2 DEF PatternEnds
  <2>2. UNCHANGED <<pendingWaveOutRoute, featureWaveOut, hostAudioRoute>>
    BY <2>1 DEF InferOff
  <2>3. PICK n \in Nat : n + 1 = Len(log)  BY <2>1 DEF BusInv, BusTypeOK
  <2>4. log[n + 1] \in Applies \cap Ends /\ BusFollows(n + 1)
    BY <2>1, <2>3 DEF BusInv
  <2>5. /\ log \in Seq(Event) /\ n + 1 \in 0..Len(log)
        /\ [op |-> "expire"] \in Event
    BY <2>3, HostEventTypes DEF BusTypeOK
  <2>6. BusFollows(n + 1)'  BY <2>1, <2>2, <2>4, <2>5, StepStays
  <2> QED  BY <2>1, <2>3, <2>4, <2>6, PatternOver
<1>3. CASE PollInferredWaveOut
  <2>1. PICK e \in Event :
          /\ e = [op |-> "expire"]
          /\ e \notin Commands /\ e \notin Prepares
          /\ e \in Ends /\ e \notin Levels /\ e \in Applies
    BY CommandKinds
  <2>2. busPc = "idle" /\ InferOff /\ log' = Append(log, e)
    BY <1>3, <2>1 DEF PollInferredWaveOut
  <2>3. UNCHANGED <<pendingWaveOutRoute, featureWaveOut, hostAudioRoute>>
    BY <2>2 DEF InferOff
  <2>4. PICK n \in Nat, s \in Seq(Event) :
           /\ n = Len(log) /\ s = log' /\ n + 1 = Len(s) /\ s[n + 1] = e
           /\ Follows(n) /\ BusFollows(n + 1)'
           /\ Cmd(s, n) = Cmd(log, n) /\ Pat(s, n) = Pat(log, n)
           /\ Pat(s, n) => WaveOf(s, n) = WaveOf(log, n)
           /\ Recorder(s, n) = Recorder(log, n)
    BY <2>1, <2>2, <2>3, CommandFollowed
  <2>5. n + 1 = Len(log') /\ log'[n + 1] \in Applies \cap Ends
    BY <2>1, <2>4
  <2> QED  BY <2>2, <2>4, <2>5, PatternOver
<1>4. ASSUME NEW c \in Cells, Land(c)
      PROVE  BusInv'
  <2>1. \A n \in Nat : AudioFollows(n) =>
                         \A d \in Cells : Stored(d)' = Stored(d)
    BY <1>4, LandKeeps
  <2> QED  BY <1>4, <2>1, BusInvStays DEF Land, busVars
<1>5. ASSUME UNCHANGED <<pendingWaveOutRoute, featureWaveOut, inferredWaveOut,
                         hostAudioRoute, busPc, busReport, log, shared, stores>>
      PROVE  BusInv'
  <2>1. \A c \in Cells : Stored(c)' = Stored(c)  BY <1>5 DEF Stored
  <2> QED  BY <1>5, <2>1, BusInvStays
<1>6. CASE LoadActive  BY <1>5, <1>6 DEF LoadActive, busVars
<1>7. CASE ToneNotDue  BY <1>5, <1>7 DEF ToneNotDue, busVars
<1>8. CASE LoadRoute  BY <1>5, <1>8 DEF LoadRoute, busVars
<1>9. CASE SendTone  BY <1>5, <1>9 DEF SendTone, busVars
<1>10. CASE SendHaptics  BY <1>5, <1>10 DEF SendHaptics, busVars
<1>11. CASE AudioWindowExpires
  BY <1>5, <1>11 DEF AudioWindowExpires, busVars
<1>12. CASE Tick  BY <1>5, <1>12 DEF Tick
<1> QED
  BY <1>1, <1>2, <1>3, <1>4, <1>6, <1>7, <1>8, <1>9, <1>10, <1>11, <1>12,
     QuietReport, PatternReport, AudioReport, PrepareStep, SwitchStep
  DEF Next, HostActs, HandleReport

-----------------------------------------------------------------------------
(* The rest of the invariant.                                              *)

\* What a step does to the log: nothing, or one event is logged, and then the
\* event bus thread was between handlers.
LEMMA LogGrows ==
  ASSUME BusTypeOK, Next
  PROVE  \/ log' = log /\ (busPc' = "handle" => busPc = "handle")
         \/ busPc = "idle" /\ \E e \in Event : log' = Append(log, e)
<1>1. ASSUME NEW report \in HostReports, SetStateData(report)
      PROVE  busPc = "idle" /\ \E e \in Event : log' = Append(log, e)
  BY <1>1, HostEventTypes DEF SetStateData, HostEvent
<1>2. ASSUME NEW route \in Routes, Prepare(route)
      PROVE  busPc = "idle" /\ \E e \in Event : log' = Append(log, e)
  BY <1>2, HostEventTypes DEF Prepare, HostEvent
<1>3. ASSUME NEW enabled \in BOOLEAN, Switch(enabled)
      PROVE  busPc = "idle" /\ \E e \in Event : log' = Append(log, e)
  BY <1>3, HostEventTypes DEF Switch, HostEvent
<1>4. CASE PollInferredWaveOut
  BY <1>4, HostEventTypes DEF PollInferredWaveOut
<1>5. CASE HandleReport
  BY <1>5
  DEF HandleReport, IgnoreShort, InferOn, AudioTouched, AudioUntouched,
      PatternEnds, InferOff
<1>6. ASSUME NEW c \in Cells, Land(c)
      PROVE  log' = log /\ busPc' = busPc
  BY <1>6 DEF Land
<1>7. ASSUME \/ LoadActive \/ ToneNotDue \/ LoadRoute \/ SendTone
             \/ SendHaptics \/ AudioWindowExpires \/ Tick
      PROVE  log' = log /\ busPc' = busPc
  BY <1>7
  DEF LoadActive, ToneNotDue, LoadRoute, SendTone, SendHaptics,
      AudioWindowExpires, Tick
<1> QED  BY <1>1, <1>2, <1>3, <1>4, <1>5, <1>6, <1>7 DEF Next, HostActs

\* Without an event that was applied the audio thread has seen no tone.
LEMMA ToneHasEventStep ==
  ASSUME TypeOK, TypeOK', BusInv, ToneHasEvent, Next
  PROVE  ToneHasEvent'
<1> USE DEF TypeOK
<1>1. PICK s \in Seq(Event) : s = log  BY DEF BusTypeOK
<1>2. ASSUME \E i \in 1..(IF busPc = "handle" THEN Len(log) - 1 ELSE Len(log)) :
               log[i] \in Applies
      PROVE  ToneHasEvent'
  <2>1. PICK i \in 1..(IF busPc = "handle" THEN Len(log) - 1 ELSE Len(log)) :
               log[i] \in Applies
    BY <1>2
  <2>2. CASE log' = log /\ (busPc' = "handle" => busPc = "handle")
    <3>1. i \in 1..(IF busPc' = "handle" THEN Len(log') - 1 ELSE Len(log'))
      BY <1>1, <2>2
    <3> QED  BY <2>1, <2>2, <3>1 DEF ToneHasEvent
  <2>3. CASE busPc = "idle" /\ \E e \in Event : log' = Append(log, e)
    <3>1. PICK e \in Event : log' = Append(s, e)  BY <1>1, <2>3
    <3>2. i \in 1..Len(s)  BY <1>1, <2>3
    <3>3. Len(log') = Len(s) + 1 /\ log'[i] = s[i]
      BY <3>1, <3>2, AppendProperties
    <3>4. i \in 1..(IF busPc' = "handle" THEN Len(log') - 1 ELSE Len(log'))
      BY <3>2, <3>3
    <3> QED  BY <1>1, <2>1, <3>3, <3>4 DEF ToneHasEvent
  <2> QED  BY <2>2, <2>3, LogGrows
<1>3. ASSUME busPc' # "handle", Len(log') > 0, log'[Len(log')] \in Applies
      PROVE  ToneHasEvent'
  <2>1. Len(log') \in 1..Len(log')  BY <1>3 DEF BusTypeOK
  <2> QED  BY <1>3, <2>1 DEF ToneHasEvent
<1>4. ASSUME audioPc = "loop", ~shared["active"], TRUE \notin stores["active"]
      PROVE  ToneHasEvent'
  <2>1. ASSUME UNCHANGED <<shared, audioPc>>,
               stores'["active"] = stores["active"]
        PROVE  ToneHasEvent'
    BY <1>4, <2>1 DEF ToneHasEvent
  <2>2. ASSUME NEW report \in HostReports, SetStateData(report)
        PROVE  ToneHasEvent'
    BY <2>1, <2>2 DEF SetStateData, audioVars
  <2>3. ASSUME NEW route \in Routes, Prepare(route)
        PROVE  ToneHasEvent'
    <3>1. stores'["active"] = stores["active"]
      BY <2>3 DEF Prepare, AudioTypeOK
    <3> QED  BY <2>1, <2>3, <3>1 DEF Prepare
  <2>4. ASSUME NEW e \in Event, e \in Applies, log' = Append(log, e),
               busPc' # "handle"
        PROVE  ToneHasEvent'
    <3>1. Len(log') > 0 /\ log'[Len(log')] = e
      BY <2>4, AppendProperties DEF BusTypeOK
    <3> QED  BY <1>3, <2>4, <3>1
  <2>5. ASSUME NEW enabled \in BOOLEAN, Switch(enabled)
        PROVE  ToneHasEvent'
    BY <2>4, <2>5, CommandKinds DEF Switch, HostEvent
  <2>6. CASE PollInferredWaveOut
    BY <2>4, <2>6, CommandKinds DEF PollInferredWaveOut, InferOff
  <2>7. CASE IgnoreShort \/ AudioUntouched
    BY <2>1, <2>7 DEF IgnoreShort, AudioUntouched, audioVars
  <2>8. CASE InferOn \/ AudioTouched
    <3>1. busReport \in Applies
      BY <2>8, ReportKinds DEF InferOn, AudioTouched, BusInv
    <3>2. Len(log) > 0 /\ log[Len(log)] = busReport /\ log' = log
      BY <2>8 DEF InferOn, AudioTouched, BusInv
    <3>3. busPc' # "handle"  BY <2>8 DEF InferOn, AudioTouched
    <3> QED  BY <1>3, <3>1, <3>2, <3>3
  <2>9. CASE PatternEnds
    BY <1>3, <2>9 DEF PatternEnds, InferOff, BusInv
  <2>10. ASSUME NEW c \in Cells, Land(c)
         PROVE  ToneHasEvent'
    <3>1. PICK value \in stores[c] : shared' = [shared EXCEPT ![c] = value]
      BY <2>10 DEF Land
    <3>2. stores' = [stores EXCEPT ![c] = {}]  BY <2>10 DEF Land
    <3>3. TRUE \notin stores'["active"]  BY <1>4, <3>2 DEF AudioTypeOK
    <3>4. ~shared'["active"]
      <4>1. CASE c = "active"
        <5>1. value \in stores["active"] /\ value \in BOOLEAN
          BY <4>1 DEF AudioTypeOK
        <5>2. shared'["active"] = value  BY <3>1, <4>1 DEF AudioTypeOK
        <5> QED  BY <1>4, <5>1, <5>2
      <4>2. CASE c # "active"  BY <1>4, <3>1, <4>2 DEF AudioTypeOK
      <4> QED  BY <4>1, <4>2
    <3>5. audioPc' = "loop"  BY <1>4, <2>10 DEF Land
    <3> QED  BY <3>3, <3>4, <3>5 DEF ToneHasEvent
  <2>11. ~(LoadActive \/ ToneNotDue \/ LoadRoute \/ SendTone)
    BY <1>4 DEF LoadActive, ToneNotDue, LoadRoute, SendTone
  <2>12. CASE SendHaptics \/ AudioWindowExpires \/ Tick
    BY <2>1, <2>12 DEF SendHaptics, AudioWindowExpires, Tick, audioVars
  <2> QED
    BY <2>2, <2>3, <2>5, <2>6, <2>7, <2>8, <2>9, <2>10, <2>11, <2>12
    DEF Next, HostActs, HandleReport
<1> QED  BY <1>2, <1>4 DEF ToneHasEvent

\* Between handlers and without a prepared route that waits, the recorder's
\* route is the one in force.
LEMMA RecorderInForce ==
  ASSUME log \in Seq(Event), ~Prepared,
         \E i \in 1..Len(log) : log[i] \in Applies
  PROVE  Recorder(log, Len(log)) = InForce(log, Len(log))
<1>1. PICK n \in 0..Len(log) : n = Len(log)  OBVIOUS
<1>2. PICK apply \in 0..n :
        /\ apply = LastOf(log, n, Applies)
        /\ \A i \in 1..n : log[i] \in Applies => i <= apply
  BY LastOfType
<1>3. PICK prepare \in 0..n :
        /\ prepare = LastOf(log, n, Prepares)
        /\ prepare > 0 => prepare \in 1..n /\ log[prepare] \in Prepares
  BY LastOfType
<1>4. apply > 0  BY <1>1, <1>2
<1>5. ~(prepare > apply)
  <2> SUFFICES ASSUME prepare > apply  PROVE Prepared
    OBVIOUS
  <2>1. prepare \in 1..Len(log) /\ log[prepare].op = "prepare"
    BY <1>1, <1>3 DEF Prepares, IsPrepare
  <2>2. \A j \in prepare..Len(log) : ~Applied(log[j])
    <3> TAKE j \in prepare..Len(log)
    <3>1. j \in 1..Len(log) /\ ~(j <= apply)  BY <1>2, <2>1
    <3>2. log[j] \in Event  BY <3>1, ElementOfSeq
    <3>3. log[j] \notin Applies  BY <1>1, <1>2, <3>1
    <3> QED  BY <3>2, <3>3 DEF Applies
  <2> QED  BY <2>1, <2>2 DEF Prepared
<1> QED  BY <1>1, <1>2, <1>3, <1>4, <1>5 DEF Recorder, InForce

\* A clean call stays coherent: every store spoils it, and nothing can land.
LEMMA CleanCallStep ==
  ASSUME TypeOK, TypeOK', BusInv, ToneHasEvent, CleanCall, Next
  PROVE  CleanCall'
<1> USE DEF TypeOK
<1>1. ASSUME ~audioCall'.clean  PROVE CleanCall'
  BY <1>1 DEF CleanCall
<1>2. ASSUME UNCHANGED <<audioCall, shared, stores>>  PROVE CleanCall'
  BY <1>2 DEF CleanCall, NothingInFlight
<1>3. ASSUME NEW feature, NEW inferred, NEW host,
             ApplyWaveOutState(feature, inferred, host)
      PROVE  CleanCall'
  <2>1. ~audioCall'.clean
    BY <1>3 DEF ApplyWaveOutState, StoreAll, AudioTypeOK
  <2> QED  BY <1>1, <2>1
<1>4. ASSUME NEW report \in HostReports, SetStateData(report)
      PROVE  CleanCall'
  BY <1>2, <1>4 DEF SetStateData, audioVars
<1>5. ASSUME NEW route \in Routes, Prepare(route)
      PROVE  CleanCall'
  <2>1. ~audioCall'.clean  BY <1>5 DEF Prepare, AudioTypeOK
  <2> QED  BY <1>1, <2>1
<1>6. ASSUME NEW enabled \in BOOLEAN, Switch(enabled)
      PROVE  CleanCall'
  BY <1>3, <1>6 DEF Switch
<1>7. CASE HandleReport \/ PollInferredWaveOut
  <2>1. CASE IgnoreShort \/ AudioUntouched
    BY <1>2, <2>1 DEF IgnoreShort, AudioUntouched, audioVars
  <2>2. CASE InferOn  BY <1>3, <2>2 DEF InferOn
  <2>3. CASE AudioTouched  BY <1>3, <2>3 DEF AudioTouched
  <2>4. CASE PatternEnds  BY <1>3, <2>4 DEF PatternEnds, InferOff
  <2>5. CASE PollInferredWaveOut
    BY <1>3, <2>5 DEF PollInferredWaveOut, InferOff
  <2> QED  BY <1>7, <2>1, <2>2, <2>3, <2>4, <2>5 DEF HandleReport
<1>8. ASSUME NEW c \in Cells, Land(c)
      PROVE  CleanCall'
  <2>1. ~NothingInFlight /\ audioCall' = audioCall
    BY <1>8 DEF Land, NothingInFlight
  <2> QED  BY <1>1, <2>1 DEF CleanCall
<1>9. CASE LoadRoute
  <2> SUFFICES ASSUME audioCall'.clean
               PROVE  CleanCall'
    BY DEF CleanCall
  <2>1. /\ audioCall'.route = shared["route"]
        /\ NothingInFlight /\ busPc = "idle" /\ ~Prepared
        /\ audioPc = "tone" /\ UNCHANGED <<shared, stores>>
    BY <1>9 DEF LoadRoute
  <2>2. \E i \in 1..Len(log) : log[i] \in Applies
    BY <2>1 DEF ToneHasEvent
  <2>3. Recorder(log, Len(log)) = InForce(log, Len(log))
    BY <2>1, <2>2, RecorderInForce DEF BusTypeOK
  <2>4. AudioFollows(Len(log))  BY <2>1 DEF BusInv, Follows
  <2>5. /\ Stored("route") = {shared["route"]}
        /\ Stored("override") = {shared["override"]}
    BY <2>1 DEF NothingInFlight, Stored, Cells
  <2>6. /\ shared["route"] = Recorder(log, Len(log))
        /\ BlockRoute(shared["override"]) = InForce(log, Len(log))
    BY <2>4, <2>5 DEF AudioFollows
  <2> QED  BY <2>1, <2>3, <2>6 DEF CleanCall, NothingInFlight
<1>10. CASE SendTone  BY <1>1, <1>10 DEF SendTone, NoCall
<1>11. CASE \/ LoadActive \/ ToneNotDue \/ SendHaptics
            \/ AudioWindowExpires \/ Tick
  BY <1>2, <1>11
  DEF LoadActive, ToneNotDue, SendHaptics, AudioWindowExpires, Tick, audioVars
<1> QED
  BY <1>4, <1>5, <1>6, <1>7, <1>8, <1>9, <1>10, <1>11
  DEF Next, HostActs

\* With the tone off no further packet is begun.
LEMMA TailStep ==
  ASSUME TypeOK, TailInv, Next
  PROVE  TailInv'
<1> USE DEF TypeOK
<1>1. ASSUME UNCHANGED <<audioPc, tail, shared>>  PROVE TailInv'
  BY <1>1 DEF TailInv
<1>2. CASE HostActs
  BY <1>1, <1>2 DEF HostActs, SetStateData, Prepare, Switch, audioVars
<1>3. CASE HandleReport \/ PollInferredWaveOut
  BY <1>1, <1>3
  DEF HandleReport, IgnoreShort, InferOn, AudioTouched, AudioUntouched,
      PatternEnds, PollInferredWaveOut, InferOff, audioVars
<1>4. ASSUME NEW c \in Cells, Land(c)
      PROVE  TailInv'
  <2>1. CASE c = "active"  BY <1>4, <2>1 DEF Land, TailInv
  <2>2. CASE c # "active"
    <3>1. shared'["active"] = shared["active"] /\ UNCHANGED <<tail, audioPc>>
      BY <1>4, <2>2 DEF Land, AudioTypeOK
    <3> QED  BY <3>1 DEF TailInv
  <2> QED  BY <2>1, <2>2
<1>5. CASE LoadActive \/ ToneNotDue \/ LoadRoute
  <2>1. tail # 1  BY <1>5 DEF TailInv, LoadActive, ToneNotDue, LoadRoute
  <2>2. tail' = tail  BY <1>5 DEF LoadActive, ToneNotDue, LoadRoute
  <2> QED  BY <2>1, <2>2 DEF TailInv
<1>6. CASE SendTone
  <2>1. tail = 0  BY <1>6 DEF SendTone, TailInv
  <2>2. Min({tail + 1, 2}) = 1  BY <2>1, MinOfTwo
  <2> QED  BY <1>6, <2>2 DEF SendTone, NextRound, TailInv
<1>7. CASE SendHaptics \/ AudioWindowExpires \/ Tick
  BY <1>1, <1>7 DEF SendHaptics, AudioWindowExpires, Tick, audioVars
<1> QED  BY <1>2, <1>3, <1>4, <1>5, <1>6, <1>7 DEF Next

\* What is left of the hold and the time since the last pattern make it up.
LEMMA HoldStep ==
  ASSUME TypeOK, TypeOK', HoldInv, Next
  PROVE  HoldInv'
<1> USE DEF TypeOK
<1>1. ASSUME UNCHANGED <<inferredWaveOut, holdLeft, sinceWave>>  PROVE HoldInv'
  BY <1>1 DEF HoldInv
<1>2. CASE HostActs
  BY <1>1, <1>2 DEF HostActs, SetStateData, Prepare, Switch, busVars
<1>3. CASE IgnoreShort \/ AudioTouched \/ AudioUntouched
  BY <1>1, <1>3 DEF IgnoreShort, AudioTouched, AudioUntouched, busVars
<1>4. CASE InferOn
  BY <1>4, HoldAssumption DEF InferOn, RenewHold, HoldInv
<1>5. CASE InferOff  BY <1>5 DEF InferOff, HoldInv, BusTypeOK, Tone
<1>6. ASSUME NEW c \in Cells, Land(c)  PROVE HoldInv'
  BY <1>1, <1>6 DEF Land, busVars
<1>7. CASE \/ LoadActive \/ ToneNotDue \/ LoadRoute \/ SendTone
           \/ SendHaptics \/ AudioWindowExpires
  BY <1>1, <1>7
  DEF LoadActive, ToneNotDue, LoadRoute, SendTone, SendHaptics,
      AudioWindowExpires, busVars
<1>8. CASE Tick
  <2>1. sinceWave + 1 <= Hold
    BY <1>8, HoldAssumption DEF Tick, HoldInv, BusTypeOK
  <2>2. Min({sinceWave + 1, Hold}) = sinceWave + 1
    BY <2>1, HoldAssumption, MinOfTwo DEF BusTypeOK
  <2> QED
    BY <1>8, <2>2, HoldAssumption DEF Tick, HoldInv, BusTypeOK
<1> QED
  BY <1>2, <1>3, <1>4, <1>5, <1>6, <1>7, <1>8
  DEF Next, HandleReport, PatternEnds, PollInferredWaveOut

-----------------------------------------------------------------------------
(* Theorems.                                                               *)

LEMMA IInvInit == Init => IInv
<1> SUFFICES ASSUME Init  PROVE IInv
  OBVIOUS
<1>1. log = << >> /\ log \in Seq(Event) /\ Len(log) = 0
  BY EmptySeq DEF Init
<1>2. BusTypeOK
  BY <1>1, HoldAssumption DEF Init, BusTypeOK, Routes, Tone
<1>3. controller \in Routes  BY RoutesOf DEF Init
<1>4. AudioTypeOK
  <2>1. stores = [route |-> {}, active |-> {}, override |-> {}]
    BY DEF Init, Cells
  <2>2. stores \in [route : SUBSET Routes, active : SUBSET BOOLEAN,
                    override : SUBSET Routes]
    BY <2>1
  <2>3. shared \in [route : Routes, active : BOOLEAN,
                    override : Routes \cup {NoRoute}]
    BY DEF Init, Routes
  <2>4. audioCall \in [route : Routes \cup {NoRoute}, clean : BOOLEAN]
    BY DEF Init, NoCall
  <2>5. audioActive \in BOOLEAN  BY DEF Init
  <2>6. audioPc = "loop" /\ tail = 0  BY DEF Init
  <2> QED  BY <1>3, <2>2, <2>3, <2>4, <2>5, <2>6 DEF AudioTypeOK
<1>5. \A E : LastOf(log, 0, E) = 0
  <2> TAKE E
  <2>1. 0 \in 0..Len(log)  BY <1>1
  <2>2. LastOf(log, 0, E) \in 0..0  BY <1>1, <2>1, LastOfType
  <2> QED  BY <2>2
<1>6. /\ Prep(log, 0) = "speaker" /\ PrepAtCmd(log, 0) = "speaker"
      /\ Cmd(log, 0) = FALSE /\ Pat(log, 0) = FALSE
      /\ Host(log, 0) = "speaker" /\ Recorder(log, 0) = "speaker"
      /\ InForce(log, 0) = BlockRoute(NoRoute)
  BY <1>5 DEF Prep, PrepAtCmd, Cmd, Pat, Host, Recorder, InForce
<1>7. BusFollows(0) /\ PatternFollows(0)
  BY <1>6 DEF BusFollows, PatternFollows, Init
<1>8. /\ Stored("active") = {FALSE} /\ Stored("route") = {"speaker"}
      /\ Stored("override") = {NoRoute}
  BY DEF Init, Stored, Cells
<1>9. AudioFollows(0)  BY <1>6, <1>8 DEF AudioFollows
<1>10. BusInv  BY <1>1, <1>7, <1>9 DEF BusInv, Follows, Init
<1>11. ToneHasEvent  BY DEF Init, ToneHasEvent, Cells
<1>12. CleanCall /\ TailInv /\ HoldInv
  BY DEF Init, CleanCall, NoCall, TailInv, HoldInv
<1> QED  BY <1>2, <1>4, <1>10, <1>11, <1>12 DEF IInv, TypeOK

LEMMA IInvStep == IInv /\ [Next]_vars => IInv'
<1> SUFFICES ASSUME IInv, [Next]_vars  PROVE IInv'
  OBVIOUS
<1> USE DEF IInv
<1>1. CASE Next
  <2>1. BusTypeOK'  BY <1>1, BusTypeStep
  <2>2. AudioTypeOK'  BY <1>1, <2>1, AudioTypeStep
  <2>3. TypeOK'  BY <2>1, <2>2 DEF TypeOK
  <2>4. BusInv'  BY <1>1, <2>1, BusStep DEF TypeOK
  <2>5. ToneHasEvent'  BY <1>1, <2>3, ToneHasEventStep
  <2>6. CleanCall'  BY <1>1, <2>3, CleanCallStep
  <2>7. TailInv'  BY <1>1, TailStep
  <2>8. HoldInv'  BY <1>1, <2>3, HoldStep
  <2> QED  BY <2>3, <2>4, <2>5, <2>6, <2>7, <2>8
<1>2. CASE UNCHANGED vars
  <2>1. UNCHANGED <<pendingWaveOutRoute, featureWaveOut, inferredWaveOut,
                    hostAudioRoute, holdLeft, busPc, busReport, shared, stores,
                    audioActive, audioPc, audioCall, tail, controller, log,
                    sinceWave>>
    BY <1>2 DEF vars, busVars, audioVars
  <2>2. TypeOK'  BY <2>1 DEF TypeOK, BusTypeOK, AudioTypeOK
  <2>3. \A c \in Cells : Stored(c)' = Stored(c)  BY <2>1 DEF Stored
  <2>4. BusInv'  BY <2>1, <2>3, BusInvStays DEF TypeOK
  <2>5. ToneHasEvent'  BY <2>1 DEF ToneHasEvent
  <2>6. CleanCall'  BY <2>1 DEF CleanCall, NothingInFlight
  <2>7. TailInv' /\ HoldInv'  BY <2>1 DEF TailInv, HoldInv
  <2> QED  BY <2>2, <2>4, <2>5, <2>6, <2>7
<1> QED  BY <1>1, <1>2

\* IInv holds throughout.
THEOREM Invariance == Spec => []IInv
BY IInvInit, IInvStep, PTL DEF Spec

\* Every variable keeps to its type (all of the tone test).
THEOREM TypeCorrect == Spec => []TypeOK
<1>1. IInv => TypeOK  BY DEF IInv
<1> QED  BY <1>1, Invariance, PTL

\* What the properties read off the log is what the lemmas speak of.
LEMMA LogOperators ==
  ASSUME log \in Seq(Event), NEW n \in 0..Len(log)
  PROVE  /\ CommandOn(n) = Cmd(log, n) /\ PatternOn(n) = Pat(log, n)
         /\ RecorderRoute(n) = Recorder(log, n)
         /\ RouteInForce(n) = InForce(log, n)
<1>1. \A i \in 1..n : log[i] \in Event  BY ElementOfSeq
<1>2. \A m \in 0..n :
        /\ {i \in 1..m : IsCommand(log[i])} = {i \in 1..m : log[i] \in Commands}
        /\ {i \in 1..m : IsPrepare(log[i])} = {i \in 1..m : log[i] \in Prepares}
        /\ {i \in 1..m : IsWave(log[i])} = {i \in 1..m : log[i] \in Waves}
        /\ {i \in 1..m : EndsPattern(log[i])} = {i \in 1..m : log[i] \in Ends}
        /\ {i \in 1..m : HasLevel(log[i])} = {i \in 1..m : log[i] \in Levels}
        /\ {i \in 1..m : Applied(log[i])} = {i \in 1..m : log[i] \in Applies}
  <2> TAKE m \in 0..n
  <2>1. \A i \in 1..m : log[i] \in Event  BY <1>1
  <2>2. \A i \in 1..m : /\ IsCommand(log[i]) <=> log[i] \in Commands
                        /\ IsPrepare(log[i]) <=> log[i] \in Prepares
                        /\ IsWave(log[i]) <=> log[i] \in Waves
                        /\ EndsPattern(log[i]) <=> log[i] \in Ends
                        /\ HasLevel(log[i]) <=> log[i] \in Levels
                        /\ Applied(log[i]) <=> log[i] \in Applies
    BY <2>1 DEF Commands, Prepares, Waves, Ends, Levels, Applies
  <2> QED  BY <2>2
<1>3. \A m \in 0..n :
        /\ Latest(m, IsCommand) = LastOf(log, m, Commands)
        /\ Latest(m, IsPrepare) = LastOf(log, m, Prepares)
        /\ Latest(m, IsWave) = LastOf(log, m, Waves)
        /\ Latest(m, EndsPattern) = LastOf(log, m, Ends)
        /\ Latest(m, HasLevel) = LastOf(log, m, Levels)
        /\ Latest(m, Applied) = LastOf(log, m, Applies)
  BY <1>2 DEF Latest, Among, LastOf
<1>4. \A m \in 0..n : CommandOn(m) = Cmd(log, m)
  BY <1>3 DEF CommandOn, Cmd
<1>5. \A m \in 0..n : PatternOn(m) = Pat(log, m)
  BY <1>3 DEF PatternOn, Pat
<1>6. \A m \in 0..n : PreparedRoute(m) = Prep(log, m)
  BY <1>3 DEF PreparedRoute, Prep
<1>7. \A m \in 0..n : HostRoute(m) = Host(log, m)
  BY <1>3 DEF HostRoute, Host
<1>8. \A m \in 0..n : \A E : LastOf(log, m, E) \in 0..n
  <2> TAKE m \in 0..n
  <2> TAKE E
  <2>1. m \in 0..Len(log)  OBVIOUS
  <2>2. LastOf(log, m, E) \in 0..m  BY <2>1, LastOfType
  <2> QED  BY <2>2
<1>9. \A m \in 0..n : AskedRoute(m) = Asked(log, m)
  <2> TAKE m \in 0..n
  <2>1. PreparedRoute(Latest(m, IsCommand)) = PrepAtCmd(log, m)
    BY <1>3, <1>6, <1>8 DEF PrepAtCmd
  <2>2. Wave(log[Latest(m, IsWave)]) = WaveOf(log, m)
    BY <1>3 DEF WaveOf
  <2> QED  BY <1>4, <1>5, <1>7, <2>1, <2>2 DEF AskedRoute, Asked
<1>10. n \in 0..n  OBVIOUS
<1>11. RecorderRoute(n) = Recorder(log, n)
  BY <1>3, <1>8, <1>9, <1>10 DEF RecorderRoute, Recorder
<1>12. RouteInForce(n) = InForce(log, n)
  BY <1>3, <1>8, <1>9, <1>10 DEF RouteInForce, InForce
<1> QED  BY <1>4, <1>5, <1>10, <1>11, <1>12

\* Between handlers, with every store landed, the audio thread sees what the
\* host's events ask for (apply_waveout_state and its callers).
THEOREM FollowsHost == Spec => []AudioThreadFollowsHost
<1>1. IInv => AudioThreadFollowsHost
  <2> SUFFICES ASSUME IInv, busPc = "idle", NothingInFlight
               PROVE  /\ shared["active"] = (\/ CommandOn(Len(log))
                                             \/ PatternOn(Len(log)))
                      /\ shared["route"] = RecorderRoute(Len(log))
                      /\ BlockRoute(shared["override"]) = RouteInForce(Len(log))
    BY DEF AudioThreadFollowsHost
  <2>1. log \in Seq(Event) /\ Len(log) \in 0..Len(log)
    BY DEF IInv, TypeOK, BusTypeOK
  <2>2. AudioFollows(Len(log))  BY DEF IInv, BusInv, Follows
  <2>3. \A c \in Cells : Stored(c) = {shared[c]}
    BY DEF NothingInFlight, Stored
  <2>4. /\ shared["active"] = (Cmd(log, Len(log)) \/ Pat(log, Len(log)))
        /\ shared["route"] = Recorder(log, Len(log))
        /\ BlockRoute(shared["override"]) = InForce(log, Len(log))
    BY <2>2, <2>3 DEF AudioFollows, Cells
  <2> QED  BY <2>1, <2>4, LogOperators
<1> QED  BY <1>1, Invariance, PTL

\* After it has seen the tone off the audio thread completes at most one packet
\* (audio_loop and waveout_proc).
THEOREM StopsAtOnce == Spec => []ToneStopsAtOnce
<1>1. IInv => ToneStopsAtOnce  BY DEF IInv, TailInv, ToneStopsAtOnce
<1> QED  BY <1>1, Invariance, PTL

\* A packet's route byte agrees with its state block unless the event bus thread
\* has stored meanwhile or a prepared route waits (sendCombineWithRoute).
THEOREM PacketCoherent == Spec => TonePacketCoherent
<1>1. ASSUME IInv, [Next]_vars, audioPc = "send", audioPc' # "send",
             audioCall.clean
      PROVE  controller' = audioCall.route
  <2>1. SendTone
    <3>1. Next  BY <1>1 DEF vars, audioVars
    <3> QED
      BY <1>1, <3>1
      DEF Next, HostActs, SetStateData, Prepare, Switch, HandleReport,
          IgnoreShort, InferOn, AudioTouched, AudioUntouched, PatternEnds,
          PollInferredWaveOut, InferOff, Land, LoadActive, ToneNotDue,
          LoadRoute, SendHaptics, AudioWindowExpires, Tick, audioVars
  <2>2. controller' = BlockRoute(shared["override"])  BY <2>1 DEF SendTone
  <2> QED  BY <1>1, <2>2 DEF IInv, CleanCall
<1>2. IInv /\ [Next]_vars =>
        [audioPc = "send" /\ audioPc' # "send" /\ audioCall.clean
           => controller' = audioCall.route]_vars
  BY <1>1
<1> QED  BY <1>2, Invariance, PTL DEF Spec, TonePacketCoherent

\* The state report an output report causes carries no route older than the one
\* in force when the report came (setStateData), for a log of any length.
THEOREM ReportRouteCurrent == Spec => ReportRouteNotStale
<1>1. ASSUME IInv, [Next]_vars, busPc = "idle", busPc' = "handle", ~audioActive
      PROVE  controller' \in {RouteInForce(Len(log)), RouteInForce(Len(log))'}
  <2>1. \E report \in HostReports : SetStateData(report)
    <3>1. Next  BY <1>1 DEF vars
    <3> QED
      BY <1>1, <3>1
      DEF Next, HostActs, Prepare, Switch, HandleReport, IgnoreShort, InferOn,
          AudioTouched, AudioUntouched, PatternEnds, PollInferredWaveOut,
          InferOff, Land, LoadActive, ToneNotDue, LoadRoute, SendTone,
          SendHaptics, AudioWindowExpires, Tick
  <2>2. controller' = BlockRoute(OwnOverride)
    BY <1>1, <2>1 DEF SetStateData, TellController
  <2>3. PICK override \in Routes \cup {NoRoute} :
          /\ Stored("override") = {override}
          /\ BlockRoute(override) = InForce(log, Len(log))
    BY <1>1 DEF IInv, BusInv, Follows, AudioFollows
  <2>4. OwnOverride = override
    BY <1>1, <2>3, OverrideIsStored DEF IInv, TypeOK
  <2>5. log \in Seq(Event) /\ Len(log) \in 0..Len(log)
    BY <1>1 DEF IInv, TypeOK, BusTypeOK
  <2>6. controller' = RouteInForce(Len(log))
    BY <2>2, <2>3, <2>4, <2>5, LogOperators
  <2> QED  BY <2>6
<1>2. IInv /\ [Next]_vars =>
        [busPc = "idle" /\ busPc' = "handle" /\ ~audioActive
           => controller' \in {RouteInForce(Len(log)),
                               RouteInForce(Len(log))'}]_vars
  BY <1>1
<1> QED  BY <1>2, Invariance, PTL DEF Spec, ReportRouteNotStale

\* Only a hold that has run out since the last pattern ends a tone by pattern
\* between handlers (poll_inferred_waveout).
THEOREM HeldForWholeHold == Spec => PatternIsHeld
<1>1. ASSUME IInv, [Next]_vars, busPc = "idle",
             inferredWaveOut.active, ~inferredWaveOut'.active
      PROVE  sinceWave = Hold
  <2>1. PollInferredWaveOut
    <3>1. Next  BY <1>1 DEF vars, busVars
    <3> QED
      BY <1>1, <3>1
      DEF Next, HostActs, SetStateData, Prepare, Switch, HandleReport,
          IgnoreShort, InferOn, AudioTouched, AudioUntouched, PatternEnds, Land,
          LoadActive, ToneNotDue, LoadRoute, SendTone, SendHaptics,
          AudioWindowExpires, Tick, busVars
  <2>2. holdLeft = 0  BY <2>1 DEF PollInferredWaveOut
  <2> QED
    BY <1>1, <2>2, HoldAssumption DEF IInv, HoldInv, TypeOK, BusTypeOK
<1>2. IInv /\ [Next]_vars =>
        [busPc = "idle" /\ inferredWaveOut.active /\ ~inferredWaveOut'.active
           => sinceWave = Hold]_vars
  BY <1>1
<1> QED  BY <1>2, Invariance, PTL DEF Spec, PatternIsHeld
=============================================================================
