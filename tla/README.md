# A TLA+ model of the DualSense USB/Bluetooth dongle

The program in `src/` makes a small Linux board look like a USB DualSense
controller. A real DualSense is connected to the board by Bluetooth (a hidraw
node); the board presents a USB gadget (a HID function and an audio function)
to a host. Controller reports are forwarded to the host, host output and
feature reports to the controller, and audio both ways: haptics and speaker
samples from the USB audio function to the controller, microphone packets from
the controller to the USB audio function.

This directory holds TLA+ modules for the parts of it where order, concurrency
and failure matter, the TLC configurations that check them, and proofs checked
by TLAPS. All paths below are relative to `src/`.

## 1. Inventory

The process has two threads. The **event bus** thread is `main` itself, in
`event_bus` (`src/main.cpp`): one epoll loop over the hidraw node and the
gadget's HID node. The **audio** thread is the `jthread` running `audio_task`.
They share the one `BTHID` object, and a few atomics of `ALSARecord`.

| Component | State | Operations | Talks to |
| --- | --- | --- | --- |
| `BTHID` (output) | `stateData`, `reportSeqCounter` under `outputMutex`; atomics `headset`, `micMuted`, three volumes, `audioRouteOverride`, `audioActiveUntilMs`, `failed` | `setStateData`, `setHeadset`, `handleMicButton`, `setMicMuted`, `applyUsbOutputReport`, `applyUsbAudioFeatureReport`, `setAudioRouteOverride`, `markAudioActive`, `sendCombine`, `sendCombineWithRoute`, feature reports | called by both threads; writes the hidraw node |
| Input path | `interruptData`, `lastMicButton`, `nextSendTime`, position in the two sources | `BTHID::recv` and its dispatch, `DebugHIDInput::drain`, `mic_add_packet`, periodic `USBHID::send` | hidraw node and debugfs file to USB host, USB microphone and `BTHID` |
| Process lifecycle | `failed` flags, stop token, exit code | `main`, health checks, epoll errors, join | all of the above; the service manager sees the exit code |
| `USBHID` | fd, `failed` | `init`, `recv`, `send`, `set_get_report` | the gadget's HID node |
| `DebugHIDInput` | fd, `failed`, partial line | `init`, `drain` | the debugfs `events` file |
| Tone test | `featureWaveOut*`, `inferredWaveOut*` with its deadline, `pendingWaveOutRoute`, `hostAudioRoute`; `ALSARecord`'s `waveOutActive`, `waveOutRoute` | `handle_usb_test_command`, `handle_usb_output_report`, `set_inferred_waveout`, `poll_inferred_waveout`, `apply_waveout_state`, `setWaveOut`, `waveout_proc` | event bus thread to audio thread |
| `ALSARecord` pipeline | ring and packet buffers, resampler, encoder, `speaker_data`, keepalive time | `audio_loop`, `haptics_proc`, `speaker_proc`, `waveout_proc`, `mic_keepalive_proc` | ALSA to `BTHID` |
| `USBGadget` | the configfs tree, which outlives the process | `exists`, `create`, `destroy` | the kernel, before everything else; nothing is torn down at exit |
| Formats and helpers | none | CRC, hex, lengths and flags of reports | all |

**What is hard here.**

* Two threads draw report numbers from one four-bit counter and normalise one
  state block. Several of the values it is normalised from are atomics stored
  *outside* the lock, with a report for them only some steps later.
* `setStateData` sends nothing while audio is active and relies on an audio
  packet to come.
* Writes fail, transiently or for good; almost nobody looks at the result.
* The same input reports arrive by two paths that run at different speeds.
* A failure found by one thread must end the other.
* Tone, stream and keepalive encode into one buffer, and three relaxed atomics
  carry one decision from thread to thread.
* The haptics resampler is asked for at most a quarter of the frames it is
  fed, for none after a read of one to three frames, so that haptics can fall
  behind the speaker.
* A packet leaves some time after the look at the clock it is due by: encoder,
  mutex and write are in between.
* The gadget in configfs survives a crash between any two system calls, and
  `write_file` cannot see a write the kernel refuses.

**What makes each component correct.** `BTHID`: reports leave one at a time,
consecutively numbered, never with a stale state; the controller follows the
stored state; a packet does not contradict itself; nothing the host sent is
forgotten. Input path: one press is one toggle, a muted microphone is silent,
packets are played in order and none twice, the host ends up with the newest
controls. Lifecycle: a lost device ends the process, with the code that names
the cause, and no half-started process serves the host. Tone test: the route in
force is the one of the last command or report. Pipeline: speaker and haptics
keep step as far as the reads allow, stale bytes are not repeated, packets
never cease, bursts are bounded. Gadget: a failed start leaves nothing that
makes the next fail, and the host never sees half a device.

The individual hazards, each at its line and with the properties that cover
it, are in `PROJECT.json`.

## 2. Modules

| Module | Models |
| --- | --- |
| `ReportStream` | abstract: what the Bluetooth output side promises, whoever sends |
| `BTHID` | the `BTHID` object's output side and the two threads in it; implements `ReportStream` |
| `BTHIDProofs` | theorems about `BTHID` |
| `InputPath` | controller reports by two sources, to USB report, mute, headset flag and microphone |
| `InputPathProofs` | theorems about `InputPath` |
| `Lifecycle`, `MCLifecycle` | start, event loop, audio thread, failure and exit; its constants for TLC |
| `LifecycleProofs` | theorems about `Lifecycle` |
| `WaveOut`, `MCWaveOut` | the test tone: host events, inferred pattern, atomics between the threads, tone packets; its reports for TLC |
| `WaveOutProofs` | theorems about `WaveOut` |
| `AudioThread` | the rounds of the audio thread: stream, tone, keepalive, their timers and `speaker_data` |
| `AudioThreadProofs` | theorems about `AudioThread` |
| `UsbPacer` | the clock of `event_bus`: `nextSendTime` and the timeout of `epoll_wait` |
| `Timers` | the two clocks side by side |
| `TimersProofs` | theorems about `UsbPacer` and about both clocks together |
| `Gadget` | `USBGadget` and `main`'s prologue over a configfs tree that outlives the process |
| `GadgetProofs` | theorems about `Gadget` |
| `MaxTheorems` | what `Max` and `Min` of the community modules return, for the proofs about the newest report or event |

### BTHID

A state block is four fields: the number of the host report it was copied from
(`host`), whether it selects the headset route (`headset`), the mute fields
(`muted`) and the microphone volume (`volume`). The other two volumes are
stored, normalised and sent by the same code at the same places; a third copy
of one field shows nothing the first does not. Payload bytes, the CRC,
`packetCounter` and haptics data are left out.

Steps end where the other thread can interfere. The event bus thread: the
atomic exchange (`SetHeadset`, `SetMicMuted`, `ApplyUsbAudioFeatureReport`) is
one step, taking the lock, normalising and building the report (`PushState`)
the next, `write(2)` and unlock (`BusWrite`) the third. `SetStateData` copies,
stores the volumes, normalises and either builds its report or defers it in one
step, because the code does all of it under the lock and the audio thread reads
volumes under the lock only; the one thing that may change meanwhile,
`audioActive`, is read once, at the end. The audio thread: start of the call,
the load of the override (`PickOverride`), that of `headset` (`PickHeadset`),
lock and the route part of the normalisation (`LockAndLoadRoute`), the rest and
the packet (`BuildPacket`), the write (`AudioWrite`).

`audioActive` is `now_ms() < audioActiveUntilMs`: set by every haptics and
tone packet, and cleared by `AudioWindowExpires` at any time after. `lost`,
`deferred` and `audioCall.raced` are history variables. The relaxed atomics
are modelled as sequentially consistent.

`Init` is the state in which `main` starts the audio thread: the initial
reports have been sent, perhaps in vain, since their results are ignored.

### InputPath

The sources carry the same reports in the same order, so a source is a
position (`btSeen`, `debugSeen`) in the sequence `sent`. The HID core writes a
report to the debugfs file before the hidraw node, so a drain reads at least
as far as the hidraw node has been read. `Drain` coalesces: microphone packets
go out as lines are parsed, but only the last input report of the batch is
looked at. `DrainFails` is a read error or EOF in the middle of a batch.
`UsbSend` writes the report that is assembled, `UsbSendFails` drops it,
`SendNotDue` skips the round. One round of the loop is drain, send, wait.
`WriteMic` is `mic_add_packet` for the packets of a batch: any of them may be
lost, because it is too short, does not decode, or is refused by the USB
microphone, whose buffer is full or which has to be restarted. `written` keeps
which source a packet came from; `failedAt` is how far the hidraw node had
been read when the debugfs file failed, since a drain that fails may be behind
it and leave older controls until the next report. A
report with both the microphone flag and controls is left out: their bytes
overlap. Queue overflow inside the kernel is left out.

### Lifecycle

A call on a device works, fails transiently or fails for good (`Calls`); a
link that is down never works. `main` is one action per call it makes, in
order, each with its early return; `event_bus` one action per stage of its
loop, with the events of one `epoll_wait` handled in any order. `epoll_wait`
may be interrupted (`EpollInterrupted`) or fail otherwise (`EpollFails`, exit
code 1). `early` and `causes` are history variables: which devices a call
really failed on. Errors of `usb.send` set no flag in the code
(`src/USBHID.cpp:66`) and are no cause: `SendInputReport` goes on whatever
happens.

### WaveOut

The host sends output reports and test commands; the event bus thread turns
them into a route and a tone. Of a report the model keeps what
`handle_usb_output_report` looks at: each volume is zero, the value of the
pattern or another one, `audioControl` is `0x30` or not, audio flags are set or
not, and the payload may be too short. `log` records the events, and the
operators behind it (`CommandOn`, `PatternOn`, `AskedRoute`, ...) define what
the host asked for from the events alone; the properties compare the code's
state with that.

`apply_waveout_state` stores three atomics with relaxed order. On the target
(aarch64) they may become visible in any order: `stores` holds what is on its
way, `Land` delivers one. A packet is `clean` if nothing was on its way when
it was begun. `BTHID` is reduced to the route it puts into a state block; its
own races are in `BTHID`, which takes these calls in any order. The headset
stays plugged in, so that an override is visible against the jack's route.
Write failures and encoder failures are left to `BTHID` and `AudioThread`.

### AudioThread, UsbPacer, Timers

`AudioThread` has the ways a round of `audio_loop` may go, followed by
`mic_keepalive_proc`. A round of the stream (read, `speaker_proc`,
`haptics_proc` with its packet) is one step: none of it looks at the clock
except to mark audio active. The tone and the keepalive look at the clock,
encode and send in three (`ToneLook`, `ToneEncode`, `ToneSend`, and the same
for the keepalive), and time may pass between them. Samples are left out:
`speakerPos` are the stream frames in the current block, `hapticsPos` the
haptics samples in the current packet, and `speakerData` says whether
`speaker_data` holds bytes of the stream, the tone or a keepalive.

The resampler is the WDL one, which is not in the repository; it is external,
and modelled from how it is used: fed by its input, interpolating, from 48 to 3
kHz. It yields sample `k` once it has got `Ratio * k + Ratio - Lead` frames (in
the code `Ratio = 16`, and an interpolation that needs one frame beyond
position `16k` gives `Lead = 14`), but never more than it is asked for, which
is a quarter of the frames of the read (`OutDivisor = 4`,
`src/ALSARecord.cpp:407`) and so none after a read of one to three. What it has
not yielded it keeps (`unresampled`): later, longer reads make up for it.
`SpeakerFollowsHaptics` therefore bounds how far haptics are behind by the
frames of such short reads (`shortFrames`), and what it says of a single frame
or leftover it says of blocks in which they were not behind (`late`).

`UsbPacer` has the stages of a round of `event_bus` that read or move its
clock. Both keep time relative, so that the state space is finite: a due time
is the ticks left until it. `Tick` may happen at any point of a round, as a
slow machine has it. `Timers` puts both into one run; they share no timer, so a
behaviour shows one of them.

The last conjunct of `UsbReportsRecur` bounds the delay at twice the work of a
round, and `AudioPacketsRecur` says packets never cease with the microphone
enabled. These are what other modules assume: the fairness of the keepalive in
`bthid_live`, of `UsbSend` in `InputPath` and of `LoadRoute` in `WaveOut`.

### Gadget

`tree` is the configfs directory: which directories and links exist, which
groups of attributes are set, which value `no_out_endpoint` has and whether the
gadget is bound. `create` and `destroy` are sequences of system calls, kept in
`todo`; `phase` says where in `main` they come from. `Works` performs the next
call, `FailsUnnoticed` passes over one whose failure the code does not see
(everything in `destroy`, every `write(2)` behind an `ofstream`),
`CreateFails` and `BindFails` are the failures it sees. `Exit` ends the process
anywhere; the tree stays. What the kernel permits and does (`Permitted`,
`Effect`) is external, and taken from how libcomposite and configfs behave:
an unlink of a function forces an unbind, a function in use refuses attributes,
a directory in use is not removed. That `destroy` writes an empty string to
`UDC` does nothing, as an empty string is no `write(2)`.

## 3. Runs

| Run | Module | Shows |
| --- | --- | --- |
| `bthid` | `BTHID` | types; `ControllerInSync`; `CombineIsCoherent`; `BTHID` implements `ReportStream` |
| `bthid_live` | `BTHID` | with the microphone enabled every host report is delivered |
| `bthid_no_keepalive` | `BTHID` | violated: without it, a deferred report may never be sent |
| `input` | `InputPath` | with one source and with two, of which one may fail: types; `HeadsetFollows`; `HostSettles`; `MicPacketsInOrder`, for each source by itself; with the hidraw node alone also `MuteFollowsSingleSource` and `MutedMicIsSilent` |
| `input_dual_mute` | `InputPath` | violated: a press can toggle the mute twice |
| `input_dual_mic` | `InputPath` | violated: microphone packets are played twice |
| `lifecycle` | `MCLifecycle` | types; `ExitHasCause`; `NoServiceAfterInitFailure`; `BtLossEndsProcess`; `NotedUsbFailureEndsProcess` |
| `lifecycle_debug` | `MCLifecycle` | violated: a failed debugfs file does not end the process |
| `lifecycle_forward` | `MCLifecycle` | violated: an unread feature report is published |
| `waveout` | `MCWaveOut` | the audio thread ends up with the tone and route the host asked for; packets agree with their state block; no state report carries an outdated route; a tone stops at once, is held as long as it is repeated, and does not stay for ever |
| `timers` | `Timers` | types; whatever the sizes of the reads, haptics fall behind only by what short reads held back, and frames and leftovers of `speaker_data` do not go out too often; bursts are bounded and keepalives spaced, also when a packet is held up after its look at the clock; `epoll_wait` wakes in time; packets and USB reports recur |
| `gadget` | `Gadget` | after crashes and failed system calls the host sees both functions or none, a process serves the gadget it was asked for, and one is served in the end |

**Bounds.** `bthid`: two host reports (`MaxHostReports`) are enough for an
older one to overtake a newer one; `SeqMod = 3` lets the counter wrap several
times, and distinguishes a repeated from a skipped number; two volumes tell a
stale one from a fresh one; writes may fail. The counter has 16 values in the
code and a volume 256: the theorems hold for all of them. `bthid_live` needs
neither numbers nor volumes (`SeqMod = 1`, `MaxVolume = 0`), and must not lose
writes, since nothing is retried. `LegacyPackets = TRUE` is not run: audio
packets then carry no state, and the theorems cover both settings.
`InputPath`: four reports (three with two sources) hold a press, its release, a
microphone packet and a newer report, which is as much as one batch of the
drain can confuse; any microphone packet may be lost. `Lifecycle` has no bound:
it is finite, with the four feature reports `main` publishes.
`WaveOut`: three host events (`MaxHostEvents`; timeouts come on top) are what
the longest interference needs: a pattern, a command or prepare on top of it,
and one that ends either. The five reports of `MCWaveOut` cover each branch of
the handler; `Hold = 1` tick is enough for a renewal before, at and after the
deadline.
`Timers`: a packet of two samples at a ratio of 4 is a block of 8 frames, read
1 to 4 at a time, so that reads end at a block's end and inside one, yield
none, one or two samples, and may be asked for less than is ready (`OutDivisor
= 2`). With `MaxShortFrames = 3` haptics come to be a packet behind, and every
bound the properties name is reached. Periods keep the order of the code's: the
tone and the keepalive come as often (10 and 10.7 ms), the activity window is
longer, the tone makes up for two periods. The values are in `Timers.cfg`, as
are two stalls of nine ticks, more than two USB periods, and a millisecond of
two ticks, so that the timeout is truncated.
`Gadget`: three unprovoked failures (`MaxFaults`) let both unlinks fail once
and one of them twice more, so that a stale link meets `symlink`; two exits
(`MaxExits`) put a process between two others.

**Fairness.** `BTHID`: weak fairness for each step of a call in progress (the
threads are scheduled, and neither holds the mutex for ever), for the keepalive
(`audio_loop` polls it every round) and for the end of the 100 ms window. That
last one says the host's audio stream stops some day, which is the case of
interest; while it does not stop, audio packets carry the state. Nothing is
owed by the host. `InputPath`: weak fairness of the loop; strong fairness of
`UsbSend` (a deadline comes every 4 ms, and a host that is there takes a report
now and then) and of `BtRecv` (epoll is level-triggered, an unread report is
reported again). The controller owes nothing. `Lifecycle`: weak fairness of the
main thread, and of the audio thread's return once it is asked to stop; strong
fairness of `EpollWait`, as signals do not interrupt every wait for ever; not
of `AudioLoop`, which would oblige a device to fail.
`WaveOut`: weak fairness of the threads, of the arrival of stores and of time;
strong fairness of the poll (each round of the loop runs it between handlers)
and of `LoadRoute` (each 10 ms a tone packet is due). The host owes nothing.
`Timers`: weak fairness of the shown thread and of time; strong fairness of
`KeepaliveEncode`: it is due again and again while nothing else is sent, and
the encoder does not fail for ever. Stalls and events are not owed. `Gadget`:
weak fairness of the process and of its restart, which the code's messages
leave to the service manager; failures and exits end with their bounds.
Deadlock is checked everywhere but in `gadget`, whose bounds leave the serving
process nothing to do; the exited process of `Lifecycle` stutters explicitly
(`Terminated`).

## 4. What the violated runs show

* **A deferred output report may be forgotten** (`bthid_no_keepalive`).
  `setStateData` returns early while audio is active (`src/BTHID.cpp:192`). If
  the audio stops within the 100 ms window, and no keepalive runs because
  `DS5_ENABLE_BT_MIC` is not set, nothing sends the state, unless the host
  sends another report.
* **Two sources, one edge detector** (`input_dual_mute`). With the debugfs file
  open both sources call `handleMicButton` (`src/main.cpp:376` and `:489`). A
  hidraw node one report behind makes press, release, press of one press.
* **Two sources, one microphone** (`input_dual_mic`). Both call
  `mic_add_packet` (`src/main.cpp:373` and `:484`).
* **An unreachable health check** (`lifecycle_debug`). `available()` implies
  that the debugfs file has not failed, so the check at `src/main.cpp:363`
  never fires.
* **A failed read looks like an answer** (`lifecycle_forward`).
  `get_feature_report` returns its zeroed buffer when the ioctl fails
  (`src/BTHID.cpp:525`), and the callers' test for an empty answer passes.

## 5. What is proved

Every type invariant, safety invariant and action property that a passing run
checks, and the refinement, is a theorem, for every value of the constants its
module's assumptions allow. A bound that a run needs (`MaxHostReports`,
`MaxReports`, `MaxHostEvents`, `MaxShortFrames`, `MaxFaults`, `MaxExits`,
`MaxStalls`) is there any natural number: the theorems cover behaviours of any
length.

### BTHIDProofs

For every value of the constants, from the assumptions that
`MaxHostReports` and `MaxVolume` are naturals, `SeqMod` is a positive natural
and the flags are Booleans:

| Theorem | States |
| --- | --- |
| `Invariance` | `Spec => []IInv`, the inductive invariant |
| `TypeCorrect` | `Spec => []TypeOK` |
| `InSync` | `Spec => []ControllerInSync` |
| `Coherent` | `Spec => []CombineIsCoherent` |
| `Refinement` | `Spec => ImplementsStream` |

No property is inductive alone. `ControllerInSync` speaks of moments when the
event bus thread is between calls, but the report that establishes it was
built earlier, and between build and write the other thread could have moved
on. `IInv` adds what holds inside a call:

* `LockHeld`: the mutex is held exactly by the thread whose pc is inside its
  critical section, so never by both;
* `NumberInv`: the counter is one ahead of the last report written, or of the
  one report that waits for its write;
* `ReportFresh`: a report that waits for its write is still a copy of
  `stateData`;
* `StateDataCurrent`: `stateData` agrees with the atomics, unless the event
  bus thread stands before `PushState`;
* `ControllerCurrent`: `ControllerInSync` in terms of `stateData`;
* `RouteInv`: what an unraced `sendCombine` has seen so far.

Each part has a lemma saying every step keeps it, with one step per action.
`InSync` follows from `StateDataCurrent` and `ControllerCurrent`; `Coherent`
from `RouteInv`; `Refinement` from `NumberInv` and `ReportFresh`: both writes
are `Transmit`, `SetStateData` is `Accept`, and every other step stutters.

### AudioThreadProofs, TimersProofs

For every value of the constants, from the assumptions their modules name: a
haptics packet is `Samples` samples of `Ratio` frames each, which also is a
block; a sample is early by less than `Ratio`; a caller asks for at least two
samples in `Ratio` frames (`2 * OutDivisor <= Ratio`), and one read is no
longer than a block and yields no more than a packet (`BlockAssumption`);
periods are positive (`PeriodAssumption`, `UsbPeriodAssumption`), and the work
of a round is shorter than the USB period (`WorkAssumption`; a stall is any
natural). The runs know small blocks and one set of periods; the theorems
include the code's (`Ratio = 16`, `Samples = 32`, `OutDivisor = 4`, `MaxRead =
32`), and streams, runs of short reads and stalls of any length:

| Theorem | States |
| --- | --- |
| `AudioInvariance` | `AudioSpec => []AudioInv`, inductive: the types and the timers |
| `CatchUpBounded` | `AudioSpec => []ToneCatchUpBounded` |
| `KeepalivesAlwaysSpaced` | `AudioSpec => KeepalivesSpaced` |
| `SpeakerAlwaysFollows` | `AudioSpec => []SpeakerFollowsHaptics` |
| `LeftoverAlwaysOnce` | `AudioSpec => []LeftoverAtMostOnce` |
| `PacerInvariance` | `PacerSpec => []PacerInv`, inductive |
| `WakesInTimeAlways` | `PacerSpec => []WakesInTime` |
| `TypeCorrect` | `Spec => []TypeOK`, of `Timers` |
| `TimersSafe` | `Spec` of `Timers` has the five safety properties of both clocks and the stream |

`AudioInv` adds to the types that every packet of a burst but the first, which
may have been held up since an earlier look at the clock, has been paid for
with a period of `toneDue` (`BurstPaid`), and that a keepalive was sent before
the look that leads to the next one but one (`KeepaliveSpaced`, by way of
`SentBeforeLook`). Two keepalives in a row may be closer than a period, if the
first is held up between look and send, so the property speaks of three.
`FollowInv`, inductive together with it, says where haptics and speaker may
stand in relation to each other: `Drift` balances the frames the resampler
keeps against blocks, frames and samples, and lets them exceed a sample only by
what short reads have brought; the rest says how often the bytes of
`speaker_data` can have gone out at that point. `AdvanceInBuffer` gets rid of
the modulo, `LongReadKeepsUp` and `ResampledFacts` say that a read long enough
to be asked for a sample never leaves the haptics further behind, `DriftKept`
that every read keeps the balance, and a round with and a round without an
encoded frame are taken apart (`EncodedRound`, `UnencodedRound`). `PacerInv`
adds to `WakesInTime` that the look at the clock is no older than the work of
its round (`LookIsRecent`). A step of `Timers` is one of the thread shown and
leaves the other's clock alone (`BothClocks`), so that what holds of either
clock by itself holds of the two the run `timers` puts side by side.

### LifecycleProofs

For every sequence of reports `main` publishes, as long as the forwarded one
is not among them (`ReportsAssumption`):

| Theorem | States |
| --- | --- |
| `Invariance` | `Spec => []IInv`, inductive |
| `TypeCorrect` | `Spec => []TypeOK` |
| `ExitAlwaysHasCause` | `Spec => []ExitHasCause` |
| `NeverServesAfterInitFailure` | `Spec => []NoServiceAfterInitFailure` |

An exit code is decided from the two failure flags by another thread than the
one that raised them, and the check that keeps a half-started process from
serving comes several calls after the failure. `IInv` links the ends: a flag
is raised only by a call that failed for good (`FlagsHaveCause`); until
`event_bus` begins every such failure is flagged and nothing has been sent
(`StartIsFlagged`); what was flagged then still is (`EarlyIsFlagged`), so that
only a process that started cleanly gets past the first health check
(`LoopStartedCleanly`). What a step's calls can do to the flags is one lemma
(`CallsFlag`), used for the steps of both threads.

### InputPathProofs

For any number of reports with one source and with two
(`MaxReportsAssumption`), any choice of report kinds and either state of the
debugfs file at the start:

| Theorem | States |
| --- | --- |
| `Invariance` | `Spec => []IInv`, inductive |
| `TypeCorrect` | `Spec => []TypeOK` |
| `SingleSourceMute` | `Spec => []MuteFollowsSingleSource` |
| `SilentWhileMuted` | `Spec => []MutedMicIsSilent` |
| `PacketsInOrder` | `Spec => []MicPacketsInOrder` |
| `HeadsetSettles` | `Spec => []HeadsetFollows` |

The properties speak of all that was sent, the code keeps one level, one flag
and reads batches. `IInv` says where each reader stands: with the hidraw node
alone, button level and mute are those of the reports read from it
(`ButtonFollows`), and the packets written are silent where the presses before
them say so; with one source or two, the packets of each are in order and among
those it has read (`PacketsFollow`), and the headset flag is that of what one
of them has read, once the hidraw node has delivered an input report after a
failure of debugfs (`HeadsetOfASource`). `NthInOrder`, `WriteMicAdds` and
`WriteMicInOrder` say what a batch of which any packets are lost adds to those
written. The lemmas before it say what one more report, or a batch of which
only the newest input report is applied, adds to the presses, to the headset
bit and to the packets; the reports already sent keep what they say
(`HistoryStays`). `PacketsInOrder` and `HeadsetSettles` cover two sources out
of step; `SingleSourceMute` and `SilentWhileMuted` do not: with two sources a
press may toggle twice (section 4), and a batch is written before its button is
looked at.

### GadgetProofs

For any number of faults and exits (`BoundAssumption`):

| Theorem | States |
| --- | --- |
| `Invariance` | `Spec => []IInv`, inductive |
| `TypeCorrect` | `Spec => []TypeOK` |
| `BothFunctions` | `Spec => []HostSeesBothFunctions` |
| `AskedIsServed` | `Spec => []ServesWhatWasAsked` |

`create` and `destroy` are sequences of system calls, each of which may fail,
unnoticed or not, or be the last of its process. `IInv` says what the first
`k` calls have come to: those of `create` have made their directories and
links, and have written their attributes unless a write was refused or a link
in the way is about to fail the construction (`BuildingGoesOn`); those of
`destroy` on a gadget that is still bound have missed their unlinks
(`OldGadgetGoes`); and a gadget that `main` finds at its second look has
refused both (`FoundAgain`). A gadget is bound only behind its second link and
loses a link only together with the binding, which is `HostSeesBothFunctions`
itself; `Served` carries what was found or built to the serving process.
`TeardownCalls` and `ConstructionCalls` list the calls, so that a step is a
split over them.

### WaveOutProofs

For any set of host reports, any hold, either state of the jack and logs of
any length:

| Theorem | States |
| --- | --- |
| `Invariance` | `Spec => []IInv`, inductive |
| `TypeCorrect` | `Spec => []TypeOK` |
| `FollowsHost` | `Spec => []AudioThreadFollowsHost` |
| `StopsAtOnce` | `Spec => []ToneStopsAtOnce` |
| `PacketCoherent` | `Spec => TonePacketCoherent` |
| `ReportRouteCurrent` | `Spec => ReportRouteNotStale` |
| `HeldForWholeHold` | `Spec => PatternIsHeld` |

The properties read what the host asked for off the log of its events: its
last command, the route prepared before it, whether a pattern came after all
that end one, its last volumes. The code keeps a few variables and stores three
atomics that arrive late. No induction over the log is needed: each of those is
the maximum of a set of positions (`LastOf`), `LastOfNext` says what one more
event does to it, and `PatternStarts`, `PatternStops` and `PatternGoesOn` do so
for the pattern. `LogOperators` ties them to the operators of the properties.
`IInv` then says:

* `BusInv`: between handlers the variables, and the last store to each atomic
  whether landed or not, are what the log asks for; inside a handler they are
  what all but its last event ask for; before `InferOff` all but the
  inferred pattern has followed;
* `ToneHasEvent`: there is no tone without an event that was applied;
* `CleanCall`: a packet's call is clean as long as nothing is on its way and
  its route is the one in force;
* `TailInv`: a packet that follows the end of the tone was begun before it;
* `HoldInv`: the time held and the time left add up to the hold.

`FollowsHost` follows from `BusInv` once nothing is in flight; the action
properties from `BusInv`, `CleanCall` and `HoldInv` and the one action that
could break each.

### Only model-checked

The liveness properties (`HostReportDelivered`, `HostSettles`,
`BtLossEndsProcess`, `NotedUsbFailureEndsProcess`, `ToneSettles`,
`AudioPacketsRecur`, `UsbReportsRecur`, `EventuallyServed`), because liveness
under fairness is out of the prover's reach, and the properties that TLC finds
violated.

## 6. Not modelled, and why

* `sendHaptics`, `sendSpeaker`: nothing calls them.
* CRC-32, hex printing, logging, sample arithmetic, mixer gain: sequential
  computations with nothing to interleave.
* Opus failures in `BTHID`: there an encoder error on the keepalive's silence
  is taken not to happen. `AudioThread` has encoder failures everywhere.
* `ALSARecord::init`, the mixer and device search: calls in a row, with no
  state to leave behind.
* Byte offsets and lengths of reports beyond the dispatch in `WaveOut` and
  `InputPath`: functions of one report, which a unit test settles. The `0xa1`
  prefix `is_full_bt_input_report` accepts is left out with them; a hidraw
  node does not deliver it.
* Whether an error of `usb.send` should end the process: the code logs it and
  goes on (`src/USBHID.cpp:66`), until the host sends something that makes
  another call fail; nothing in the repository says otherwise. `Lifecycle` lets
  it happen, and `NotedUsbFailureEndsProcess` speaks of the failures the code
  notes.
* Which route a state report carries that itself changes the route:
  `setStateData` sends it before the override moves (`src/main.cpp:425`), and
  nothing says which is meant. `ReportRouteNotStale` allows the route asked for
  up to the report and that including it, but no older one.
* Jack detection against the override: after the first report that touches
  audio `apply_waveout_state` always sets an override (`src/main.cpp:158`), so
  that plugging the headset no longer changes the route. `WaveOut` has it (the
  override never returns to none), but nothing in the repository says which of
  the two should win.
* `sendInitialState` uses number 1 for its `0x32` report and leaves the
  counter at 1, so the next report repeats it. `ReportStream` counts that
  first report as number 0; nothing in the repository says what a controller
  expects of it.
* `DS5_BT_MIC_BUTTON_MUTE` unset counts as enabled, as in the code; both
  settings are initial states.

## 7. Plan

Done: all modules of section 2, the runs of section 3, and the proof of every
safety property they check. What is left:

1. `InputPath` against an abstract specification of the microphone and mute
   (what was read is applied report by report), refined by a batch that
   applies the newest only; proved for the hidraw node alone.
2. `WaveOut` against an abstract tone that follows its commands atomically.
3. The safety half of the liveness properties: measures that a step of the
   loop never increases, which leave only fairness to TLC.
