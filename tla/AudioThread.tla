---------------------------- MODULE AudioThread ----------------------------
(***************************************************************************)
(* The rounds of the audio thread (audio_loop in src/ALSARecord.cpp): the  *)
(* host's stream becomes encoded speaker frames and haptics packets, the   *)
(* test tone replaces the stream, and the mic keepalive fills in when no   *)
(* other packet is sent.  All three encode into one buffer, speaker_data,  *)
(* which every packet carries, whatever was encoded into it last.          *)
(*                                                                         *)
(* A block is what one speaker frame is encoded from, and also what one    *)
(* haptics packet is resampled from: 512 stream frames.  The resampler of  *)
(* the haptics (WDL, not in the repository: modelled from how it is used,  *)
(* interpolating and fed by the input) yields sample k, counted from 0, as *)
(* soon as it has got Ratio * k + Ratio - Lead frames, unless its caller   *)
(* has asked for less; what it was not asked for it keeps.  The values of  *)
(* samples are left out; of speaker_data it is kept where the bytes came   *)
(* from.                                                                   *)
(*                                                                         *)
(* Timers are relative: toneDue and keepaliveDue are the ticks until the   *)
(* next_send of waveout_proc and mic_keepalive_proc, negative once it has  *)
(* passed; activeFor is what is left of the 100 ms of markAudioActive.     *)
(***************************************************************************)
EXTENDS Integers, FiniteSetsExt

CONSTANTS
  MaxRead,           \* stream frames in one read, at most
  Ratio,             \* stream frames to a haptics sample: 48000 / 3000
  Samples,           \* haptics samples in a packet
  OutDivisor,        \* haptics_proc asks for at most nframes / OutDivisor
  Lead,              \* how early a haptics sample is ready, in frames
  MaxShortFrames,    \* bound: frames of short reads since haptics caught up
  TonePeriod, ToneResync, KeepalivePeriod, ActiveWindow,   \* in ticks
  MicEnabled         \* DS5_ENABLE_BT_MIC

\* Stream frames in a block.
Block == Ratio * Samples

ASSUME BlockAssumption ==
  /\ Ratio \in Nat \ {0} /\ Samples \in Nat \ {0} /\ Lead \in 0..(Ratio - 1)
  /\ OutDivisor \in Nat \ {0} /\ 2 * OutDivisor <= Ratio
  /\ MaxRead \in 1..(Ratio * Samples) /\ MaxRead \div OutDivisor <= Samples
  /\ MaxShortFrames \in Nat
ASSUME PeriodAssumption ==
  /\ TonePeriod \in Nat \ {0} /\ ToneResync \in Nat
  /\ KeepalivePeriod \in Nat \ {0} /\ ActiveWindow \in Nat \ {0}
ASSUME MicAssumption == MicEnabled \in BOOLEAN

VARIABLES
  audioPc,           \* "loop", "sleep", "tone", "toneSend", "keepalive",
                     \* "keepaliveEncode" or "keepaliveSend"
  waveOutActive,     \* stored by the event bus thread
  toneDue, keepaliveDue, activeFor,
  speakerPos,        \* frames of the current block so far
  hapticsPos,        \* samples of the current haptics packet so far
  unresampled,       \* frames fed to the resampler beyond what it has yielded
  speakerData,       \* where the bytes of speaker_data come from
  \* history:
  encoderFailed,     \* the stream's last block could not be encoded
  shortFrames,       \* frames of reads too short to yield a sample, since
                     \* the haptics had last caught up
  late,              \* the haptics had not caught up at the end of a round
                     \* of the current block
  carried,           \* haptics packets that carried the current stream frame
  skipped,           \* stream frames in a row that no packet carried,
                     \* although the haptics were not late
  foreign,           \* haptics packets without a stream frame since
                     \* speaker_data last held one
  blocksAhead,       \* speaker blocks less haptics packets of the stream
  burst,             \* tone packets since time has passed
  keptAgo,           \* ticks since the last keepalive packet,
  keptBefore         \* and since the one before it

timers  == <<toneDue, keepaliveDue, activeFor>>
stream  == <<speakerPos, hapticsPos, unresampled, shortFrames, late,
             encoderFailed, carried, skipped, foreign, blocksAhead>>
kept    == <<keptAgo, keptBefore>>
audioVars == <<audioPc, waveOutActive, timers, speakerData, stream, burst,
               kept>>

-----------------------------------------------------------------------------

\* Older than any lag the code tells apart; lags beyond are not distinguished.
OldestTone == -2 * (ToneResync + TonePeriod)
OldestKeepalive == -2 * KeepalivePeriod

\* markAudioActive and sendCombine, with the bytes now in speaker_data.
AudioPacket == activeFor' = ActiveWindow
NoPacket    == UNCHANGED activeFor

\* Mutant: the fill level runs past the end of the block.
AdvancePastEnd(pos, n, size) == pos + n

\* The fill level of a buffer of some size after n more.
Advance(pos, n, size) == (pos + n) % size

SpeakerCompletes(n) == speakerPos + n >= Block

\* Mutant: the frames of a read that lie behind the end of a block are dropped.
SpeakerPosToBlockStart(n) ==
  IF SpeakerCompletes(n) THEN 0 ELSE speakerPos + n

\* The speaker's block after a read of n frames.
NextSpeakerPos(n) == Advance(speakerPos, n, Block)

\* Mutant: the frame is encoded into a buffer no packet takes.
EncodedElsewhere(encoded) == speakerData

\* What speaker_data holds after speaker_proc.
EncodedFrame(encoded) == IF encoded THEN "stream" ELSE speakerData

-----------------------------------------------------------------------------
(* One round without a tone: read, speaker_proc, haptics_proc.             *)

\* The samples n more frames yield: those that are ready, up to the number asked
\* for, which is none for a short read.
Resampled(n) == Min({(unresampled + n + Lead) \div Ratio, n \div OutDivisor})

HapticsComplete(n) == hapticsPos + Resampled(n) >= Samples

\* The resampler has yielded all it can, so the haptics are not behind.
CaughtUp == unresampled + Lead < Ratio

\* speaker_proc of n frames; a block that is complete is encoded, or the
\* encoder fails and speaker_data stays as it is.
SpeakerProc(n, encoded) ==
  /\ speakerPos' = NextSpeakerPos(n)
  /\ speakerData' = EncodedFrame(encoded)
  /\ encoderFailed' = IF SpeakerCompletes(n) THEN ~encoded ELSE encoderFailed

\* haptics_proc of the same n frames: a complete packet takes speaker_data
\* along, as speaker_proc has just left it.
HapticsProc(n) ==
  /\ unresampled' = unresampled + n - Ratio * Resampled(n)
  /\ hapticsPos' = Advance(hapticsPos, Resampled(n), Samples)
  /\ IF HapticsComplete(n) THEN AudioPacket ELSE NoPacket

\* How far the haptics are behind, and why.
LatenessHistory(n) ==
  /\ shortFrames' = IF CaughtUp' THEN 0
                    ELSE shortFrames + (IF n < OutDivisor THEN n ELSE 0)
  /\ late' = (~CaughtUp' \/ (late /\ ~SpeakerCompletes(n)))
  /\ blocksAhead' = blocksAhead + (IF SpeakerCompletes(n) THEN 1 ELSE 0)
                                - (IF HapticsComplete(n) THEN 1 ELSE 0)

\* What the packets have carried.
PacketHistory(n, encoded) ==
  LET sent(kinds) == IF HapticsComplete(n) /\ speakerData' \in kinds
                     THEN 1 ELSE 0
      since(event, count) == IF event THEN 0 ELSE count
      lost == speakerData = "stream" /\ carried = 0 /\ ~late
  IN  /\ carried' = Min({since(encoded, carried) + sent({"stream"}), 3})
      /\ foreign' = Min({since(speakerData' = "stream", foreign)
                         + sent({"tone", "silence"}), 2})
      /\ skipped' = IF late' \/ (encoded /\ ~lost) THEN 0
                    ELSE IF encoded THEN Min({skipped + 1, 2}) ELSE skipped

\* A read that returned n frames.  The encoder runs only on a complete block.
StreamRound(n, encoded) ==
  /\ audioPc = "loop" /\ ~waveOutActive
  /\ encoded => SpeakerCompletes(n)
  /\ n < OutDivisor => shortFrames + n <= MaxShortFrames
  /\ SpeakerProc(n, encoded)
  /\ HapticsProc(n)
  /\ LatenessHistory(n)
  /\ PacketHistory(n, encoded)
  /\ audioPc' = "keepalive"
  /\ UNCHANGED <<waveOutActive, toneDue, keepaliveDue, burst, kept>>

\* A read that found nothing, or failed and restarted the device: 1 ms of sleep.
EmptyRound ==
  /\ audioPc = "loop" /\ ~waveOutActive
  /\ audioPc' = "keepalive"
  /\ UNCHANGED <<waveOutActive, timers, speakerData, stream, burst, kept>>

-----------------------------------------------------------------------------
(* One round with a tone: waveout_proc.                                    *)

ToneSleep ==
  /\ audioPc = "loop" /\ waveOutActive
  /\ toneDue > 0
  /\ audioPc' = "sleep"
  /\ UNCHANGED <<waveOutActive, timers, speakerData, stream, burst, kept>>

\* Mutant: the round of a tone ends without the keepalive.
ToneRoundEndsLoop == audioPc' = "loop"

\* waveout_proc returns and mic_keepalive_proc follows.
ToneRoundEnds == audioPc' = "keepalive"

ToneWake ==
  /\ audioPc = "sleep"
  /\ toneDue <= 0
  /\ ToneRoundEnds
  /\ UNCHANGED <<waveOutActive, timers, speakerData, stream, burst, kept>>

\* Mutant: a long lag is caught up with.
NextToneDueCatchUp == toneDue + TonePeriod

\* The next packet is due a period later; a long lag is forgotten.
NextToneDue ==
  TonePeriod + IF toneDue < -ToneResync THEN 0 ELSE toneDue

\* waveout_proc looks at the clock; the packet leaves at any time later.
ToneLook ==
  /\ audioPc = "loop" /\ waveOutActive
  /\ toneDue <= 0
  /\ toneDue' = NextToneDue
  /\ audioPc' = "tone"
  /\ UNCHANGED <<waveOutActive, keepaliveDue, activeFor, speakerData, stream,
                 burst, kept>>

\* The tone is encoded and marked as audio, ...
ToneEncode ==
  /\ audioPc = "tone"
  /\ speakerData' = "tone" /\ carried' = 0
  /\ AudioPacket
  /\ audioPc' = "toneSend"
  /\ UNCHANGED <<waveOutActive, toneDue, keepaliveDue, speakerPos, hapticsPos,
                 unresampled, shortFrames, late, encoderFailed, skipped,
                 foreign, blocksAhead, burst, kept>>

ToneEncoderFails ==
  /\ audioPc = "tone"
  /\ ToneRoundEnds
  /\ UNCHANGED <<waveOutActive, timers, speakerData, stream, burst, kept>>

\* ... and sent.
ToneSend ==
  /\ audioPc = "toneSend"
  /\ burst' = burst + 1
  /\ ToneRoundEnds
  /\ UNCHANGED <<waveOutActive, timers, speakerData, stream, kept>>

-----------------------------------------------------------------------------
(* The end of every round: mic_keepalive_proc.                             *)

\* Mutant: the next keepalive is counted from the last one's due time.
NextKeepaliveDueFromLast == keepaliveDue + KeepalivePeriod

\* The next keepalive is counted from now.
NextKeepaliveDue == KeepalivePeriod

KeepaliveNotDue ==
  /\ audioPc = "keepalive"
  /\ ~MicEnabled \/ keepaliveDue > 0
  /\ audioPc' = "loop"
  /\ UNCHANGED <<waveOutActive, timers, speakerData, stream, burst, kept>>

\* mic_keepalive_proc looks at the clock; the packet leaves at any time later.
KeepaliveLook ==
  /\ audioPc = "keepalive"
  /\ MicEnabled /\ keepaliveDue <= 0
  /\ keepaliveDue' = NextKeepaliveDue
  /\ audioPc' = "keepaliveEncode"
  /\ UNCHANGED <<waveOutActive, toneDue, activeFor, speakerData, stream, burst,
                 kept>>

\* Another packet was sent a moment ago, or the encoder fails.
KeepaliveSkipped ==
  /\ audioPc = "keepaliveEncode"
  /\ audioPc' = "loop"
  /\ UNCHANGED <<waveOutActive, timers, speakerData, stream, burst, kept>>

\* Silence is encoded; it is not marked as audio.
KeepaliveEncode ==
  /\ audioPc = "keepaliveEncode"
  /\ activeFor = 0
  /\ speakerData' = "silence" /\ carried' = 0
  /\ audioPc' = "keepaliveSend"
  /\ UNCHANGED <<waveOutActive, timers, speakerPos, hapticsPos, unresampled,
                 shortFrames, late, encoderFailed, skipped, foreign,
                 blocksAhead, burst, kept>>

KeepaliveSend ==
  /\ audioPc = "keepaliveSend"
  /\ keptAgo' = 0 /\ keptBefore' = keptAgo
  /\ audioPc' = "loop"
  /\ UNCHANGED <<waveOutActive, timers, speakerData, stream, burst>>

-----------------------------------------------------------------------------

\* The event bus thread turns the tone on or off.
SetWaveOut(enabled) ==
  /\ enabled # waveOutActive
  /\ waveOutActive' = enabled
  /\ UNCHANGED <<audioPc, timers, speakerData, stream, burst, kept>>

AudioTick ==
  /\ toneDue' = Max({toneDue - 1, OldestTone})
  /\ keepaliveDue' = Max({keepaliveDue - 1, OldestKeepalive})
  /\ activeFor' = Max({activeFor - 1, 0})
  /\ keptAgo' = Min({keptAgo + 1, KeepalivePeriod})
  /\ keptBefore' = Min({keptBefore + 1, KeepalivePeriod})
  /\ burst' = 0
  /\ UNCHANGED <<audioPc, waveOutActive, speakerData, stream>>

\* When main starts the thread.  next_send of the tone is set when the first
\* tone starts, which a lag to be forgotten stands for.
AudioInit ==
  /\ audioPc = "loop" /\ waveOutActive = FALSE
  /\ toneDue = OldestTone /\ keepaliveDue = 0 /\ activeFor = 0
  /\ speakerPos = 0 /\ hapticsPos = 0 /\ unresampled = 0
  /\ shortFrames = 0 /\ late = FALSE
  /\ speakerData = "silence"
  /\ encoderFailed = FALSE
  /\ carried = 0 /\ skipped = 0 /\ foreign = 0 /\ blocksAhead = 0
  /\ burst = 0 /\ keptAgo = KeepalivePeriod /\ keptBefore = KeepalivePeriod

HapticsPacket ==
  \E n \in 1..MaxRead, encoded \in BOOLEAN :
    StreamRound(n, encoded) /\ HapticsComplete(n)

AnyPacket == HapticsPacket \/ ToneSend \/ KeepaliveSend

AudioStep ==
  \/ \E n \in 1..MaxRead, encoded \in BOOLEAN : StreamRound(n, encoded)
  \/ EmptyRound
  \/ ToneSleep \/ ToneWake
  \/ ToneLook \/ ToneEncode \/ ToneEncoderFails \/ ToneSend
  \/ KeepaliveNotDue
  \/ KeepaliveLook \/ KeepaliveSkipped \/ KeepaliveEncode \/ KeepaliveSend

AudioNext ==
  \/ AudioStep \/ AudioTick \/ \E enabled \in BOOLEAN : SetWaveOut(enabled)

AudioSpec == AudioInit /\ [][AudioNext]_audioVars

\* The thread runs, time passes, and the encoder does not fail for ever.
AudioFairness ==
  /\ WF_audioVars(AudioStep) /\ WF_audioVars(AudioTick)
  /\ SF_audioVars(KeepaliveEncode)

-----------------------------------------------------------------------------
(* Properties.                                                             *)

AudioTypeOK ==
  /\ audioPc \in {"loop", "sleep", "tone", "toneSend",
                  "keepalive", "keepaliveEncode", "keepaliveSend"}
  /\ waveOutActive \in BOOLEAN
  /\ toneDue \in OldestTone..TonePeriod
  /\ keepaliveDue \in OldestKeepalive..KeepalivePeriod
  /\ activeFor \in 0..ActiveWindow
  /\ speakerPos \in 0..(Block - 1) /\ hapticsPos \in 0..(Samples - 1)
  /\ unresampled \in Int /\ unresampled >= -Lead
  /\ shortFrames \in 0..MaxShortFrames /\ late \in BOOLEAN
  /\ speakerData \in {"silence", "tone", "stream"}
  /\ encoderFailed \in BOOLEAN
  /\ carried \in 0..3 /\ skipped \in 0..2 /\ foreign \in 0..2
  /\ blocksAhead \in Int /\ burst \in Nat
  /\ keptAgo \in 0..KeepalivePeriod /\ keptBefore \in 0..KeepalivePeriod

\* However the reads cut up the stream, and whatever the encoder, the tone and
\* the keepalive do in between: haptics are early by at most one packet, and
\* fall behind only by the frames of reads that were too short to yield a
\* sample, which later reads make up for.  While they are not late, a speaker
\* frame goes out with at most two haptics packets, unless the encoder has just
\* failed, and no two frames in a row are lost.
SpeakerFollowsHaptics ==
  /\ blocksAhead >= -1
  /\ (blocksAhead - 1) * Block < shortFrames - Lead
  /\ carried <= 2 \/ encoderFailed \/ late
  /\ skipped <= 1

\* Bytes of the tone or of a keepalive go out with at most one haptics packet
\* of the stream that follows, unless the encoder fails on it or the haptics are
\* late.
LeftoverAtMostOnce == foreign <= 1 \/ encoderFailed \/ late

\* After a stall the tone makes up for at most ToneResync at once; a packet that
\* was held up between its look at the clock and its send comes on top.
ToneCatchUpBounded == burst <= ToneResync \div TonePeriod + 2

\* Of three keepalive packets in a row the last leaves at least a period after
\* the first, also after a stall.  Two may be closer, when the first is held up
\* between its look at the clock and its send.
KeepalivesSpaced ==
  [][KeepaliveSend => keptBefore >= KeepalivePeriod]_audioVars

\* With the microphone enabled packets never cease for good, whatever the
\* stream, the tone and the encoder do: a state block left for the next audio
\* packet finds one.
PacketsRecur == MicEnabled => []<><<AnyPacket>>_audioVars
=============================================================================
