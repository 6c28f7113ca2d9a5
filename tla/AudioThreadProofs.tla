------------------------- MODULE AudioThreadProofs -------------------------
(***************************************************************************)
(* Proofs about the audio thread, for all periods, block and read sizes:   *)
(* types, the bound on the tone's bursts, the spacing of keepalive        *)
(* packets, and that speaker, haptics and speaker_data keep step.          *)
(***************************************************************************)
EXTENDS AudioThread, MaxTheorems, TLAPS

\* A block and what is known of the sizes that go with it.
LEMMA BlockFacts ==
  /\ Block \in Nat \ {0} /\ Block = Ratio * Samples /\ Ratio <= Block
  /\ Ratio \in Nat \ {0} /\ Samples \in Nat \ {0} /\ Lead \in 0..(Ratio - 1)
  /\ MaxRead \in 1..Block
<1>1. Ratio \in Nat \ {0} /\ Samples \in Nat \ {0}
  BY BlockAssumption
<1>2. Ratio * Samples \in Nat /\ Ratio * Samples >= Ratio
  <2>1. Samples - 1 \in Nat /\ Ratio * (Samples - 1) \in Nat
    BY <1>1
  <2>2. Ratio * Samples = Ratio * (Samples - 1) + Ratio
    BY <1>1
  <2> QED BY <1>1, <2>1, <2>2
<1> QED BY <1>1, <1>2, BlockAssumption DEF Block

\* A fill level stays inside its buffer.  It grows by what is put in, and by a
\* buffer less when the buffer is full.
LEMMA AdvanceInBuffer ==
  ASSUME NEW size \in Nat \ {0}, NEW pos \in 0..(size - 1), NEW n \in 0..size
  PROVE  /\ Advance(pos, n, size) \in 0..(size - 1)
         /\ Advance(pos, n, size) = pos + n - (IF pos + n >= size THEN size ELSE 0)
<1>1. CASE pos + n >= size
  <2>1. (pos + n) % size = pos + n - size
    BY <1>1
  <2> QED BY <2>1, <1>1 DEF Advance
<1>2. CASE pos + n < size
  <2>1. (pos + n) % size = pos + n
    BY <1>2
  <2> QED BY <2>1, <1>2 DEF Advance
<1> QED BY <1>1, <1>2

\* The quotient of a division: the multiples of d up to x.
LEMMA Quotient ==
  ASSUME NEW x \in Nat, NEW d \in Nat \ {0}
  PROVE  /\ x \div d \in Nat
         /\ d * (x \div d) <= x /\ x < d * (x \div d) + d
<1>1. x = d * (x \div d) + (x % d) /\ x % d \in 0..(d - 1) /\ x \div d \in Nat
  OBVIOUS
<1>2. d * (x \div d) \in Nat
  BY <1>1
<1> QED BY <1>1, <1>2

\* A read that may yield a sample at all may yield what its frames are worth.
LEMMA LongReadKeepsUp ==
  ASSUME NEW n \in Nat, n >= OutDivisor
  PROVE  Ratio * (n \div OutDivisor) >= n
<1> DEFINE q == n \div OutDivisor
<1>1. Ratio \in Nat /\ OutDivisor \in Nat \ {0} /\ 2 * OutDivisor <= Ratio
  BY BlockAssumption
<1>2. q \in Nat /\ OutDivisor * q <= n /\ n < OutDivisor * q + OutDivisor
  BY <1>1, Quotient
<1> HIDE DEF q
<1>3. q >= 1
  <2>1. q = 0 => OutDivisor * q = 0
    BY <1>1
  <2> QED BY <1>1, <1>2, <2>1
<1>4. OutDivisor <= OutDivisor * q
  <2>1. q - 1 \in Nat /\ OutDivisor * (q - 1) \in Nat
    BY <1>1, <1>2, <1>3
  <2>2. OutDivisor * q = OutDivisor * (q - 1) + OutDivisor
    BY <1>1, <1>2
  <2> QED BY <1>1, <2>1, <2>2
<1>5. 2 * (OutDivisor * q) <= Ratio * q
  <2>1. Ratio - 2 * OutDivisor \in Nat /\ (Ratio - 2 * OutDivisor) * q \in Nat
    BY <1>1, <1>2
  <2>2. Ratio * q = (Ratio - 2 * OutDivisor) * q + 2 * (OutDivisor * q)
    BY <1>1, <1>2
  <2>3. Ratio * q \in Nat /\ OutDivisor * q \in Nat
    BY <1>1, <1>2
  <2> QED BY <2>1, <2>2, <2>3
<1>6. Ratio * q \in Nat /\ OutDivisor * q \in Nat
  BY <1>1, <1>2
<1>7. Ratio * q >= n
  BY <1>1, <1>2, <1>4, <1>5, <1>6
<1> QED BY <1>7 DEF q

\* What the resampler yields for n frames, and what it keeps: all that is ready,
\* or as much as a long read is worth, or nothing for a short one.
LEMMA ResampledFacts ==
  ASSUME unresampled \in Int, unresampled >= -Lead, NEW n \in 1..MaxRead
  PROVE  /\ Resampled(n) \in 0..Samples
         /\ unresampled + n - Ratio * Resampled(n) >= -Lead
         /\ \/ unresampled + n - Ratio * Resampled(n) + Lead < Ratio
            \/ n >= OutDivisor /\ Ratio * Resampled(n) >= n
            \/ n < OutDivisor /\ Resampled(n) = 0
<1> DEFINE x == unresampled + n + Lead
           ready == x \div Ratio
           asked == n \div OutDivisor
           out == Resampled(n)
<1>1. /\ Ratio \in Nat \ {0} /\ OutDivisor \in Nat \ {0} /\ Samples \in Nat
      /\ Lead \in Nat /\ n \in Nat /\ MaxRead \in Nat /\ n <= MaxRead
      /\ MaxRead \div OutDivisor <= Samples
  BY BlockFacts, BlockAssumption
<1>2. x \in Nat
  BY <1>1
<1>3. ready \in Nat /\ Ratio * ready <= x /\ x < Ratio * ready + Ratio
  <2> HIDE DEF x
  <2> QED BY <1>1, <1>2, Quotient
<1>4. /\ asked \in Nat /\ OutDivisor * asked <= n
      /\ n < OutDivisor * asked + OutDivisor
  BY <1>1, Quotient
<1>5. asked <= Samples
  <2> DEFINE most == MaxRead \div OutDivisor
  <2>1. most \in Nat /\ MaxRead < OutDivisor * most + OutDivisor
    BY <1>1, Quotient
  <2> HIDE DEF most, asked
  <2>2. ASSUME asked >= most + 1 PROVE FALSE
    <3>1. asked - (most + 1) \in Nat
      BY <1>4, <2>1, <2>2
    <3>2. OutDivisor * (asked - (most + 1)) \in Nat
      BY <1>1, <3>1
    <3>3. OutDivisor * asked
            = OutDivisor * (asked - (most + 1)) + OutDivisor * most + OutDivisor
      BY <1>1, <1>4, <2>1
    <3>4. OutDivisor * asked \in Nat /\ OutDivisor * most \in Nat
      BY <1>1, <1>4, <2>1
    <3> QED BY <1>1, <1>4, <2>1, <3>2, <3>3, <3>4
  <2>3. most <= Samples
    BY <1>1 DEF most
  <2> QED BY <1>1, <1>4, <2>1, <2>2, <2>3
<1>6. out = IF ready <= asked THEN ready ELSE asked
  <2>1. out = Min({ready, asked})
    BY DEF Resampled
  <2> HIDE DEF ready, asked, out
  <2> QED BY <1>3, <1>4, <2>1, MinOfTwo
<1>7. n >= OutDivisor => Ratio * asked >= n
  BY <1>1, LongReadKeepsUp
<1>8. n < OutDivisor => asked = 0
  BY <1>1
<1> HIDE DEF x, ready, asked, out
<1>9. out \in 0..Samples
  BY <1>1, <1>3, <1>4, <1>5, <1>6
<1>10. Ratio * out \in Nat /\ Ratio * ready \in Nat
  BY <1>1, <1>3, <1>9
<1>11. Ratio * out <= x
  <2>1. ready - out \in Nat /\ Ratio * (ready - out) \in Nat
    BY <1>1, <1>3, <1>4, <1>6
  <2>2. Ratio * ready = Ratio * (ready - out) + Ratio * out
    BY <1>1, <1>3, <1>9
  <2> QED BY <1>2, <1>3, <1>10, <2>1, <2>2
<1>12. unresampled + n - Ratio * out >= -Lead
  BY <1>1, <1>10, <1>11 DEF x
<1>13. \/ unresampled + n - Ratio * out + Lead < Ratio
       \/ n >= OutDivisor /\ Ratio * out >= n
       \/ n < OutDivisor /\ out = 0
  <2>1. CASE out = ready
    <3>1. x - Ratio * out < Ratio
      BY <1>1, <1>2, <1>3, <1>10, <2>1
    <3> QED BY <1>1, <1>10, <3>1 DEF x
  <2>2. CASE out = asked
    BY <1>1, <1>7, <1>8, <2>2
  <2> QED BY <1>6, <2>1, <2>2
<1> QED BY <1>9, <1>12, <1>13 DEF out

\* What a burst has paid for it cannot pay for again: n packets of a lag within
\* the limit are no more than fit into the limit.
LEMMA BurstFits ==
  ASSUME NEW n \in Nat, n * TonePeriod <= ToneResync
  PROVE  n <= ToneResync \div TonePeriod
<1> DEFINE q == ToneResync \div TonePeriod
           p == TonePeriod
           r == ToneResync
<1>1. p \in Nat \ {0} /\ r \in Nat
  BY PeriodAssumption
<1>2. q \in Nat /\ r < (q + 1) * p
  <2>1. r = p * q + (r % p) /\ r % p \in 0..(p - 1) /\ q \in Nat
    BY <1>1
  <2>2. (q + 1) * p = p * q + p
    BY <2>1, <1>1
  <2> QED BY <2>1, <2>2, <1>1
<1>3. n >= q + 1 => n * p >= (q + 1) * p
  BY <1>1, <1>2
<1> HIDE DEF q, p, r
<1>4. n * p \in Int /\ (q + 1) * p \in Int /\ n * p <= r
  BY <1>1, <1>2 DEF p, r
<1> QED BY <1>1, <1>2, <1>3, <1>4 DEF q

-----------------------------------------------------------------------------

\* Each packet of a burst but the first, which may have been held up, has moved
\* the next one's due time on by a period; once the round has looked at the
\* clock, that packet's period is paid as well.
BurstPaid ==
  IF audioPc \in {"tone", "toneSend"}
  THEN burst > 0 => burst * TonePeriod <= toneDue + ToneResync
  ELSE burst > 1 => (burst - 1) * TonePeriod <= toneDue + ToneResync

\* A keepalive sent so many ticks ago was sent before the last look at the clock.
SentBeforeLook(ago) ==
  ago >= KeepalivePeriod \/ ago + keepaliveDue >= KeepalivePeriod

\* The keepalive before the last was sent before the last look.  Between a look
\* and its packet it is a period old, and the last was sent before that look.
KeepaliveSpaced ==
  IF audioPc \in {"keepaliveEncode", "keepaliveSend"}
  THEN keptBefore >= KeepalivePeriod /\ SentBeforeLook(keptAgo)
  ELSE SentBeforeLook(keptBefore)

AudioInv ==
  AudioTypeOK /\ BurstPaid /\ ToneCatchUpBounded /\ KeepaliveSpaced

LEMMA AudioInitInv == AudioInit => AudioInv
<1> SUFFICES ASSUME AudioInit PROVE AudioInv
  OBVIOUS
<1>1. /\ OldestTone \in OldestTone..TonePeriod
      /\ 0 \in OldestKeepalive..KeepalivePeriod
      /\ 0 \in 0..ActiveWindow /\ KeepalivePeriod \in 0..KeepalivePeriod
      /\ ToneResync \div TonePeriod \in Nat
  BY PeriodAssumption DEF OldestTone, OldestKeepalive
<1>2. /\ 0 \in 0..(Block - 1) /\ 0 \in 0..(Samples - 1) /\ 0 >= -Lead
      /\ 0 \in 0..MaxShortFrames
  BY BlockFacts, BlockAssumption
<1>3. AudioTypeOK
  <2>1. /\ toneDue \in OldestTone..TonePeriod
        /\ keepaliveDue \in OldestKeepalive..KeepalivePeriod
        /\ activeFor \in 0..ActiveWindow
        /\ keptAgo \in 0..KeepalivePeriod /\ keptBefore \in 0..KeepalivePeriod
    BY <1>1 DEF AudioInit
  <2>2. /\ speakerPos \in 0..(Block - 1) /\ hapticsPos \in 0..(Samples - 1)
        /\ shortFrames \in 0..MaxShortFrames /\ late \in BOOLEAN
        /\ unresampled \in {0} /\ unresampled >= -Lead
    BY <1>2, Zenon DEF AudioInit
  <2>3. /\ carried \in 0..3 /\ skipped \in 0..2 /\ foreign \in 0..2
        /\ blocksAhead \in Int /\ burst \in Nat
    BY DEF AudioInit
  <2> QED BY <2>1, <2>2, <2>3 DEF AudioInit, AudioTypeOK
<1>4. BurstPaid /\ ToneCatchUpBounded
  BY <1>1 DEF AudioInit, BurstPaid, ToneCatchUpBounded
<1>5. KeepaliveSpaced
  BY PeriodAssumption DEF AudioInit, KeepaliveSpaced, SentBeforeLook
<1> QED BY <1>3, <1>4, <1>5 DEF AudioInv

\* A step that neither leads from a look at a clock to a packet nor back.
PhaseKept ==
  \/ audioPc' = audioPc
  \/ /\ audioPc \in {"loop", "sleep", "keepalive"}
     /\ audioPc' \in {"loop", "sleep", "keepalive"}
  \/ audioPc = "tone" /\ audioPc' = "toneSend"
  \/ audioPc = "keepaliveEncode" /\ audioPc' = "keepaliveSend"

\* Such a step keeps the invariant if it leaves the timers alone.
LEMMA TimersUntouched ==
  ASSUME AudioInv, AudioTypeOK', PhaseKept,
         UNCHANGED <<toneDue, keepaliveDue, burst, keptAgo, keptBefore>>
  PROVE  AudioInv'
<1>1. ToneCatchUpBounded'
  BY DEF AudioInv, ToneCatchUpBounded
<1>2. BurstPaid'
  BY DEF AudioInv, BurstPaid, PhaseKept
<1>3. KeepaliveSpaced'
  BY DEF AudioInv, KeepaliveSpaced, SentBeforeLook, PhaseKept
<1> QED BY <1>1, <1>2, <1>3 DEF AudioInv

\* Fill levels, what the resampler keeps and the counters after a read.
LEMMA StreamRoundInv ==
  ASSUME AudioInv, NEW n \in 1..MaxRead, NEW encoded \in BOOLEAN,
         StreamRound(n, encoded)
  PROVE  AudioInv'
<1>1. /\ speakerPos' \in 0..(Block - 1)
      /\ hapticsPos' \in 0..(Samples - 1)
      /\ unresampled' \in Int /\ unresampled' >= -Lead
  <2>1. /\ speakerPos \in 0..(Block - 1) /\ hapticsPos \in 0..(Samples - 1)
        /\ unresampled \in Int /\ unresampled >= -Lead
    BY DEF AudioInv, AudioTypeOK
  <2>2. /\ speakerPos' = Advance(speakerPos, n, Block)
        /\ hapticsPos' = Advance(hapticsPos, Resampled(n), Samples)
        /\ unresampled' = unresampled + n - Ratio * Resampled(n)
    BY DEF StreamRound, SpeakerProc, HapticsProc, NextSpeakerPos
  <2>3. n \in 0..Block /\ Block \in Nat \ {0} /\ Samples \in Nat \ {0}
    BY BlockFacts
  <2>4. Resampled(n) \in 0..Samples
    BY <2>1, ResampledFacts
  <2>5. unresampled + n - Ratio * Resampled(n) >= -Lead
    BY <2>1, ResampledFacts
  <2>6. Ratio * Resampled(n) \in Int
    BY <2>4, BlockFacts
  <2>7. speakerPos' \in 0..(Block - 1)
    BY <2>1, <2>2, <2>3, AdvanceInBuffer
  <2>8. hapticsPos' \in 0..(Samples - 1)
    BY <2>1, <2>2, <2>3, <2>4, AdvanceInBuffer
  <2> QED BY <2>1, <2>2, <2>5, <2>6, <2>7, <2>8
<1>2. /\ speakerData' \in {"silence", "tone", "stream"}
      /\ encoderFailed' \in BOOLEAN
  BY DEF AudioInv, AudioTypeOK, StreamRound, SpeakerProc, EncodedFrame
<1>3. late' \in BOOLEAN /\ blocksAhead' \in Int
  BY DEF AudioInv, AudioTypeOK, StreamRound, LatenessHistory
<1>4. shortFrames' \in 0..MaxShortFrames
  <2>1. /\ shortFrames' = IF CaughtUp' THEN 0
                          ELSE shortFrames + (IF n < OutDivisor THEN n ELSE 0)
        /\ n < OutDivisor => shortFrames + n <= MaxShortFrames
    BY DEF StreamRound, LatenessHistory
  <2>2. shortFrames \in 0..MaxShortFrames /\ MaxShortFrames \in Nat /\ n \in Nat
    BY BlockFacts, BlockAssumption DEF AudioInv, AudioTypeOK
  <2> QED BY <2>1, <2>2
<1>5. skipped' \in 0..2
  <2>1. Min({skipped + 1, 2}) \in 0..2
    BY MinOfTwo DEF AudioInv, AudioTypeOK
  <2>2. skipped' \in {0, skipped, Min({skipped + 1, 2})}
    BY DEF StreamRound, PacketHistory
  <2> QED BY <2>1, <2>2 DEF AudioInv, AudioTypeOK
<1>6. carried' \in 0..3 /\ foreign' \in 0..2
  <2>1. \A c \in 0..4 : Min({c, 3}) \in 0..3 /\ Min({c, 2}) \in 0..2
    BY MinOfTwo
  <2>2. PICK c \in {0, carried}, s \in 0..1 : carried' = Min({c + s, 3})
    BY DEF StreamRound, PacketHistory
  <2>3. PICK f \in {0, foreign}, t \in 0..1 : foreign' = Min({f + t, 2})
    BY DEF StreamRound, PacketHistory
  <2>4. carried \in 0..3 /\ foreign \in 0..2
    BY DEF AudioInv, AudioTypeOK
  <2>5. c + s \in 0..4 /\ f + t \in 0..4
    BY <2>4
  <2> QED BY <2>1, <2>2, <2>3, <2>5
<1>7. activeFor' \in 0..ActiveWindow
  BY PeriodAssumption DEF AudioInv, AudioTypeOK, StreamRound, HapticsProc,
                          AudioPacket, NoPacket
<1>8. audioPc = "loop" /\ audioPc' = "keepalive"
  BY DEF StreamRound
<1>9. UNCHANGED <<waveOutActive, toneDue, keepaliveDue, burst, keptAgo,
                  keptBefore>>
  BY DEF StreamRound, kept
<1>10. AudioTypeOK'
  BY <1>1, <1>2, <1>3, <1>4, <1>5, <1>6, <1>7, <1>8, <1>9
     DEF AudioInv, AudioTypeOK
<1>11. PhaseKept
  BY <1>8 DEF PhaseKept
<1> QED BY <1>9, <1>10, <1>11, TimersUntouched

\* A look at the clock moves the tone's timer on and pays for the packet.
LEMMA ToneLookInv ==
  ASSUME AudioInv, ToneLook
  PROVE  AudioInv'
<1> USE PeriodAssumption
<1>1. /\ toneDue \in Int /\ toneDue <= 0 /\ toneDue >= OldestTone
      /\ toneDue' = TonePeriod + IF toneDue < -ToneResync THEN 0 ELSE toneDue
      /\ burst \in Nat /\ burst' = burst
      /\ audioPc = "loop" /\ audioPc' = "tone"
  BY DEF AudioInv, AudioTypeOK, ToneLook, NextToneDue
<1>2. toneDue' \in OldestTone..TonePeriod
  BY <1>1 DEF OldestTone
<1>3. AudioTypeOK'
  BY <1>1, <1>2 DEF AudioInv, AudioTypeOK, ToneLook, stream, kept
<1>4. burst * TonePeriod = (burst - 1) * TonePeriod + TonePeriod
  BY <1>1
<1>5. burst * TonePeriod \in Int /\ (burst - 1) * TonePeriod \in Int
  BY <1>1
<1>6. burst > 1 => (burst - 1) * TonePeriod <= toneDue + ToneResync
  BY <1>1 DEF AudioInv, BurstPaid
<1>7. burst = 1 => burst * TonePeriod = TonePeriod
  OBVIOUS
<1>8. burst > 1 => (burst - 1) * TonePeriod > 0
  <2> SUFFICES ASSUME burst > 1 PROVE (burst - 1) * TonePeriod > 0
    OBVIOUS
  <2>1. burst - 2 \in Nat /\ (burst - 2) * TonePeriod \in Nat
    BY <1>1
  <2>2. (burst - 1) * TonePeriod = (burst - 2) * TonePeriod + TonePeriod
    BY <1>1
  <2> QED BY <2>1, <2>2
<1>9. burst > 0 => burst * TonePeriod <= toneDue' + ToneResync
  BY <1>1, <1>4, <1>5, <1>6, <1>7, <1>8
<1>10. BurstPaid'
  BY <1>1, <1>9 DEF BurstPaid
<1>11. ToneCatchUpBounded' /\ KeepaliveSpaced'
  <2>1. UNCHANGED <<keepaliveDue, keptAgo, keptBefore>>
    BY DEF ToneLook, kept
  <2> QED
    BY <1>1, <2>1 DEF AudioInv, ToneCatchUpBounded, KeepaliveSpaced,
                      SentBeforeLook
<1> QED BY <1>3, <1>10, <1>11 DEF AudioInv

\* The encoder may fail on a packet that was paid for, ...
LEMMA ToneEncoderFailsInv ==
  ASSUME AudioInv, ToneEncoderFails
  PROVE  AudioInv'
<1> USE PeriodAssumption
<1>1. /\ audioPc = "tone" /\ audioPc' = "keepalive"
      /\ UNCHANGED <<waveOutActive, timers, speakerData, stream, burst, kept>>
  BY DEF ToneEncoderFails, ToneRoundEnds
<1>2. AudioTypeOK'
  BY <1>1 DEF AudioInv, AudioTypeOK, timers, stream, kept
<1>3. ToneCatchUpBounded' /\ KeepaliveSpaced'
  BY <1>1 DEF AudioInv, ToneCatchUpBounded, KeepaliveSpaced, SentBeforeLook,
              timers, kept
<1>4. BurstPaid'
  <2> SUFFICES ASSUME burst > 1
               PROVE  (burst - 1) * TonePeriod <= toneDue + ToneResync
    BY <1>1 DEF BurstPaid, timers
  <2>1. burst \in Nat /\ toneDue \in Int
    BY DEF AudioInv, AudioTypeOK
  <2>2. burst * TonePeriod <= toneDue + ToneResync
    BY <1>1, <2>1 DEF AudioInv, BurstPaid
  <2>3. /\ burst * TonePeriod = (burst - 1) * TonePeriod + TonePeriod
        /\ burst * TonePeriod \in Int /\ (burst - 1) * TonePeriod \in Int
    BY <2>1
  <2> QED BY <2>1, <2>2, <2>3
<1> QED BY <1>2, <1>3, <1>4 DEF AudioInv

\* ... and a packet that was is sent.
LEMMA ToneSendInv ==
  ASSUME AudioInv, ToneSend
  PROVE  AudioInv'
<1> USE PeriodAssumption
<1>1. /\ audioPc = "toneSend" /\ audioPc' = "keepalive"
      /\ burst' = burst + 1
      /\ UNCHANGED <<waveOutActive, timers, speakerData, stream, kept>>
  BY DEF ToneSend, ToneRoundEnds
<1>2. burst \in Nat /\ toneDue \in Int /\ toneDue <= TonePeriod
  BY DEF AudioInv, AudioTypeOK
<1>3. AudioTypeOK'
  BY <1>1, <1>2 DEF AudioInv, AudioTypeOK, timers, stream, kept
<1>4. burst > 0 => burst * TonePeriod <= toneDue + ToneResync
  BY <1>1 DEF AudioInv, BurstPaid
<1>5. BurstPaid'
  <2>1. burst' - 1 = burst /\ (burst' > 1 <=> burst > 0)
    BY <1>1, <1>2
  <2> QED BY <1>1, <1>4, <2>1 DEF BurstPaid, timers
<1>6. ToneCatchUpBounded'
  <2>1. ToneResync \div TonePeriod \in Nat
    OBVIOUS
  <2>2. CASE burst <= 1
    BY <1>1, <1>2, <2>1, <2>2 DEF ToneCatchUpBounded
  <2>3. CASE burst > 1
    <3>1. burst - 1 \in Nat
      BY <1>2, <2>3
    <3>2. burst * TonePeriod = (burst - 1) * TonePeriod + TonePeriod
      BY <1>2
    <3>3. burst * TonePeriod \in Int /\ (burst - 1) * TonePeriod \in Int
      BY <1>2
    <3>4. (burst - 1) * TonePeriod <= ToneResync
      BY <1>2, <1>4, <2>3, <3>2, <3>3
    <3>5. burst - 1 <= ToneResync \div TonePeriod
      BY <3>1, <3>4, BurstFits
    <3> QED BY <1>1, <1>2, <2>1, <3>5 DEF ToneCatchUpBounded
  <2> QED BY <1>2, <2>2, <2>3
<1>7. KeepaliveSpaced'
  BY <1>1 DEF AudioInv, KeepaliveSpaced, SentBeforeLook, timers, kept
<1> QED BY <1>3, <1>5, <1>6, <1>7 DEF AudioInv

\* A look of the keepalive: the timer moves on, sent or not; ...
LEMMA KeepaliveLookInv ==
  ASSUME AudioInv, KeepaliveLook
  PROVE  AudioInv'
<1> USE PeriodAssumption
<1>1. /\ keepaliveDue' = KeepalivePeriod /\ keepaliveDue <= 0
      /\ audioPc = "keepalive" /\ audioPc' = "keepaliveEncode"
      /\ UNCHANGED <<toneDue, burst, keptAgo, keptBefore>>
  BY DEF KeepaliveLook, NextKeepaliveDue, kept
<1>2. /\ keptAgo \in 0..KeepalivePeriod /\ keptBefore \in 0..KeepalivePeriod
      /\ keepaliveDue \in Int
  BY DEF AudioInv, AudioTypeOK
<1>3. AudioTypeOK'
  BY <1>1 DEF AudioInv, AudioTypeOK, KeepaliveLook, OldestKeepalive, stream,
              kept
<1>4. KeepaliveSpaced'
  <2>1. SentBeforeLook(keptBefore)
    BY <1>1 DEF AudioInv, KeepaliveSpaced
  <2>2. keptBefore >= KeepalivePeriod
    BY <1>1, <1>2, <2>1 DEF SentBeforeLook
  <2>3. SentBeforeLook(keptAgo)'
    BY <1>1, <1>2 DEF SentBeforeLook
  <2> QED BY <1>1, <2>2, <2>3 DEF KeepaliveSpaced
<1>5. BurstPaid' /\ ToneCatchUpBounded'
  BY <1>1 DEF AudioInv, BurstPaid, ToneCatchUpBounded
<1> QED BY <1>3, <1>4, <1>5 DEF AudioInv

\* ... and what follows a look.
LEMMA KeepaliveEndsInv ==
  ASSUME AudioInv, KeepaliveSkipped \/ KeepaliveSend
  PROVE  AudioInv'
<1> USE PeriodAssumption
<1>1. /\ audioPc \in {"keepaliveEncode", "keepaliveSend"} /\ audioPc' = "loop"
      /\ UNCHANGED <<waveOutActive, timers, speakerData, stream, burst>>
      /\ \/ UNCHANGED <<keptAgo, keptBefore>>
         \/ keptAgo' = 0 /\ keptBefore' = keptAgo
  BY DEF KeepaliveSkipped, KeepaliveSend, kept
<1>2. /\ keptAgo \in 0..KeepalivePeriod /\ keptBefore \in 0..KeepalivePeriod
      /\ 0 \in 0..KeepalivePeriod
  BY DEF AudioInv, AudioTypeOK
<1>3. AudioTypeOK'
  BY <1>1, <1>2 DEF AudioInv, AudioTypeOK, timers, stream
<1>4. keptBefore >= KeepalivePeriod /\ SentBeforeLook(keptAgo)
  BY <1>1 DEF AudioInv, KeepaliveSpaced
<1>5. KeepaliveSpaced'
  BY <1>1, <1>4 DEF KeepaliveSpaced, SentBeforeLook, timers
<1>6. BurstPaid' /\ ToneCatchUpBounded'
  BY <1>1 DEF AudioInv, BurstPaid, ToneCatchUpBounded, timers
<1> QED BY <1>3, <1>5, <1>6 DEF AudioInv

\* Time passes: a burst is over, and keepalives age as they come due.
LEMMA AudioTickInv ==
  ASSUME AudioInv, AudioTick
  PROVE  AudioInv'
<1> USE PeriodAssumption
<1>1. /\ toneDue \in OldestTone..TonePeriod
      /\ keepaliveDue \in OldestKeepalive..KeepalivePeriod
      /\ activeFor \in 0..ActiveWindow
      /\ keptAgo \in 0..KeepalivePeriod /\ keptBefore \in 0..KeepalivePeriod
      /\ OldestTone \in Int /\ OldestTone <= 0
      /\ OldestKeepalive \in Int /\ OldestKeepalive <= 0
  BY DEF AudioInv, AudioTypeOK, OldestTone, OldestKeepalive
<1>2. /\ toneDue' = IF toneDue - 1 >= OldestTone THEN toneDue - 1 ELSE OldestTone
      /\ keepaliveDue' = IF keepaliveDue - 1 >= OldestKeepalive
                         THEN keepaliveDue - 1 ELSE OldestKeepalive
      /\ activeFor' = IF activeFor - 1 >= 0 THEN activeFor - 1 ELSE 0
    BY <1>1, MaxOfTwo DEF AudioTick
<1>3. \A age \in 0..KeepalivePeriod :
         Min({age + 1, KeepalivePeriod})
           = IF age + 1 <= KeepalivePeriod THEN age + 1 ELSE KeepalivePeriod
  BY MinOfTwo
<1>4. /\ keptAgo' = IF keptAgo + 1 <= KeepalivePeriod
                    THEN keptAgo + 1 ELSE KeepalivePeriod
      /\ keptBefore' = IF keptBefore + 1 <= KeepalivePeriod
                       THEN keptBefore + 1 ELSE KeepalivePeriod
      /\ burst' = 0 /\ audioPc' = audioPc
  BY <1>1, <1>3 DEF AudioTick
<1>5. /\ toneDue' \in OldestTone..TonePeriod
      /\ keepaliveDue' \in OldestKeepalive..KeepalivePeriod
      /\ activeFor' \in 0..ActiveWindow
      /\ keptAgo' \in 0..KeepalivePeriod /\ keptBefore' \in 0..KeepalivePeriod
  BY <1>1, <1>2, <1>4
<1>6. AudioTypeOK'
  BY <1>4, <1>5 DEF AudioInv, AudioTypeOK, AudioTick, stream
<1>7. \/ keepaliveDue' = keepaliveDue - 1
      \/ keepaliveDue = OldestKeepalive /\ keepaliveDue' = keepaliveDue
  BY <1>1, <1>2
<1>8. /\ SentBeforeLook(keptAgo) => SentBeforeLook(keptAgo)'
      /\ SentBeforeLook(keptBefore) => SentBeforeLook(keptBefore)'
  BY <1>1, <1>4, <1>7 DEF SentBeforeLook
<1>9. keptBefore >= KeepalivePeriod => keptBefore' >= KeepalivePeriod
  BY <1>1, <1>4
<1>10. KeepaliveSpaced'
  BY <1>4, <1>8, <1>9 DEF AudioInv, KeepaliveSpaced
<1>11. BurstPaid' /\ ToneCatchUpBounded'
  <2>1. ToneResync \div TonePeriod \in Nat
    OBVIOUS
  <2> QED BY <1>4, <2>1 DEF BurstPaid, ToneCatchUpBounded
<1> QED BY <1>6, <1>10, <1>11 DEF AudioInv

LEMMA AudioStepInv == AudioInv /\ [AudioNext]_audioVars => AudioInv'
<1> SUFFICES ASSUME AudioInv, [AudioNext]_audioVars PROVE AudioInv'
  OBVIOUS
<1>1. CASE \E n \in 1..MaxRead, encoded \in BOOLEAN : StreamRound(n, encoded)
  BY <1>1, StreamRoundInv
<1>2. CASE ToneLook
  BY <1>2, ToneLookInv
<1>3. CASE ToneEncoderFails
  BY <1>3, ToneEncoderFailsInv
<1>4. CASE ToneSend
  BY <1>4, ToneSendInv
<1>5. CASE KeepaliveLook
  BY <1>5, KeepaliveLookInv
<1>6. CASE KeepaliveSkipped \/ KeepaliveSend
  BY <1>6, KeepaliveEndsInv
<1>7. CASE AudioTick
  BY <1>7, AudioTickInv
<1>8. CASE EmptyRound \/ ToneSleep \/ ToneWake \/ KeepaliveNotDue
  <2>1. /\ audioPc \in {"loop", "sleep", "keepalive"}
        /\ audioPc' \in {"loop", "sleep", "keepalive"}
        /\ UNCHANGED <<waveOutActive, timers, speakerData, stream, burst, kept>>
    BY <1>8 DEF EmptyRound, ToneSleep, ToneWake, ToneRoundEnds, KeepaliveNotDue
  <2>2. AudioTypeOK'
    BY <2>1 DEF AudioInv, AudioTypeOK, timers, stream, kept
  <2>3. UNCHANGED <<toneDue, keepaliveDue, burst, keptAgo, keptBefore>>
    BY <2>1 DEF timers, kept
  <2>4. PhaseKept
    BY <2>1 DEF PhaseKept
  <2> QED BY <2>2, <2>3, <2>4, TimersUntouched
<1>9. CASE ToneEncode \/ KeepaliveEncode
  <2>1. /\ \/ audioPc = "tone" /\ audioPc' = "toneSend"
           \/ audioPc = "keepaliveEncode" /\ audioPc' = "keepaliveSend"
        /\ speakerData' \in {"tone", "silence"} /\ carried' = 0
        /\ activeFor' = activeFor \/ activeFor' = ActiveWindow
        /\ UNCHANGED <<waveOutActive, toneDue, keepaliveDue, speakerPos,
                       hapticsPos, unresampled, shortFrames, late,
                       encoderFailed, skipped, foreign, blocksAhead, burst,
                       keptAgo, keptBefore>>
    BY <1>9 DEF ToneEncode, KeepaliveEncode, AudioPacket, timers, kept
  <2>2. activeFor' \in 0..ActiveWindow
    BY <2>1, PeriodAssumption DEF AudioInv, AudioTypeOK
  <2>3. AudioTypeOK'
    BY <2>1, <2>2 DEF AudioInv, AudioTypeOK
  <2>4. PhaseKept
    BY <2>1 DEF PhaseKept
  <2> QED BY <2>1, <2>3, <2>4, TimersUntouched
<1>10. CASE \E enabled \in BOOLEAN : SetWaveOut(enabled)
  <2>1. /\ waveOutActive' \in BOOLEAN
        /\ UNCHANGED <<audioPc, timers, speakerData, stream, burst, kept>>
    BY <1>10 DEF SetWaveOut
  <2>2. AudioTypeOK'
    BY <2>1 DEF AudioInv, AudioTypeOK, timers, stream, kept
  <2>3. UNCHANGED <<toneDue, keepaliveDue, burst, keptAgo, keptBefore>>
    BY <2>1 DEF timers, kept
  <2>4. PhaseKept
    BY <2>1 DEF PhaseKept
  <2> QED BY <2>2, <2>3, <2>4, TimersUntouched
<1>11. CASE UNCHANGED audioVars
  <2>1. AudioTypeOK'
    BY <1>11 DEF AudioInv, AudioTypeOK, audioVars, timers, stream, kept
  <2>2. UNCHANGED <<toneDue, keepaliveDue, burst, keptAgo, keptBefore>>
    BY <1>11 DEF audioVars, timers, kept
  <2>3. PhaseKept
    BY <1>11 DEF PhaseKept, audioVars
  <2> QED BY <2>1, <2>2, <2>3, TimersUntouched
<1> QED
  BY <1>1, <1>2, <1>3, <1>4, <1>5, <1>6, <1>7, <1>8, <1>9, <1>10, <1>11
     DEF AudioNext, AudioStep

THEOREM AudioInvariance == AudioSpec => []AudioInv
<1> QED BY AudioInitInv, AudioStepInv, PTL DEF AudioSpec

\* After a stall of any length waveout_proc makes up for at most 100 ms at
\* once, and one packet more if one was held up between its look at the clock
\* and its send, for all periods and limits.
THEOREM CatchUpBounded == AudioSpec => []ToneCatchUpBounded
<1>1. AudioInv => ToneCatchUpBounded
  BY DEF AudioInv
<1> QED BY <1>1, AudioInvariance, PTL

\* Of three packets of mic_keepalive_proc in a row the first and the last are
\* never less than a period apart, wherever the thread is held up.
THEOREM KeepalivesAlwaysSpaced == AudioSpec => KeepalivesSpaced
<1>1. AudioInv /\ [AudioNext]_audioVars
        => [KeepaliveSend => keptBefore >= KeepalivePeriod]_audioVars
  BY DEF KeepaliveSend, AudioInv, KeepaliveSpaced
<1> QED BY <1>1, AudioInvariance, PTL DEF AudioSpec, KeepalivesSpaced

-----------------------------------------------------------------------------
(* Speaker, haptics and the one buffer between them.                       *)

\* The frames the resampler has kept are those the speaker has got and the
\* haptics have not; they are more than a sample's only by what short reads have
\* brought since the haptics had last caught up.
Drift ==
  /\ unresampled = blocksAhead * Block + speakerPos - Ratio * hapticsPos
  /\ unresampled + Lead < Ratio + shortFrames
  /\ CaughtUp => shortFrames = 0
  /\ late \/ CaughtUp

\* What the packets sent so far have carried, by where in the block we are.  A
\* frame no packet has carried yet is followed by one that the packet of its own
\* round carries, since a whole block lies between the two.
FollowInv ==
  /\ Drift
  /\ encoderFailed \/ late \/ carried <= 1 - blocksAhead
  /\ encoderFailed \/ late \/ foreign <= -blocksAhead
  /\ speakerData = "stream" => foreign = 0
  /\ speakerData = "stream" /\ carried = 0 /\ ~late
       => blocksAhead = 0 /\ skipped = 0
  /\ late => skipped = 0
  /\ skipped <= 1

\* Haptics are early by at most one packet, and behind only by short reads.
BlocksBounded ==
  /\ blocksAhead >= -1
  /\ (blocksAhead - 1) * Block < shortFrames - Lead
  /\ CaughtUp => blocksAhead \in {-1, 0}

\* That is what the balance of Drift means in blocks.
LEMMA DriftBounds ==
  ASSUME AudioTypeOK, Drift
  PROVE  BlocksBounded
<1> DEFINE p == Ratio * hapticsPos
<1>1. /\ Block \in Nat \ {0} /\ Ratio \in Nat \ {0} /\ Samples \in Nat \ {0}
      /\ Lead \in Nat /\ Lead < Ratio /\ Ratio <= Block
      /\ Block = Ratio * Samples
      /\ blocksAhead \in Int /\ speakerPos \in Nat /\ speakerPos <= Block - 1
      /\ hapticsPos \in Nat /\ hapticsPos <= Samples - 1
      /\ unresampled \in Int /\ unresampled >= -Lead /\ shortFrames \in Nat
  BY BlockFacts DEF AudioTypeOK
<1>2. p \in Nat /\ p <= Block - Ratio
  <2>1. /\ Samples - 1 - hapticsPos \in Nat
        /\ Ratio * (Samples - 1 - hapticsPos) \in Nat
    BY <1>1
  <2>2. Ratio * Samples = Ratio * (Samples - 1 - hapticsPos) + p + Ratio
    BY <1>1
  <2>3. p \in Nat
    BY <1>1
  <2> HIDE DEF p
  <2> QED BY <1>1, <2>1, <2>2, <2>3
<1> DEFINE b == blocksAhead * Block
<1>3. unresampled = b + speakerPos - p /\ unresampled + Lead < Ratio + shortFrames
  BY DEF Drift
<1>4. b \in Int
  BY <1>1
<1>5. (blocksAhead - 1) * Block = b - Block
  BY <1>1
<1>6. b > -(2 * Block) /\ b - Block < shortFrames - Lead
  <2> HIDE DEF b, p
  <2> QED BY <1>1, <1>2, <1>3, <1>4
<1>7. blocksAhead >= -1
  <2> SUFFICES ASSUME blocksAhead <= -2 PROVE FALSE
    BY <1>1
  <2>1. -2 - blocksAhead \in Nat /\ (-2 - blocksAhead) * Block \in Nat
    BY <1>1
  <2>2. (-2 - blocksAhead) * Block = -(2 * Block) - b
    BY <1>1
  <2> HIDE DEF b
  <2> QED BY <1>1, <1>4, <1>6, <2>1, <2>2
<1>8. CaughtUp => blocksAhead <= 0
  <2> SUFFICES ASSUME CaughtUp, blocksAhead >= 1 PROVE FALSE
    BY <1>1
  <2>1. shortFrames = 0
    BY DEF Drift
  <2>2. blocksAhead - 1 \in Nat /\ (blocksAhead - 1) * Block \in Nat
    BY <1>1
  <2> HIDE DEF b
  <2> QED BY <1>1, <1>4, <1>5, <1>6, <2>1, <2>2
<1> QED BY <1>1, <1>5, <1>6, <1>7, <1>8 DEF BlocksBounded

LEMMA DriftBoundsNext == AudioTypeOK' /\ Drift' => BlocksBounded'
<1>1. AudioTypeOK /\ Drift => BlocksBounded
  BY DriftBounds
<1> QED BY <1>1, PTL

\* A read moves both sides of the balance by the same frames.
LEMMA DriftKept ==
  ASSUME AudioInv, Drift, NEW n \in 1..MaxRead, NEW encoded \in BOOLEAN,
         StreamRound(n, encoded)
  PROVE  Drift'
<1> DEFINE A == IF SpeakerCompletes(n) THEN 1 ELSE 0
           C == IF HapticsComplete(n) THEN 1 ELSE 0
           out == Resampled(n)
<1>1. /\ Block \in Nat \ {0} /\ Ratio \in Nat \ {0} /\ Samples \in Nat \ {0}
      /\ Block = Ratio * Samples /\ Lead \in Nat /\ n \in 0..Block
      /\ speakerPos \in 0..(Block - 1) /\ hapticsPos \in 0..(Samples - 1)
      /\ unresampled \in Int /\ unresampled >= -Lead
      /\ blocksAhead \in Int /\ shortFrames \in Nat
  BY BlockFacts DEF AudioInv, AudioTypeOK
<1>2. /\ out \in 0..Samples
      /\ \/ unresampled + n - Ratio * out + Lead < Ratio
         \/ n >= OutDivisor /\ Ratio * out >= n
         \/ n < OutDivisor /\ out = 0
  BY <1>1, ResampledFacts
<1>3. /\ speakerPos' = Advance(speakerPos, n, Block)
      /\ hapticsPos' = Advance(hapticsPos, out, Samples)
      /\ unresampled' = unresampled + n - Ratio * out
      /\ blocksAhead' = blocksAhead + A - C
      /\ shortFrames' = IF CaughtUp' THEN 0
                        ELSE shortFrames + (IF n < OutDivisor THEN n ELSE 0)
      /\ late' = (~CaughtUp' \/ (late /\ ~SpeakerCompletes(n)))
  BY DEF StreamRound, SpeakerProc, HapticsProc, LatenessHistory, NextSpeakerPos
<1>4. speakerPos' = speakerPos + n - A * Block
  <2>1. speakerPos' = speakerPos + n
                        - (IF speakerPos + n >= Block THEN Block ELSE 0)
    BY <1>1, <1>3, AdvanceInBuffer
  <2> QED BY <1>1, <2>1 DEF SpeakerCompletes
<1>5. hapticsPos' = hapticsPos + out - C * Samples
  <2>1. hapticsPos' = hapticsPos + out
                        - (IF hapticsPos + out >= Samples THEN Samples ELSE 0)
    BY <1>1, <1>2, <1>3, AdvanceInBuffer
  <2> QED BY <1>1, <1>2, <2>1 DEF HapticsComplete
<1>6. A \in {0, 1} /\ C \in {0, 1}
  OBVIOUS
<1> HIDE DEF A, C, out
<1>7. unresampled' = blocksAhead' * Block + speakerPos' - Ratio * hapticsPos'
  <2>1. Ratio * hapticsPos' = Ratio * hapticsPos + Ratio * out - C * Block
    <3>1. Ratio * hapticsPos'
            = Ratio * hapticsPos + Ratio * out - Ratio * (C * Samples)
      BY <1>1, <1>2, <1>5, <1>6
    <3>2. Ratio * (C * Samples) = C * Block
      BY <1>1, <1>6
    <3> QED BY <3>1, <3>2
  <2>2. blocksAhead' * Block = blocksAhead * Block + A * Block - C * Block
    BY <1>1, <1>3, <1>6
  <2>3. unresampled = blocksAhead * Block + speakerPos - Ratio * hapticsPos
    BY DEF Drift
  <2>4. /\ blocksAhead * Block \in Int /\ A * Block \in Int /\ C * Block \in Int
        /\ Ratio * hapticsPos \in Int /\ Ratio * out \in Int
    BY <1>1, <1>2, <1>6
  <2> QED BY <1>1, <1>3, <1>4, <2>1, <2>2, <2>3, <2>4
<1>8. unresampled' + Lead < Ratio + shortFrames'
  <2>1. CASE CaughtUp'
    BY <1>1, <1>3, <2>1 DEF CaughtUp
  <2>2. CASE ~CaughtUp'
    <3>1. Ratio * out \in Int /\ unresampled + Lead < Ratio + shortFrames
      BY <1>1, <1>2 DEF Drift
    <3>2. ~(unresampled + n - Ratio * out + Lead < Ratio)
      BY <1>3, <2>2 DEF CaughtUp
    <3>3. CASE n >= OutDivisor /\ Ratio * out >= n
      <4>1. OutDivisor \in Nat
        BY BlockAssumption
      <4>2. shortFrames' = shortFrames
        BY <1>1, <1>3, <2>2, <3>3, <4>1
      <4> QED BY <1>1, <1>3, <3>1, <3>3, <4>2
    <3>4. CASE n < OutDivisor /\ out = 0
      <4>1. shortFrames' = shortFrames + n /\ Ratio * out = 0
        BY <1>1, <1>3, <2>2, <3>4
      <4> QED BY <1>1, <1>3, <3>1, <4>1
    <3> QED BY <1>2, <3>2, <3>3, <3>4
  <2> QED BY <2>1, <2>2
<1>9. (CaughtUp' => shortFrames' = 0) /\ (late' \/ CaughtUp')
  BY <1>3
<1> QED BY <1>7, <1>8, <1>9 DEF Drift, CaughtUp

\* Where a read leaves the two while the haptics keep up.
LEMMA BlocksAfterRound ==
  ASSUME AudioInv, Drift, NEW n \in 1..MaxRead, NEW encoded \in BOOLEAN,
         StreamRound(n, encoded)
  PROVE  /\ blocksAhead \in Int /\ blocksAhead >= -1 /\ blocksAhead' >= -1
         /\ blocksAhead' = blocksAhead + (IF SpeakerCompletes(n) THEN 1 ELSE 0)
                                       - (IF HapticsComplete(n) THEN 1 ELSE 0)
         /\ ~late => blocksAhead \in {-1, 0}
         /\ ~late' => blocksAhead' \in {-1, 0}
         /\ late' = (~CaughtUp' \/ (late /\ ~SpeakerCompletes(n)))
<1>1. AudioTypeOK /\ AudioTypeOK'
  BY StreamRoundInv DEF AudioInv
<1>2. Drift'
  BY DriftKept
<1>3. blocksAhead >= -1 /\ (CaughtUp => blocksAhead \in {-1, 0})
  BY <1>1, DriftBounds DEF BlocksBounded
<1>4. blocksAhead' >= -1 /\ (CaughtUp' => blocksAhead' \in {-1, 0})
  BY <1>1, <1>2, DriftBoundsNext DEF BlocksBounded, CaughtUp
<1>5. (late \/ CaughtUp) /\ (late' \/ CaughtUp')
  BY <1>2 DEF Drift, CaughtUp
<1>6. /\ blocksAhead' = blocksAhead + (IF SpeakerCompletes(n) THEN 1 ELSE 0)
                                    - (IF HapticsComplete(n) THEN 1 ELSE 0)
      /\ late' = (~CaughtUp' \/ (late /\ ~SpeakerCompletes(n)))
  BY DEF StreamRound, LatenessHistory
<1>7. blocksAhead \in Int
  BY <1>1 DEF AudioTypeOK
<1> QED BY <1>3, <1>4, <1>5, <1>6, <1>7

\* What a round of the stream does to the counters: a packet of the round carries
\* either the stream's frame or a foreign one.
LEMMA PacketCounters ==
  ASSUME AudioInv, NEW n \in 1..MaxRead, NEW encoded \in BOOLEAN,
         StreamRound(n, encoded),
         NEW c, c = IF encoded THEN 0 ELSE carried,
         NEW f, f = IF speakerData' = "stream" THEN 0 ELSE foreign
  PROVE  /\ HapticsComplete(n) /\ speakerData' = "stream"
              => carried' = (IF c + 1 <= 3 THEN c + 1 ELSE 3) /\ foreign' = f
         /\ HapticsComplete(n) /\ speakerData' # "stream"
              => carried' = c /\ foreign' = (IF f + 1 <= 2 THEN f + 1 ELSE 2)
         /\ ~HapticsComplete(n) => carried' = c /\ foreign' = f
<1>1. /\ c \in 0..3 /\ f \in 0..2
      /\ speakerData' \in {"silence", "tone", "stream"}
  BY DEF AudioInv, AudioTypeOK, StreamRound, SpeakerProc, EncodedFrame
<1> DEFINE s == IF HapticsComplete(n) /\ speakerData' \in {"stream"}
                THEN 1 ELSE 0
           t == IF HapticsComplete(n) /\ speakerData' \in {"tone", "silence"}
                THEN 1 ELSE 0
<1>2. carried' = Min({c + s, 3}) /\ foreign' = Min({f + t, 2})
  BY DEF StreamRound, PacketHistory
<1>3. s \in 0..1 /\ t \in 0..1
  OBVIOUS
<1>4. /\ HapticsComplete(n) /\ speakerData' = "stream" => s = 1 /\ t = 0
      /\ HapticsComplete(n) /\ speakerData' # "stream" => s = 0 /\ t = 1
      /\ ~HapticsComplete(n) => s = 0 /\ t = 0
  BY <1>1
<1> HIDE DEF s, t
<1>5. /\ carried' = IF c + s <= 3 THEN c + s ELSE 3
      /\ foreign' = IF f + t <= 2 THEN f + t ELSE 2
  <2>1. c + s \in Int /\ f + t \in Int
    BY <1>1, <1>3
  <2> QED BY <1>2, <2>1, MinOfTwo
<1> QED BY <1>1, <1>4, <1>5

\* What it does to the frames that were lost in a row.
LEMMA SkippedCounter ==
  ASSUME AudioInv, FollowInv, NEW n \in 1..MaxRead, NEW encoded \in BOOLEAN,
         StreamRound(n, encoded)
  PROVE  /\ late' => skipped' = 0
         /\ ~late' /\ ~encoded => skipped' = skipped
         /\ encoded /\ ~(speakerData = "stream" /\ carried = 0 /\ ~late)
              => skipped' = 0
         /\ skipped' <= 1
<1> DEFINE lost == speakerData = "stream" /\ carried = 0 /\ ~late
<1>1. skipped' = IF late' \/ (encoded /\ ~lost) THEN 0
                 ELSE IF encoded THEN Min({skipped + 1, 2}) ELSE skipped
  BY DEF StreamRound, PacketHistory
<1>2. skipped \in 0..2 /\ skipped <= 1 /\ (lost => skipped = 0)
  BY DEF AudioInv, AudioTypeOK, FollowInv
<1>3. Min({0 + 1, 2}) = 1
  BY MinOfTwo
<1> HIDE DEF lost
<1>4. skipped' <= 1
  BY <1>1, <1>2, <1>3
<1> QED BY <1>1, <1>4 DEF lost

\* A round of the stream keeps FollowInv: with the block encoded, ...
LEMMA EncodedRound ==
  ASSUME AudioInv, FollowInv, NEW n \in 1..MaxRead, StreamRound(n, TRUE)
  PROVE  FollowInv'
<1> DEFINE C == HapticsComplete(n)
<1>1. SpeakerCompletes(n) /\ Drift /\ TRUE \in BOOLEAN
  BY DEF StreamRound, FollowInv
<1>2. /\ blocksAhead \in Int /\ blocksAhead >= -1 /\ blocksAhead' >= -1
      /\ blocksAhead' = blocksAhead + 1 - (IF C THEN 1 ELSE 0)
      /\ ~late => blocksAhead \in {-1, 0}
      /\ ~late' => blocksAhead' \in {-1, 0}
  BY <1>1, BlocksAfterRound
<1>3. Drift'
  BY <1>1, DriftKept
<1>4. speakerData' = "stream" /\ encoderFailed' = FALSE
  BY <1>1 DEF StreamRound, SpeakerProc, EncodedFrame
<1>5. carried' = (IF C THEN 1 ELSE 0) /\ foreign' = 0
  <2>1. /\ C => carried' = (IF 0 + 1 <= 3 THEN 0 + 1 ELSE 3) /\ foreign' = 0
        /\ ~C => carried' = 0 /\ foreign' = 0
    <3>1. /\ TRUE \in BOOLEAN
          /\ 0 = IF TRUE THEN 0 ELSE carried
          /\ 0 = IF speakerData' = "stream" THEN 0 ELSE foreign
      BY <1>4
    <3> QED BY <1>4, <3>1, PacketCounters, Zenon
  <2> QED BY <2>1
<1>6. /\ late' => skipped' = 0
      /\ ~(speakerData = "stream" /\ carried = 0 /\ ~late) => skipped' = 0
      /\ skipped' <= 1
  BY <1>1, SkippedCounter
<1> HIDE DEF C
<1>7. late' \/ (carried' <= 1 - blocksAhead' /\ foreign' <= -blocksAhead')
  BY <1>2, <1>5
<1>8. carried' = 0 /\ ~late' => blocksAhead' = 0 /\ skipped' = 0
  <2> SUFFICES ASSUME carried' = 0, ~late'
               PROVE  blocksAhead' = 0 /\ skipped' = 0
    OBVIOUS
  <2>1. ~C
    BY <1>5
  <2>2. blocksAhead = -1 /\ blocksAhead' = 0
    BY <1>2, <2>1
  <2>3. ~(speakerData = "stream" /\ carried = 0 /\ ~late)
    BY <2>2 DEF FollowInv
  <2> QED BY <1>6, <2>2, <2>3
<1> QED BY <1>3, <1>4, <1>5, <1>6, <1>7, <1>8 DEF FollowInv

\* ... and without.
LEMMA UnencodedRound ==
  ASSUME AudioInv, FollowInv, NEW n \in 1..MaxRead, StreamRound(n, FALSE)
  PROVE  FollowInv'
<1> DEFINE A == SpeakerCompletes(n)
           C == HapticsComplete(n)
<1>1. Drift' /\ Drift /\ FALSE \in BOOLEAN
  BY DriftKept DEF FollowInv
<1>2. /\ blocksAhead \in Int /\ blocksAhead >= -1 /\ blocksAhead' >= -1
      /\ blocksAhead' = blocksAhead + (IF A THEN 1 ELSE 0) - (IF C THEN 1 ELSE 0)
      /\ ~late => blocksAhead \in {-1, 0}
      /\ ~late' => blocksAhead' \in {-1, 0}
      /\ ~A /\ late => late'
  BY <1>1, BlocksAfterRound
<1>3. /\ speakerData' = speakerData
      /\ encoderFailed' = IF A THEN TRUE ELSE encoderFailed
      /\ encoderFailed \in BOOLEAN /\ late \in BOOLEAN
  BY DEF StreamRound, SpeakerProc, EncodedFrame, AudioInv, AudioTypeOK
<1>4. /\ carried \in 0..3 /\ foreign \in 0..2
      /\ carried' = IF C /\ speakerData = "stream"
                    THEN IF carried + 1 <= 3 THEN carried + 1 ELSE 3
                    ELSE carried
      /\ foreign' = IF speakerData = "stream" THEN 0
                    ELSE IF C THEN IF foreign + 1 <= 2 THEN foreign + 1 ELSE 2
                    ELSE foreign
  BY <1>3, PacketCounters DEF AudioInv, AudioTypeOK
<1>5. /\ late' => skipped' = 0
      /\ ~late' => skipped' = skipped
      /\ skipped' <= 1
  BY <1>1, SkippedCounter
<1> HIDE DEF A, C
<1>6. speakerData' = "stream" => foreign' = 0
  BY <1>3, <1>4
<1>7. /\ encoderFailed' \/ late' \/ carried' <= 1 - blocksAhead'
      /\ encoderFailed' \/ late' \/ foreign' <= -blocksAhead'
  <2>1. CASE A
    BY <1>3, <2>1
  <2>2. CASE ~A
    <3> SUFFICES ASSUME ~encoderFailed', ~late'
                 PROVE  carried' <= 1 - blocksAhead' /\ foreign' <= -blocksAhead'
      OBVIOUS
    <3>1. ~encoderFailed /\ ~late
      BY <1>2, <1>3, <2>2
    <3>2. carried <= 1 - blocksAhead /\ foreign <= -blocksAhead
      BY <3>1 DEF FollowInv
    <3>3. blocksAhead' = blocksAhead - (IF C THEN 1 ELSE 0)
      BY <1>2, <2>2
    <3>4. carried' <= 1 - blocksAhead'
      BY <1>2, <1>4, <3>2, <3>3
    <3>5. foreign' <= -blocksAhead'
      BY <1>2, <1>4, <3>2, <3>3
    <3> QED BY <3>4, <3>5
  <2> QED BY <2>1, <2>2
<1>8. speakerData' = "stream" /\ carried' = 0 /\ ~late'
        => blocksAhead' = 0 /\ skipped' = 0
  <2> SUFFICES ASSUME speakerData = "stream", carried' = 0, ~late'
               PROVE  blocksAhead' = 0 /\ skipped' = 0
    BY <1>3
  <2>1. ~C /\ carried = 0 /\ skipped' = skipped
    BY <1>4, <1>5
  <2>2. ~late => blocksAhead = 0 /\ skipped = 0
    BY <2>1 DEF FollowInv
  <2>3. CASE ~late
    BY <1>2, <2>1, <2>2, <2>3
  <2>4. CASE late
    <3>1. A /\ skipped = 0
      BY <1>2, <2>4 DEF FollowInv
    <3>2. blocksAhead' = blocksAhead + 1
      BY <1>2, <2>1, <3>1
    <3> QED BY <1>2, <2>1, <3>1, <3>2
  <2> QED BY <2>3, <2>4
<1> QED BY <1>1, <1>5, <1>6, <1>7, <1>8 DEF FollowInv

LEMMA FollowInitInv == AudioInit => FollowInv
<1> SUFFICES ASSUME AudioInit PROVE FollowInv
  OBVIOUS
<1>1. CaughtUp
  BY BlockFacts DEF AudioInit, CaughtUp
<1>2. Drift
  <2>1. 0 = 0 * Block + 0 - Ratio * 0
    BY BlockFacts
  <2>2. unresampled = blocksAhead * Block + speakerPos - Ratio * hapticsPos
    BY <2>1 DEF AudioInit
  <2>3. 0 + Lead < Ratio + 0
    BY BlockFacts
  <2> QED BY <1>1, <2>2, <2>3 DEF AudioInit, Drift
<1> QED BY <1>2 DEF AudioInit, FollowInv

LEMMA FollowStepInv ==
  AudioInv /\ FollowInv /\ [AudioNext]_audioVars => FollowInv'
<1> SUFFICES ASSUME AudioInv, FollowInv, [AudioNext]_audioVars PROVE FollowInv'
  OBVIOUS
<1>1. CASE \E n \in 1..MaxRead, encoded \in BOOLEAN : StreamRound(n, encoded)
  BY <1>1, EncodedRound, UnencodedRound
<1>2. CASE ToneEncode \/ KeepaliveEncode
  <2>1. /\ UNCHANGED <<speakerPos, hapticsPos, unresampled, shortFrames, late,
                       encoderFailed, skipped, foreign, blocksAhead>>
        /\ speakerData' # "stream" /\ carried' = 0
    BY <1>2 DEF ToneEncode, KeepaliveEncode
  <2>2. Drift'
    BY <2>1 DEF FollowInv, Drift, CaughtUp
  <2>3. late \/ 0 <= 1 - blocksAhead
    <3>1. late \/ blocksAhead \in {-1, 0}
      BY DriftBounds DEF AudioInv, FollowInv, Drift, BlocksBounded
    <3> QED BY <3>1
  <2> QED BY <2>1, <2>2, <2>3 DEF FollowInv
<1>3. CASE UNCHANGED <<speakerData, stream>>
  BY <1>3 DEF FollowInv, Drift, CaughtUp, stream
<1>4. CASE ToneLook \/ ToneEncoderFails \/ ToneSend \/ KeepaliveLook
             \/ KeepaliveSkipped \/ KeepaliveSend
  BY <1>3, <1>4 DEF ToneLook, ToneEncoderFails, ToneSend, KeepaliveLook,
                    KeepaliveSkipped, KeepaliveSend
<1>5. CASE EmptyRound \/ ToneSleep \/ ToneWake \/ KeepaliveNotDue \/ AudioTick
  BY <1>3, <1>5 DEF EmptyRound, ToneSleep, ToneWake, KeepaliveNotDue, AudioTick
<1>6. CASE \E enabled \in BOOLEAN : SetWaveOut(enabled)
  BY <1>3, <1>6 DEF SetWaveOut
<1>7. CASE UNCHANGED audioVars
  BY <1>3, <1>7 DEF audioVars
<1> QED
  BY <1>1, <1>2, <1>4, <1>5, <1>6, <1>7 DEF AudioNext, AudioStep

LEMMA FollowInvariance == AudioSpec => []FollowInv
<1> QED BY AudioInvariance, FollowInitInv, FollowStepInv, PTL DEF AudioSpec

\* However the reads cut up the stream, haptics_proc is early by at most a packet
\* and behind only by the frames of short reads, and while it is not behind every
\* frame is carried at most twice and no two in a row are lost: for every packet
\* size, read size, ratio and lead of the resampler.
THEOREM SpeakerAlwaysFollows == AudioSpec => []SpeakerFollowsHaptics
<1>1. AudioInv /\ FollowInv => SpeakerFollowsHaptics
  <2> SUFFICES ASSUME AudioInv, FollowInv PROVE SpeakerFollowsHaptics
    OBVIOUS
  <2>1. BlocksBounded /\ (late \/ blocksAhead \in {-1, 0})
    BY DriftBounds DEF AudioInv, FollowInv, Drift, BlocksBounded
  <2>2. carried <= 2 \/ encoderFailed \/ late
    BY <2>1 DEF AudioInv, AudioTypeOK, FollowInv
  <2> QED BY <2>1, <2>2 DEF FollowInv, BlocksBounded, SpeakerFollowsHaptics
<1> QED BY <1>1, AudioInvariance, FollowInvariance, PTL

\* Bytes of the tone or of a keepalive that are left in speaker_data go out with
\* at most one haptics packet of the stream, unless the haptics are late or the
\* encoder fails.
THEOREM LeftoverAlwaysOnce == AudioSpec => []LeftoverAtMostOnce
<1>1. AudioInv /\ FollowInv => LeftoverAtMostOnce
  <2> SUFFICES ASSUME AudioInv, FollowInv PROVE LeftoverAtMostOnce
    OBVIOUS
  <2>1. late \/ blocksAhead \in {-1, 0}
    BY DriftBounds DEF AudioInv, FollowInv, Drift, BlocksBounded
  <2> QED BY <2>1 DEF AudioInv, AudioTypeOK, FollowInv, LeftoverAtMostOnce
<1> QED BY <1>1, AudioInvariance, FollowInvariance, PTL
=============================================================================
