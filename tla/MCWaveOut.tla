----------------------------- MODULE MCWaveOut -----------------------------
(* Output reports for TLC: both patterns, one of them with the audio control *)
(* byte that selects the other route, volumes with and without audio flags,  *)
(* and a report that is too short.                                           *)
EXTENDS WaveOut

Rep(headphone, speaker, control30, touched, short) ==
  [op |-> "output", headphone |-> headphone, speaker |-> speaker,
   control30 |-> control30, touched |-> touched, short |-> short]

SomeReports == {
  Rep("wave",  "zero",  TRUE,  TRUE,  FALSE),
  Rep("zero",  "wave",  FALSE, FALSE, FALSE),
  Rep("other", "zero",  FALSE, FALSE, FALSE),
  Rep("wave",  "wave",  FALSE, TRUE,  FALSE),
  Rep("zero",  "zero",  FALSE, FALSE, TRUE) }
=============================================================================
