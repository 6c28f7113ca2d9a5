------------------------------- MODULE Timers -------------------------------
(***************************************************************************)
(* The clocks of the two threads.  Neither waits for a time the other sets *)
(* and they have no timer in common, so a behaviour shows one of them, at  *)
(* any speed, while the other stands still.                                *)
(***************************************************************************)
EXTENDS AudioThread, UsbPacer

VARIABLE thread     \* the one that is shown: "audio" or "bus"

vars == <<audioVars, pacerVars, thread>>

Init == AudioInit /\ PacerInit /\ thread \in {"audio", "bus"}

Next ==
  \/ thread = "audio" /\ AudioNext /\ UNCHANGED <<pacerVars, thread>>
  \/ thread = "bus" /\ PacerNext /\ UNCHANGED <<audioVars, thread>>

Spec == Init /\ [][Next]_vars

FairSpec ==
  /\ Spec
  /\ thread = "audio" => AudioFairness
  /\ thread = "bus" => PacerFairness

TypeOK == AudioTypeOK /\ PacerTypeOK

\* What is said of a thread that never ceases, for the thread that is shown.
AudioPacketsRecur == thread = "audio" => PacketsRecur
UsbReportsRecur   == thread = "bus" => CatchesUp
=============================================================================
