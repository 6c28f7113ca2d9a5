---------------------------- MODULE ReportStream ----------------------------
(***************************************************************************)
(* What the Bluetooth output side promises, whoever sends: reports leave   *)
(* one after the other, each with the next number of the controller's      *)
(* sequence field, and a report that reaches the controller brings it the  *)
(* newest state accepted from the USB host.  A report may be lost, but its *)
(* number is used up; a report may also carry no state at all.             *)
(***************************************************************************)
EXTENDS Integers

CONSTANTS
  MaxHostReports,   \* bound: how many output reports the USB host sends
  SeqMod            \* report numbers count modulo this

VARIABLES
  number,           \* the number of the last report passed to write(2)
  accepted,         \* the last output report taken from the USB host
  delivered         \* the output report the controller has

vars == <<number, accepted, delivered>>

Init ==
  /\ number \in 0..(SeqMod - 1)
  /\ accepted = 0 /\ delivered = 0

Accept ==
  /\ accepted < MaxHostReports
  /\ accepted' = accepted + 1
  /\ UNCHANGED <<number, delivered>>

Transmit ==
  /\ number' = (number + 1) % SeqMod
  /\ delivered' \in {delivered, accepted}
  /\ UNCHANGED accepted

Next == Accept \/ Transmit

Spec == Init /\ [][Next]_vars
=============================================================================
