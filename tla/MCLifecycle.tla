---------------------------- MODULE MCLifecycle ----------------------------
(* Lifecycle with the reports main publishes; the reports differ in nothing *)
(* but their place in the sequence.                                         *)
EXTENDS Lifecycle

MCInitialReports == <<"09", "20", "22", "05">>
MCForwardedReport == "81"
=============================================================================
