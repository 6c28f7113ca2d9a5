SPECIFICATION FairSpec
CONSTANTS
  InitialReports <- MCInitialReports
  ForwardedReport <- MCForwardedReport
INVARIANTS
  TypeOK
  ExitHasCause
  NoServiceAfterInitFailure
PROPERTIES
  BtLossEndsProcess
  NotedUsbFailureEndsProcess
