SPECIFICATION FairSpec
CONSTANTS
  InitialReports <- MCInitialReports
  ForwardedReport <- MCForwardedReport
PROPERTIES
  DebugFailureEndsProcess
