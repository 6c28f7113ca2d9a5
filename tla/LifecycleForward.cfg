SPECIFICATION Spec
CONSTANTS
  InitialReports <- MCInitialReports
  ForwardedReport <- MCForwardedReport
INVARIANTS
  FailedReadNotForwarded
