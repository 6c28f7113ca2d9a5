SPECIFICATION Spec
CONSTANTS
  MaxReports = 3
  MaxDualReports = 3
  Kinds = {"input"}
  DebugAtStart = {"open"}
INVARIANTS
  MuteFollowsButton
