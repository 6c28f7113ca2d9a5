SPECIFICATION Spec
CONSTANTS
  MaxReports = 2
  MaxDualReports = 2
  Kinds = {"input", "mic"}
  DebugAtStart = {"open"}
INVARIANTS
  MicPacketsOnce
