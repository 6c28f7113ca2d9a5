SPECIFICATION FairSpec
CONSTANTS
  MaxReports = 4
  MaxDualReports = 3
  Kinds = {"input", "mic", "short"}
  DebugAtStart = {"absent", "open"}
INVARIANTS
  TypeOK
  MuteFollowsSingleSource
  MutedMicIsSilent
  MicPacketsInOrder
  HeadsetFollows
PROPERTIES
  HostSettles
