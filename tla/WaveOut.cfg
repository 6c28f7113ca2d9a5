SPECIFICATION FairSpec
CONSTANTS
  MaxHostEvents = 3
  Hold = 1
  HostReports <- SomeReports
  Headset = TRUE
INVARIANTS
  TypeOK
  AudioThreadFollowsHost
  ToneStopsAtOnce
PROPERTIES
  TonePacketCoherent
  ReportRouteNotStale
  PatternIsHeld
  ToneSettles
