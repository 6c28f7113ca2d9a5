SPECIFICATION FairSpec
CONSTANTS
  MaxHostReports = 2
  SeqMod = 1
  MaxVolume = 0
  LegacyPackets = FALSE
  MicEnabled = FALSE
  WritesFail = FALSE
PROPERTIES
  HostReportDelivered
