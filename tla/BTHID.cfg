SPECIFICATION Spec
CONSTANTS
  MaxHostReports = 2
  SeqMod = 3
  MaxVolume = 1
  LegacyPackets = FALSE
  MicEnabled = TRUE
  WritesFail = TRUE
INVARIANTS
  TypeOK
  ControllerInSync
  CombineIsCoherent
PROPERTIES
  ImplementsStream
