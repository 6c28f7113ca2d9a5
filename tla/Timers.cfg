SPECIFICATION FairSpec
CONSTANTS
  MaxRead = 4
  Ratio = 4
  Samples = 2
  OutDivisor = 2
  Lead = 2
  MaxShortFrames = 3
  TonePeriod = 1
  ToneResync = 2
  KeepalivePeriod = 1
  ActiveWindow = 2
  MicEnabled = TRUE
  UsbPeriod = 4
  Millisecond = 2
  RoundWork = 2
  StallLength = 9
  MaxStalls = 2
INVARIANTS
  TypeOK
  ToneCatchUpBounded
  SpeakerFollowsHaptics
  LeftoverAtMostOnce
  WakesInTime
PROPERTIES
  KeepalivesSpaced
  AudioPacketsRecur
  UsbReportsRecur
