SPECIFICATION Spec
CONSTANTS
  MaxFaults = 3
  MaxExits = 2
INVARIANTS
  TypeOK
  HostSeesBothFunctions
  ServesWhatWasAsked
PROPERTIES
  EventuallyServed
CHECK_DEADLOCK FALSE
