SPECIFICATION FairSpec
CONSTANTS
  MaxRows = 2
  Capacity = 2
  MaxCrashes = 1
  MaxClears = 1
  MaxRemounts = 1
ACTION_CONSTRAINT LoneFault
PROPERTY SessionEnds
