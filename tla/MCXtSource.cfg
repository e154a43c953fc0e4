SPECIFICATION Spec
CONSTANTS
  MaxFrames = 2
  Capacity = 2
  SdkCapacity = 1
INVARIANTS
  SummaryIsTrue
  StreamIsOwned
PROPERTIES
  StopsAndEnds
