SPECIFICATION Spec
CONSTANTS
  None = None
  MINIMUM_RESERVABLE_BLOCKS = 2
  FirstTimestamps = {0}
  Increments = {1}
  Advances = {1}
  Intervals = {1}
  MaxNow = 2
  MaxTime = 6
  MaxBlocks = 5
  MaxSnapshots = 1
PROPERTY RevertRestoresTime
