SPECIFICATION Spec
CONSTANTS
  None = None
  MINIMUM_RESERVABLE_BLOCKS = 2
  FirstTimestamps = {0}
  Increments = {2}
  Advances = {0, 1}
  Intervals = {1}
  MaxNow = 2
  MaxTime = 3
  MaxBlocks = 5
  MaxSnapshots = 2
INVARIANTS TimestampsOrdered SnapshotsArePrefixes AskedIsNotPast NoSameTimestamp ClockIsPositive
