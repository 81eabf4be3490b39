CONSTANTS
  Connections = {1, 2}
  BufferLimit = 2
  RetentionDays = 1
  LastDay = 2
  MaxServed = 3
  MaxTrafficFaults = 0
SPECIFICATION TrafficSpec
INVARIANT SaltOnePerDay
CHECK_DEADLOCK FALSE
