SPECIFICATION FairSpec
CONSTANTS
  NumEvents = 1
  Relays = {r1, r2}
  MaxRetries = 2
  BatchSize = 1
  DaysOld = 0
  MaxFaults = 4
  MaxLost = 0
  MaxDay = 0
  Null = Null
PROPERTIES
  EventuallyPublished
