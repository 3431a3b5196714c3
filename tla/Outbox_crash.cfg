SPECIFICATION FairSpec
CONSTANTS
  NumEvents = 1
  Relays = {r1}
  MaxRetries = 2
  BatchSize = 1
  DaysOld = 0
  MaxFaults = 0
  MaxLost = 1
  MaxDay = 0
  Null = Null
PROPERTIES
  EventuallyPublished
