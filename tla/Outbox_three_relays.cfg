SPECIFICATION Spec
CONSTANTS
  NumEvents = 1
  Relays = {r1, r2, r3}
  MaxRetries = 2
  BatchSize = 1
  DaysOld = 0
  MaxFaults = 2
  MaxLost = 1
  MaxDay = 1
  Null = Null
SYMMETRY Symmetry
INVARIANTS
  TypeOK
  ProcessingHasOwner
  SentIsPublished
  GoneIsPublished
