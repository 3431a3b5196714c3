SPECIFICATION FairSpec
CONSTANTS
  NumEvents = 3
  Relays = {r1}
  MaxRetries = 2
  BatchSize = 2
  DaysOld = 0
  MaxFaults = 2
  MaxLost = 1
  MaxDay = 1
  Null = Null
INVARIANTS
  FailedIsRetryable
  OvertakenOnlyAfterTrouble
  DuplicatesAreRetries
PROPERTIES
  SentIsFinal
  ImplementsChannel
  PublishedUnlessLost
  SettledUnlessLost
