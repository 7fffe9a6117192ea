SPECIFICATION FairSpec
CONSTANTS
  Members = {m1, m2}
  Partitions = {p1}
  Nobody = Nobody
  Records = 2
  MaxPollRecords = 2
  MaxRetries = 1
  DeadLetters = TRUE
  MaxFaults = 1
  MaxMoves = 1
  MaxStops = 1
CHECK_DEADLOCK FALSE
PROPERTIES EverythingSettled RunReturns
