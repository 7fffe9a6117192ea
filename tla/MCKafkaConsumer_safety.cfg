SPECIFICATION Spec
CONSTANTS
  Members = {m1, m2}
  Partitions = {p1}
  Nobody = Nobody
  Records = 3
  MaxPollRecords = 2
  MaxRetries = 1
  DeadLetters = TRUE
  MaxFaults = 2
  MaxMoves = 1
  MaxStops = 1
SYMMETRY Symmetry
INVARIANTS NoRecordSkipped SettledInOrder OnceWithoutFaults
PROPERTIES NeverRewinds
CHECK_DEADLOCK FALSE
