SPECIFICATION PollSpec
CONSTANTS
  Partitions = {p1, p2}
  Records = 3
  MaxPollRecords = 2
  MaxMoves = 2
SYMMETRY Symmetry
CHECK_DEADLOCK FALSE
INVARIANTS NoRecordPassedOver
