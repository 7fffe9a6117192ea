SPECIFICATION MCSpec
CONSTANTS
  Procs = {p1, p2}
  Readers = {r1, r2}
  Writers = {w1, w2}
  MaxFaults = 1
  Times = {1, 2}
  Ids = {1, 2, 3}
  Limits = {0, 1, 2, 3}
  DefaultPageSize = 2
  MaxPageSize = 2
  MaxChanges = 2
  old = old
  new = new
  Replicas <- MCReplicas
  Files <- MCFiles
  MaxBoots = 2
  Events = {e1, e2, e3}
  DedupeSize = 2
  MaxHandled = 7
  Names = {a, b}
  Critical = {a}
  Probes = {p}
  MaxReplaced = 1
  MaxRefreshes = 2
  Timeouts = {0, 1, 3}
  Asked = {0, 1, 2, 4}
  Levels = {0, 1, 3}
  Base = 1
  MaxTTL = 2
  MaxSets = 3
  MaxNow = 5
  Initial = 1
  Thereafter = 3
  Window = 2
  MaxRecords = 4
  Numbers <- MCNumbers
  Raw <- MCRaw
  Addresses = {"", ":8080", ":9083", ":0", "localhost:1"}
  Partitions = {q1, q2}
  Records = 3
  MaxPollRecords = 2
  MaxMoves = 2
  Messages = {m1, m2}
  MaxBuffered = 1
CHECK_DEADLOCK FALSE
INVARIANTS
  
  PagesComplete
  MigratedOnceInOrder
  
  NoStaleRevert
  
  StartsAsConfigured
  SkipsNeedABounce
  KindsTellTheTruth
  ClientAsConfigured
PROPERTIES
  DuplicatesNeedEviction
  ReadyRestsOnResults
