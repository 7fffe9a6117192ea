CONSTANTS
  a = a
  b = b
  c = c
  s = s
  Callers = {a, b, c}
  Closers = {s}
  WindowSlots = 2
  RatioNum = 1
  RatioDen = 2
  MinRequests = 2
  OpenTimeout = 1
  MaxProbes = 2
  MaxTime = 2
  MaxAttempts = 2
  MaxConcurrent = 1
  MinRetries = 1
  BudgetNum = 0
  BudgetDen = 1
  Answers = {"ok", "server", "canceled"}
  MaxSends = 2
  MaxCalls = 5
SPECIFICATION MCSpec
SYMMETRY Interchangeable
CHECK_DEADLOCK FALSE
INVARIANTS
  SlotsAccounted
  ShutdownIsFinal
PROPERTIES
  TripsOnItsOwnEvidence
  RetriesWithinBudget
