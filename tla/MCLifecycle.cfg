SPECIFICATION MCSpec
CONSTANTS
  Senders = {a, b}
  Closers = {s}
  WindowSlots = 2
  RatioNum = 1
  RatioDen = 2
  MinRequests = 1
  OpenTimeout = 0
  MaxProbes = 1
  MaxTime = 0
  MaxAttempts = 2
  MaxConcurrent = 1
  MinRetries = 1
  BudgetNum = 0
  BudgetDen = 1
  Answers = {"ok", "server"}
  MaxSends = 2
  Callers = {x, y}
  MaxClients = 3
  MaxCalls = 4
  MaxFatals = 3
  Pingers = {u, v}
  MaxPings = 3
  MaxCommits = 3
  Requests = {r1, r2}
CHECK_DEADLOCK FALSE
INVARIANTS
  NoCallInDestroyedClient
  
PROPERTIES
  CallsReturn
  ProducerCloses
  
