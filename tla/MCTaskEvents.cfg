SPECIFICATION Spec
CONSTANTS
  Clients = {c1, c2}
  Tasks = {t1}
  Keys = {}
  Hashes = {}
  None = None
  MaxId = 3
  Relays = {r1}
  BatchSize = 2
  MaxAttempts = 1
  MaxFaults = 0
  MaxStops = 0
  MaxWakes = 0
INVARIANTS TopicTellsHistory
PROPERTIES ImplementsOutboxRelay
