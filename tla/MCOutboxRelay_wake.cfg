SPECIFICATION Spec
CONSTANTS
  Relays = {r1, r2}
  Tasks = {t1}
  MaxId = 2
  BatchSize = 2
  MaxAttempts = 1
  MaxFaults = 0
  MaxStops = 0
  MaxWakes = 1
INVARIANTS WakeNotLost
