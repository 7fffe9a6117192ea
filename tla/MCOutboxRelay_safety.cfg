SPECIFICATION Spec
CONSTANTS
  Relays = {r1, r2}
  Tasks = {t1, t2}
  MaxId = 2
  BatchSize = 2
  MaxAttempts = 2
  MaxFaults = 1
  MaxStops = 1
  MaxWakes = 1
SYMMETRY Symmetry
INVARIANTS NoEventLost FirstDeliveriesInOrder DuplicateNeedsFailure OnlyRefusalsKill
PROPERTIES ImplementsEventStream
