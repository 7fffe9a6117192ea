SPECIFICATION FairSpec
CONSTANTS
  Relays = {r1, r2}
  Tasks = {t1}
  MaxId = 2
  BatchSize = 1
  MaxAttempts = 2
  MaxFaults = 1
  MaxStops = 1
  MaxWakes = 0
PROPERTIES EventuallySettled ShutdownCompletes
