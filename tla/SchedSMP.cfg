SPECIFICATION FairSpec
CONSTANTS
  NCPU = 2
  Workers = {wA}
  A = wA
  Rounds = 1
  Interval = 1
  Cap = 2
  MaxTicks = 2
PROPERTY QuantumHonoured
CHECK_DEADLOCK FALSE
