SPECIFICATION Spec
CONSTANTS
  NCPU = 2
  MaxThreads = 3
  NStacks = 3
  Spawns = 2
  MainRounds = 2
  Rounds = 1
  Null = Null
INVARIANTS ClaimExclusive AffinityRespected RingIntact NobodyMissed
CHECK_DEADLOCK FALSE
