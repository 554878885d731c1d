SPECIFICATION Spec
CONSTANTS
  NCPU = 1
  MaxThreads = 4
  NStacks = 2
  Spawns = 3
  MainRounds = 48
  Rounds = 6
  Null = Null
INVARIANT NoForgottenZombie
CHECK_DEADLOCK FALSE
