SPECIFICATION ASpec
CONSTANTS
  NCPU = 1
  Workers = {1, 2}
  A = 1
  Rounds = 6
  Interval = 5
  Cap = 3
  MaxTicks = 20
  MaxThreads = 4
  NStacks = 2
  Spawns = 3
  MainRounds = 48
  Null = Null
  Machines <- Found
  LargePage = 2
  PdEntries = 2
  MaxPd = 3
  Lapic = 7
  Announced = 5
INVARIANTS ATypeOK QuantaAccounted NoLostQuantum MemoryMapped NobodyPassedOver StackSafe ClaimExclusive RingIntact StacksAccounted WorkersDone
PROPERTIES ImplementsDeferQueue ImplementsStackPool BootEnds
CHECK_DEADLOCK FALSE
