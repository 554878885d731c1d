SPECIFICATION FairSpec
CONSTANTS
  NAPs = 2
  Announced = 5
  MaxTicks = 7
INVARIANTS TypeOK OwnStack NoSelfDeadlock NothingLeftInService
PROPERTY BootEnds
CHECK_DEADLOCK FALSE
