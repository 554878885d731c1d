SPECIFICATION Spec
CONSTANTS
  NAPs = 1
  Announced = 5
  MaxTicks = 7
INVARIANT TimerHandled
CHECK_DEADLOCK FALSE
