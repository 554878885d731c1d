SPECIFICATION Spec
CONSTANTS
  Values = {0, 1, 2}
  NullStack = 100
  Ring0Stack = 200
  Answers = {3}
INVARIANT CallAsAsked
CHECK_DEADLOCK FALSE
