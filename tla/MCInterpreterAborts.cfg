SPECIFICATION Spec
CONSTANTS
  MaxTokens = 4
  MaxArgs = 7
  Counts = {1}
INVARIANT AssertionsHold
CHECK_DEADLOCK FALSE
