CONSTANTS
  Size = 4
  MaxSent = 9
  Blank = Blank
SPECIFICATION Spec
INVARIANTS TypeOK OnlyLines AllLines ErrorMeansTooLong
PROPERTY ErrorIsForever
CHECK_DEADLOCK FALSE
