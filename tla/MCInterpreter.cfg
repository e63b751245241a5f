SPECIFICATION FairSpec
CONSTANTS
  MaxTokens = 6
  MaxArgs = 8
  Counts = {0, 2}
INVARIANTS TypeOK StringsFreedOnce LineFits ArgsAreTheLine HandlerReadsWhatIsStored RefusedOnceOrCalled
PROPERTY LineEnds
CHECK_DEADLOCK FALSE
