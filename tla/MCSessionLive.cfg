CONSTANTS
  Handle = {e1}
  Query = {q1, q2}
  NoEv = NoEv
  Idle = Idle
  MaxCount = 1
  MaxLines = 1
  MaxLost = 1
SPECIFICATION FairSpec
PROPERTIES SafeQuitEnds ClosedIsFreed SignalEnds
