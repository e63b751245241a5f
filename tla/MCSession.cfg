CONSTANTS
  Handle = {e1, e2}
  Query = {q1, q2}
  NoEv = NoEv
  Idle = Idle
  MaxCount = 2
  MaxLines = 2
  MaxLost = 1
SPECIFICATION Spec
SYMMETRY Symmetry
INVARIANTS TypeOK HandleCounted FaultOnlyByDaemonQuit
PROPERTIES ChatModeShields SharedSpec
