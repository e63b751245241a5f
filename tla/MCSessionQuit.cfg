CONSTANTS
  Handle = {e1}
  Query = {q1}
  NoEv = NoEv
  Idle = Idle
  MaxCount = 1
  MaxLines = 1
  MaxLost = 1
SPECIFICATION Spec
PROPERTY QuitExits
