CONSTANTS
  Asker = {1, 2}
  Values <- MCValues
  Peer = {11, 12, 13}
  Channel = {13}
  MaxLine = 3
  MaxUnread = 2
  MaxAtOnce = 3
  MaxRead = 4
  NoLine = NoLine
  Nobody = Nobody
SPECIFICATION Spec
INVARIANTS TypeOK TypedKept QuestionsAnswered MarksCounted
CHECK_DEADLOCK FALSE
