CONSTANTS
  Peer = {1, 2, 3}
  Number <- MCNumber
  ChatOf <- MCChatOf
  Sender <- MCSender
  WithMedia = {1, 5}
  NotDumped = {3}
  MaxStarts = 2
  MaxDumps = 4
  MaxRand = 4
SPECIFICATION Spec
INVARIANTS TypeOK Listed NeverLost LinksLeadHome
CHECK_DEADLOCK FALSE
