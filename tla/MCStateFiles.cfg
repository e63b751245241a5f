CONSTANTS
  DC = {1, 2}
  Default <- MCDefault
  Chat = {1, 2, 3}
  NameLengths <- MCNameLengths
  IpLengths <- MCIpLengths
  MaxNumber = 1
  MaxStarts = 2
  MaxTorn = 1
  Nothing = Nothing
SPECIFICATION Spec
CONSTRAINT MCConstraint
INVARIANTS TypeOK ReadsBack TornIsReadable 
CHECK_DEADLOCK FALSE
