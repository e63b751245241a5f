CONSTANTS
  Slots = 13
  Function = {"status_online", "send_msg"}
  Extra = {x1, x2}
SPECIFICATION Spec
INVARIANT NotFreedBefore
