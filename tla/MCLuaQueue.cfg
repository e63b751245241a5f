CONSTANTS
  Slots = 11
  Function = {"status_online", "send_msg", "set_profile_photo", "set_profile_name", "restore_msg"}
  Extra = {x1, x2, x3}
SPECIFICATION FairSpec
INVARIANTS TypeOK StringsKept FirstIsSafe
PROPERTIES CallsSpec CalledBackUnlessFault
