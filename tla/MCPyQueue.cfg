CONSTANTS
  Slots = 5
  Function = {"chat_add_user", "create_group_chat", "accept_secret_chat"}
  Method = {"peer.send_contact"}
  o1 = o1
  c1 = c1
  c2 = c2
  Peer = {o1}
  Callable = {c1, c2}
  Kind <- MCKind
  Lists <- MCLists
  Named = {c1}
  MaxRefs = 3
  None = None
SPECIFICATION Spec
INVARIANTS TypeOK ReferencesKept
PROPERTY CallsSpec
