\* sessions.message_count against the number of messages: two plain chats.
SPECIFICATION Spec
CONSTANTS
  Chats = {c1, c2}
  Streams = {}
  Sessions = {"s1"}
  Nobody = Nobody
  Nowhere = Nowhere
  HistoryLimit = 2
INVARIANTS
  CountIsMessageCount
CHECK_DEADLOCK FALSE
