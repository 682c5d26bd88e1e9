CONSTANTS
  Node = {1, 2, 3}
  Links <- LineLinks
  Hops <- LineHops
  Talkers = {1}
  SeenSize = 1
  InboxSize = 1
  Ttls = {0, 1}
  Slow = FALSE
  MaxFrags = 1
  MaxMessages = 2
  MaxQueue = 1
  MaxFailures = 1
  MaxRestarts = 1
SPECIFICATION Spec
INVARIANTS ShortHeardIsDelivered DeliveredInRange
CHECK_DEADLOCK FALSE
