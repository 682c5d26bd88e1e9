CONSTANTS
  Node = {1, 2, 3}
  Links <- LineLinks
  Hops <- LineHops
  Talkers = {1, 2, 3}
  SeenSize = 2
  InboxSize = 1
  Ttls = {0, 1}
  Slow = FALSE
  MaxFrags = 2
  MaxMessages = 1
  MaxQueue = 2
  MaxFailures = 0
  MaxRestarts = 0
SPECIFICATION Spec
INVARIANTS HeardIsDelivered
CHECK_DEADLOCK FALSE
