CONSTANTS
  Node = {1, 2, 3}
  Links <- LineLinks
  Hops <- LineHops
  Talkers = {1, 3}
  SeenSize = 2
  InboxSize = 1
  Ttls = {1}
  Slow = FALSE
  MaxFrags = 1
  MaxMessages = 2
  MaxQueue = 2
  MaxFailures = 0
  MaxRestarts = 0
SPECIFICATION FairSpec
INVARIANT DeliveredOnce
PROPERTIES FloodEnds
CHECK_DEADLOCK FALSE
