CONSTANTS
  x = x
  z = z
  Slots = 2
  Backlog = 2
  MaxConns = 2
  MaxStarts = 1
  Kinds = {"files"}
  Scratch = 2
  Files <- TwoUnits
  Buffers <- ThreeUnits
  Wants <- OneOrAll
  MaxSize = 3
  MaxConnects <- Reconnects
  MaxCalls = 3
  MaxLate = 1
SPECIFICATION FairSftp
PROPERTY SlotsComeBack
CHECK_DEADLOCK FALSE
