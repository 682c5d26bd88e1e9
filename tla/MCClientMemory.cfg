CONSTANTS
  x = x
  z = z
  Slots = 2
  Backlog = 2
  MaxConns = 3
  MaxStarts = 2
  Kinds = {"shell", "files"}
  Scratch = 2
  Files <- TwoUnits
  Buffers <- ThreeUnits
  Wants <- OneOrAll
  MaxSize = 3
  MaxConnects <- Reconnects
  MaxCalls = 3
  MaxLate = 1
SPECIFICATION SpecSftp
INVARIANT ClientIsKept
CHECK_DEADLOCK FALSE
