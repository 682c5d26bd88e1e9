CONSTANTS
  a = a
  b = b
  z = z
  x = x
  Session = {s1, s2}
  Path = {a, b}
  Data = {z, x}
  Zero = z
  Scratch = 2
  QueueDepth = 2
  Hooks <- Brief
  Tree0 <- FileAndDirectory
  MaxSize = 3
  Flags <- AllFlags
  Offsets = {0, 1}
  Buffers <- TwoBuffers
  MaxCalls = 3
  MaxTimeouts = 1
  MaxOthers = 0
SPECIFICATION Spec
INVARIANTS AnswerIsOwn
CHECK_DEADLOCK FALSE
SYMMETRY Clients
