CONSTANTS
  a = a
  b = b
  z = z
  x = x
  Session = {s1, s2}
  Path = {a, b}
  Data = {z, x}
  Zero = z
  Scratch = 2
  QueueDepth = 2
  Hooks <- Transfers
  Tree0 <- OneFile
  MaxSize = 3
  Flags <- Updates
  Offsets = {0, 1}
  Buffers <- TwoBuffers
  MaxCalls = 4
  MaxTimeouts = 0
  MaxOthers = 0
SPECIFICATION Spec
INVARIANTS TransfersAreStored HandlesStandForTheirFiles
CHECK_DEADLOCK FALSE
SYMMETRY Clients
