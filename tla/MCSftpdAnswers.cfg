CONSTANTS
  a = a
  b = b
  z = z
  x = x
  Session = {s1, s2}
  Path = {a, b}
  Data = {z, x}
  Zero = z
  Scratch = 2
  QueueDepth = 1
  Hooks <- Names
  Tree0 <- FileAndDirectory
  MaxSize = 3
  Flags <- Creates
  Offsets = {0, 1}
  Buffers <- TwoBuffers
  MaxCalls = 2
  MaxTimeouts = 2
  MaxOthers = 1
SPECIFICATION FairSpec
INVARIANTS AnswerIsOwnUntilTimeout
PROPERTY CallsReturn
