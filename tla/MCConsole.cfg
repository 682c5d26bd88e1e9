CONSTANTS
  Depth = 1
  AuthTicks = 2
  MaxChunk = 2
  Sizes <- MCSizes
  Args <- MCArgs
  BarLength = 1
SPECIFICATION SpecOfOne
INVARIANTS OutputIsOwn MirrorIsKept ToastsAlternate LoginIsFinal CursorInside ChangesAreDrawn
PROPERTIES StopEnds SilentIsDropped BarsLeaveHistory
CHECK_DEADLOCK FALSE
