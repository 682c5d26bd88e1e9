CONSTANTS
  Rows = {bar, row}
  MaxWaitTicks = 2
  Drains = 2
  MaxText = 1
  MaxWire = 1
  MaxQueue = 2
  Ring = 3
  MaxBytes = 4
  Byte = {b1, b2}
  Size = 3
  MaxLen = 2
SPECIFICATION SpecOfOne
INVARIANTS RowsAreShown KeysAreTyped KeysInOrder IInv
PROPERTIES ClosingEnds WebCatchesUp ImplementsByteQueue
CHECK_DEADLOCK FALSE
