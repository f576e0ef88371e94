SPECIFICATION Spec
CONSTANTS
  Periods <- UartPeriods
  Bytes <- UartBytes
  Writes = {36}
  BreakBits = {10, 11, 12, 14}
  CalMax = 255
  MayReset = TRUE
INVARIANTS
  UartTypeOK
  LockedRight
  BytesInOrder
  ReadOnce
  TxRight
  BreakExact
