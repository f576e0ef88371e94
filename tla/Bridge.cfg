SPECIFICATION Spec
CONSTANTS
  MaxBytes = 4
  BreakPasses = 20
INVARIANTS
  BridgeTypeOK
  BytesPass
  BreakHalts
