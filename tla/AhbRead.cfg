SPECIFICATION AhbSpec
CONSTANTS
  Addr <- MCAddr
  Data <- MCData
  Setups <- NoWaits
INVARIANTS
  ReadAnswered
