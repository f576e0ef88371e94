SPECIFICATION AhbSpec
CONSTANTS
  Addr <- MCAddr
  Data <- MCData
  Setups <- MCSetups
INVARIANTS
  StoresLand
  StoresSettle
  RequestsTaken
