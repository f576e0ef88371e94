SPECIFICATION AhbSpec
CONSTANTS
  Addr <- MCAddr
  Data <- MCData
  Setups <- SlowReads
PROPERTIES
  AddressPhaseTaken
