SPECIFICATION AhbSpec
CONSTANTS
  Addr <- MCAddr
  Data <- MCData
  Setups <- SlowerWrites
PROPERTIES
  HwdataHeld
