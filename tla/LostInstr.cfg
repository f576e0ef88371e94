SPECIFICATION Spec
CONSTANTS
  NWords = 8
  Parcels <- MCParcels
  LongParcels <- MCLong
  Rs2Parcels <- MCRs2
  NoParcel = NoParcel
  SinglePort = TRUE
  WaitStates = TRUE
  StoreWords = {7}
  StoreData <- MCStored
  Images <- AllImages
  PowerUpWords <- Junk
  OpOf <- MCOpOf
  Target <- MCTarget
  MTVEC <- MCVec
  HandlerCode <- MCHandler
  Sources = {"nmi"}
  MayReset = TRUE
PROPERTIES
  InterruptedInstructionKept
