SPECIFICATION SocSpec
CONSTANTS
  NWords = 8
  Parcels <- SocParcels
  LongParcels <- SocLong
  Rs2Parcels <- SocRs2
  NoParcel = NoParcel
  SinglePort = FALSE
  WaitStates = FALSE
  StoreWords = {7}
  StoreData <- MCStored
  Images <- SocImages
  PowerUpWords <- Junk
  OpOf <- SocOpOf
  Target <- SocTarget
  MTVEC <- MCVec
  HandlerCode <- MCHandler
  Sources = {"dbg"}
  MayReset = FALSE
  Slots <- SocSlots
  RegsOf <- SocRegsOf
  BpTargets <- SocBpTargets
INVARIANTS
  BpRegistersRead
