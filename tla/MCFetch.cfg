SPECIFICATION FetchSpec
CONSTANTS
  NWords <- MCWords
  Parcels <- MCParcels
  LongParcels <- MCLong
  Rs2Parcels <- MCRs2
  NoParcel = NoParcel
  SinglePort = TRUE
  WaitStates = TRUE
  StoreWords = {2}
  StoreData <- MCJunk
  Images <- MCImages
  PowerUpWords <- MCJunk
INVARIANTS
  FetchTypeOK
  FetchCorrect
  StrobeOnlyWhenIdle
