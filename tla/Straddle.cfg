SPECIFICATION FairSpec
CONSTANTS
  RamSize = 4
  StubPC = StubPC
  StubValue = StubValue
  NUser = 2
  Images <- StraddlingImages
  HostAddrs = {1}
  HostWrites = {}
  PowerUp <- StubPowerUp
  Starts <- StubStarts
  Programs <- StubPrograms
  Parcels <- StubParcels
  MayReset = FALSE
INVARIANTS
  LeavesNoTrace
