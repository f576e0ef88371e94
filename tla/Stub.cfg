SPECIFICATION FairSpec
CONSTANTS
  RamSize = 10
  StubPC = StubPC
  StubValue = StubValue
  NUser = 1
  Images <- StubImages
  HostAddrs <- StubAddrs
  HostWrites <- StubWrites
  PowerUp <- StubPowerUp
  Starts <- StubStarts
  Programs <- StubPrograms
  Parcels <- StubParcels
  MayReset = TRUE
INVARIANTS
  StubTypeOK
  ProgramIntact
PROPERTIES
  ImplementsTarget
  StepReturns
