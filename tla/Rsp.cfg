SPECIFICATION FairSpec
CONSTANTS
  PKT_BUF_SIZE = 3
  Commands <- MCCommands
  Noise <- MCNoise
  MaxFaults = 2
  HostTries = 3
INVARIANTS
  RspTypeOK
PROPERTIES
  ImplementsLink
  CommandEnds
