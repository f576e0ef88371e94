SPECIFICATION Spec
CONSTANTS
  IRQ_PERIOD = 7
  MaxCycles = 3
  Spins = 9
  Arrays <- MCArrays
  Iterations = 1
  MaxTicks = 30
CHECK_DEADLOCK FALSE
INVARIANTS
  InterruptsUnseen
  TestsPass
PROPERTIES
  Reports
