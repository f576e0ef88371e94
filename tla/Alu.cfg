SPECIFICATION AluSpec
CONSTANTS
  LogW = 2
  Builds = {"parallel", "radix2", "radix4"}
  Leftovers <- MCLeftovers
INVARIANTS
  ProductIsRight
  ShiftOrQuotientIsRight
  AnswersInTime
