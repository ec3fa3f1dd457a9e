SPECIFICATION Spec
CONSTANTS
  WordSize = 3
  Half = 4
  Registers = {r1, r2}
  Immediates = {1, 6}
  MaxWeight = 65
INVARIANTS ComparisonsHold ChainsAreExact ShiftsAreArithmetic
