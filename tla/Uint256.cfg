SPECIFICATION Spec
CONSTANTS
  W = 2
  Operands <- EdgeValues
  Bases = {0, 3, 17}
  OutLengths = {3, 9}
INVARIANTS
  Exact
  Ordered
  MulWrapsButForCarry
  DivisionExact
  PrintsNumber
PROPERTIES
  Terminates
CHECK_DEADLOCK FALSE
