SPECIFICATION Spec
CONSTANTS
  InMax = 1
  OutMax = 2
  MaxTyped = 3
  MaxBus = 1
  MaxStr = 2
  NumEvents = 1
  MaxTexts = 1
INVARIANTS
  InputWhole
  OutputWhole
  NoneOpen
  ReportWhole
PROPERTIES
  Prints
CHECK_DEADLOCK FALSE
