SPECIFICATION Spec
CONSTANTS
  NumEvents = 2
  MaxSlot = 2
  MaxOther = 2
INVARIANTS
  NotStranded
  Awaited
PROPERTIES
  RoundEnds
  Served
