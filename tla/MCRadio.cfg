SPECIFICATION Spec
CONSTANTS
  Lens = {1, 2}
  RingLen = 6
  MaxLen = 8
  FifoSize = 2
  MaxFrames = 3
  Tries = 2
INVARIANTS
  RingWhole
  OwnFrame
PROPERTIES
  ChannelSpec
  Drained
