SPECIFICATION Spec
CONSTANTS
  Router = {r1, r2}
  Prefix = {p1}
  LinkLocal = LinkLocal
  Nowhere = Nowhere
  DefrtNb = 2
  AddrNb = 2
  RegNb = 2
  NbrNb = 1
  RegsPerAddr = 2
  MaxUnicast = 1
  MaxNet = 1
  MaxMsgs = 3
INVARIANTS
  Unique
  OnePacket
  PreferredGranted
PROPERTIES
  EvictionSpares
