SPECIFICATION Spec
CONSTANTS
  Clients <- MCClients
  Requests <- MCRequests
  Tag <- MCTag
  Junk <- MCJunk
  MaxObservers = 2
  NumEvents = 3
  ClockBytes = {2}
  MaxOther = 1
INVARIANTS
  Agreed
  Checked
  Answered
  TagDelivered
PROPERTIES
  Notified
