SPECIFICATION Spec
CONSTANTS
  tcpip = tcpip
  rfid = rfid
  periodic = periodic
  ds6 = ds6
  find = find
  Timers = {periodic, ds6, find}
  Procs = {tcpip, rfid}
  Uses <- MCUses
  Intervals = {2}
  W = 5
  NumEvents = 1
  None = None
  Other = Other
  MaxAge = 3
  MaxPosts = 1
INVARIANTS
  ListExact
  ClockExact
  NoneForgotten
PROPERTIES
  Fires
