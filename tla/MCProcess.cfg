SPECIFICATION Spec
CONSTANTS
  etimer = etimer
  tcpip = tcpip
  app = app
  radio = radio
  timer = timer
  cont = cont
  Procs = {etimer, tcpip, app}
  Kinds = {timer, cont}
  NumEvents = 2
  CountWidth = 4
  Broadcast = Broadcast
  Nil = Nil
  Boot <- AnyBoot
  Starts <- AnyStarts
  Calls <- AnyPairs
  Polls <- AnyPairs
  Posts <- AnyPosts
  IsrPolls <- AnyIsrPolls
  IsrPosts = {}
  MaxOps = 2
  MaxIsrPosts = 0
INVARIANTS
  PollNotLost
  NoReentry
PROPERTIES
  QueueSpec
  PollServed
  EventDelivered
