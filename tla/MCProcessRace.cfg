SPECIFICATION Spec
CONSTANTS
  etimer = etimer
  tcpip = tcpip
  app = app
  radio = radio
  timer = timer
  cont = cont
  Procs = {etimer, radio, tcpip, app}
  Kinds = {timer, cont}
  NumEvents = 2
  CountWidth = 4
  Broadcast = Broadcast
  Nil = Nil
  Boot <- GwBoot
  Starts <- GwStarts
  Calls <- GwCalls
  Polls <- GwPolls
  Posts <- TrfPosts
  IsrPolls <- GwIsrPolls
  IsrPosts <- TrfIsrPosts
  MaxOps = 2
  MaxIsrPosts = 2
PROPERTY QueueSafe
