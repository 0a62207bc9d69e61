SPECIFICATION StackSpec
CONSTANTS
  NullMac = null
  Pan = pan
  BroadcastPan = panAll
  Dev = dev
  Peer = peer
  Wild = wild
  Offers <- MCOffers
  PeerPackets <- MCPeerPackets
  Lens <- MCLens
INVARIANTS RoundTrip NeverMistaken OwnSource WholeFrame ProblemLocated
