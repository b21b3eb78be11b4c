SPECIFICATION Spec
CONSTANTS
  Kinds = {"udp", "tun", "tap"}
  Server = Server
  A = A
  B = B
  C = C
  Clients <- MCClients
  HostAddress <- MCHostAddress
  HostEthernet <- MCHostEthernet
  NextHop <- MCNextHop
  Segments <- MCSegments
  Noises = {1, 16, 255}
  Lossy = TRUE
  MaxWaiting = 2
  MaxTick = 1
  Garbage = Garbage
  ArpTimeout = 1
  CacheTimeout = 1
INVARIANTS Unaltered OnePeer PeerIsHeard
CHECK_DEADLOCK FALSE
