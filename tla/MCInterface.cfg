SPECIFICATION FairSpec
CONSTANTS
  Host = {h1, h2, h3}
  Sender = {h1, h2}
  Broadcast = Broadcast
  Garbage = Garbage
  ArpTimeout = 1
  CacheTimeout = 2
  MaxDatagrams = 2
  MaxFrames = 1
  MaxTick = 1
INVARIANTS CacheSound NoneWaitsInVain DeliveredOnce
PROPERTIES AsksRarely WaitingIsReleased
