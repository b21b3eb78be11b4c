SPECIFICATION Spec
CONSTANTS
  Width = 3
  DefaultRouter = 7
  Direct = Direct
  Broadcast = Broadcast
  Garbage = Garbage
  ArpTimeout = 1
  CacheTimeout = 2
  Interface <- MCInterface
  Routes <- MCRoutes
  Dst = {1, 6}
  Ttl = {0, 3}
  MaxDatagrams = 2
  MaxTick = 1
INVARIANTS NoCopies HopsBounded 
