SPECIFICATION Spec
CONSTANTS
  Byte = {"a", "b"}
  Capacity = 3
  MaxChunk = 2
  MaxSent = 5
  Pow32 = 64
INVARIANTS FIFO WithinCapacity CountersExact
