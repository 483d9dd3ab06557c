SPECIFICATION Spec
CONSTANTS
  WorkerCount = 2
  InFlight = 3
  MaxRanges = 5
  MaxStreams = 3
INVARIANTS
  PoolSound
PROPERTIES
  OrderedDelivery
  CallReturns
