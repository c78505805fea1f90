\* One goroutine dispatches messages of every kind, malformed ones and ones
\* with too many or too few descriptors included; every fault of a read.
CONSTANTS
  r1 = r1
  r2 = r2
  c1 = c1
  Reader = {r1}
  Closer = {c1}
  NoOne = NoOne
  Kind <- AnyKinds
  HeaderSize = 2
  MaxFrames = 2
  MaxBatch = 2
  MaxCarried = 2
  maxRecvFDs = 1
  ReadFaults = {"deadline", "transport"}
SPECIFICATION Spec
INVARIANTS FDsConserved ClosedOwnsNoFDs DataBeforeError
