\* A conforming compositor and reads that cut the stream.
CONSTANTS
  r1 = r1
  r2 = r2
  c1 = c1
  Reader = {r1}
  Closer = {}
  NoOne = NoOne
  Kind <- TwoKinds
  HeaderSize = 2
  MaxFrames = 2
  MaxBatch = 2
  MaxCarried = 1
  maxRecvFDs = 2
  ReadFaults = {}
SPECIFICATION Spec
INVARIANT NoErrorAtReadBoundary
