\* Liveness, so no symmetry: two event loops and a goroutine that closes.
CONSTANTS
  r1 = r1
  r2 = r2
  c1 = c1
  Reader = {r1, r2}
  Closer = {c1}
  NoOne = NoOne
  Kind <- ValidKinds
  HeaderSize = 2
  MaxFrames = 1
  MaxBatch = 1
  MaxCarried = 1
  maxRecvFDs = 2
  ReadFaults = {}
SPECIFICATION FairSpec
PROPERTIES CloseUnblocks MessagesAreFramed
