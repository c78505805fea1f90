\* Two goroutines that dispatch and one that closes; valid messages with and
\* without descriptors, cut by the reads in every way; deadlines.
CONSTANTS
  r1 = r1
  r2 = r2
  c1 = c1
  Reader = {r1, r2}
  Closer = {c1}
  NoOne = NoOne
  Kind <- ValidKinds
  HeaderSize = 2
  MaxFrames = 3
  MaxBatch = 2
  MaxCarried = 1
  maxRecvFDs = 2
  ReadFaults = {"deadline"}
SPECIFICATION Spec
SYMMETRY Symmetry
INVARIANTS TypeOK FDsConserved ClosedOwnsNoFDs FDsBelongToEvent StreamIntact BodyValid DataBeforeError
