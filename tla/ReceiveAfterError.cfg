\* An event for an unknown object, followed by a valid one.
CONSTANTS
  r1 = r1
  r2 = r2
  c1 = c1
  Reader = {r1}
  Closer = {}
  NoOne = NoOne
  Kind <- ErrorKinds
  HeaderSize = 2
  MaxFrames = 2
  MaxBatch = 1
  MaxCarried = 0
  maxRecvFDs = 2
  ReadFaults = {}
SPECIFICATION Spec
PROPERTY NoEventAfterProtocolError
