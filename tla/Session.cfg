\* Two goroutines that watch, bind, wait and dispatch at once; the compositor
\* announces and withdraws two globals at any time.
CONSTANTS
  hIface = hIface
  hAll = hAll
  hRemove = hRemove
  a = a
  b = b
  Plan <- Plans
  Offer <- SeatOffers
  Handler <- AllHandlers
  WatchOf <- HandlerKinds
  Thread = {a, b}
  SyncCallback = {c1, c2}
  FrameCallback = {f1}
  Proxy = {p1}
  Supported = {1, 3}
  NoThread = NoThread
  NoObject = NoObject
SPECIFICATION FairSpec
CHECK_DEADLOCK FALSE
INVARIANTS NoGlobalMissed BindsAsAnnounced
PROPERTIES   LoopsReturn
