\* Two goroutines, a compositor that follows the protocol, every call, failing
\* writes; one ordinary proxy and one callback, whose IDs are recycled.
CONSTANTS
  Thread = {t1, t2}
  Proxy = {p1, k1}
  Callback = {k1}
  NoProxy = NoProxy
  NoThread = NoThread
  ServerBase = 5
  Capacity = 1
  Faulty = FALSE
  Fallible = TRUE
  Calls = {"request", "destroy", "abandon", "bind", "sync", "close"}
SPECIFICATION Spec
SYMMETRY Symmetry
INVARIANTS SendInv LeaseInv FreedIDsAreUnused CompositorConsistent DeliveredToAddressee LateEventsDropped NoSpuriousError
PROPERTIES NoRequestAfterDestructor ImplementsIDLease
