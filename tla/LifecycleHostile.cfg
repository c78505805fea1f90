\* A compositor that sends any event and any delete_id, and UnregisterID; one
\* ID for two proxies, so that IDs run out.
CONSTANTS
  Thread = {t1}
  Proxy = {p1, p2}
  Callback = {}
  NoProxy = NoProxy
  NoThread = NoThread
  ServerBase = 4
  Capacity = 1
  Faulty = TRUE
  Fallible = FALSE
  Calls = {"request", "destroy", "bind", "unregisterID"}
SPECIFICATION Spec
SYMMETRY Symmetry
INVARIANTS TypeOK FreeListSound
