\* Liveness, so no symmetry: two goroutines that create, destroy and
\* abandon two proxies, often the same one at once.
CONSTANTS
  Thread = {t1, t2}
  Proxy = {p1, k1}
  Callback = {k1}
  NoProxy = NoProxy
  NoThread = NoThread
  ServerBase = 5
  Capacity = 1
  Faulty = FALSE
  Fallible = FALSE
  Calls = {"destroy", "abandon", "bind", "sync"}
SPECIFICATION FairSpec
PROPERTIES  DestroyedIDComesBack
