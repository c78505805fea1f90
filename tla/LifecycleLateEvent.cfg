\* One goroutine destroys the proxy whose event is being dispatched.
CONSTANTS
  Thread = {t1}
  Proxy = {p1}
  Callback = {}
  NoProxy = NoProxy
  NoThread = NoThread
  ServerBase = 4
  Capacity = 1
  Faulty = FALSE
  Fallible = FALSE
  Calls = {"destroy", "bind"}
SPECIFICATION Spec
PROPERTY NoEventAfterDestroy
