\* One producer that never gives up may wait forever for a request the
\* poller dropped, so deadlock is not checked.
CONSTANTS
  c1 = c1
  c2 = c2
  NoFile = NoFile
  Empty = Empty
  Clients <- OneClient
  MaxReq = 2
  MaxCrashes = 0
  MaxOpenFails = 1
  MayTimeout = FALSE
  MayMalform = FALSE
SPECIFICATION Spec
INVARIANT AtMostOnceDispatch
CHECK_DEADLOCK FALSE
