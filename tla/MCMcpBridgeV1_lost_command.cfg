CONSTANTS
  c1 = c1
  c2 = c2
  NoFile = NoFile
  Empty = Empty
  Clients <- OneClient
  MaxReq = 2
  MaxCrashes = 0
  MaxOpenFails = 0
  MayTimeout = TRUE
  MayMalform = FALSE
SPECIFICATION Spec
INVARIANT WaitingRequestKept
