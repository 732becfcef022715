CONSTANTS
  c1 = c1
  c2 = c2
  NoFile = NoFile
  Empty = Empty
  Clients <- TwoClients
  MaxReq = 2
  MaxCrashes = 1
  MaxOpenFails = 0
  MayTimeout = TRUE
  MayMalform = TRUE
SYMMETRY ClientSymmetry
SPECIFICATION Spec
INVARIANT AtMostOnceDispatch
