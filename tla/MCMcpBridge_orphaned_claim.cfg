CONSTANTS
  c1 = c1
  c2 = c2
  NoFile = NoFile
  Clients <- OneClient
  MaxReq = 2
  MaxCrashes = 1
  MaxOpenFails = 0
  MayTimeout = TRUE
  AtomicSubmit = TRUE
SPECIFICATION Spec
INVARIANT ClaimAnswered
