\* Two producers with every fault enabled: crashes, failed opens, timeouts
\* and malformed text.
CONSTANTS
  c1 = c1
  c2 = c2
  NoFile = NoFile
  Empty = Empty
  Clients <- TwoClients
  MaxReq = 1
  MaxCrashes = 1
  MaxOpenFails = 1
  MayTimeout = TRUE
  MayMalform = TRUE
SYMMETRY ClientSymmetry
SPECIFICATION Spec
INVARIANT TypeOK
