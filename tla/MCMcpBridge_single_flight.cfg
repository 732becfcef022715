\* One patient producer (no timeout); darktable may crash once and one
\* open of the temp response may fail.  The producer really may wait
\* forever on a request the poller dropped, so deadlock is not checked.
CONSTANTS
  c1 = c1
  c2 = c2
  NoFile = NoFile
  Clients <- OneClient
  MaxReq = 3
  MaxCrashes = 1
  MaxOpenFails = 1
  MayTimeout = FALSE
  AtomicSubmit = FALSE
SPECIFICATION Spec
INVARIANT ResponseCorrelated
CHECK_DEADLOCK FALSE
