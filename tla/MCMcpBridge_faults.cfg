\* Two producers, timeouts, a torn submit, one darktable crash, under the
\* fairness of the timer callback.  No symmetry: it is unsound with a
\* liveness property.
CONSTANTS
  c1 = c1
  c2 = c2
  NoFile = NoFile
  Clients <- TwoClients
  MaxReq = 2
  MaxCrashes = 1
  MaxOpenFails = 0
  MayTimeout = TRUE
  AtomicSubmit = FALSE
SPECIFICATION FairSpec
INVARIANT TypeOK
INVARIANT AtMostOnceDispatch
INVARIANT ResponseNeverTorn
PROPERTY PollerServes
PROPERTY LifecycleSpec
