\* Four calls on one token; one restart; quotas of one and two calls a window.
CONSTANTS
  q1 = q1
  q2 = q2
  q3 = q3
  q4 = q4
  t1 = t1
  fit = fit
  unfit = unfit
  Requests <- RequestsMC
  Tokens <- TokensMC
  Contents <- ContentsMC
  Unfit <- UnfitMC
  Limit <- LimitMC
  Retention = 1
  Window = 2
  MaxAttempts = 2
  MaxTime = 2
  MaxCrashes = 1
  None = None
SPECIFICATION Spec
SYMMETRY Symmetry
CHECK_DEADLOCK FALSE
INVARIANTS ConvertedOnce SuccessIsMarked RegistryRuns MediaStored QuotaHolds
PROPERTIES TraceKept
