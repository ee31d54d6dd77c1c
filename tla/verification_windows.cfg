\* The three windows of the scheduler, and nobody who verifies.
CONSTANTS
  r1 = r1
  r2 = r2
  Requests <- RequestsMC
  Never = Never
  Windows <- ThreeWindows
  MaxReminders = 3
  Ttl = 1
  MaxTime = 8
  MaxLinks = 2
  MaxFaults = 0
SPECIFICATION FairVerificationSpec
PROPERTIES Reminded
CHECK_DEADLOCK FALSE
