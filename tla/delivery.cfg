\* One account over its quota, with two browsers.  No symmetry:
\* liveness is checked.
SPECIFICATION FairSpec
CONSTANTS
  u1 = u1  s1 = s1  s2 = s2  e1 = e1  e2 = e2  n1 = n1
  None = None
  Users = {u1}
  Parties = {u1}
  Staff = {u1}
  Streams = {s1, s2}
  Owner <- MCOwner
  Endpoints = {e1, e2}
  Notices = {n1}
  Limit = 1
CHECK_DEADLOCK FALSE
INVARIANTS TypeOK RegistryServes NoticesReach NothingMissed
PROPERTIES DeadLeave
