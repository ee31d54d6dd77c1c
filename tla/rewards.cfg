\* Two missions that the fraud rule may flag, and two requests.
SPECIFICATION Spec
CONSTANTS
  m1 = m1  m2 = m2  m3 = m3  r1 = r1  r2 = r2  t1 = t1
  None = None
  Missions = {m1, m2}
  Requests = {r1, r2}
  Margin <- MCMargin
  Technician <- MCTechnician
  Countable = {m1, m2}
  Tranche = 2
  PerTranche = 1
  Tiers = {4}
  Natures = {2}
  Window = 2
  MaxTime = 1
SYMMETRY RequestSymmetry
CHECK_DEADLOCK FALSE
INVARIANTS MarginIsSum CreditsBounded ClaimedIsPaid FlaggedWaits
