\* Liveness: one intent, two handlers at a time; no symmetry.
SPECIFICATION FairSpec
CONSTANTS
  i1 = i1  i2 = i2  w1 = w1  w2 = w2  w3 = w3
  None = None
  Intents = {i1}
  Workers = {w1, w2}
  Nets <- MCNets
  Crossed <- NoCross
  Endings <- BothEndings
CHECK_DEADLOCK FALSE
PROPERTIES PaidIsCredited
