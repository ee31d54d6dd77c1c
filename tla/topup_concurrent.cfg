\* Two intents, two handlers at a time.
SPECIFICATION Spec
CONSTANTS
  i1 = i1  i2 = i2  w1 = w1  w2 = w2  w3 = w3
  None = None
  Intents = {i1, i2}
  Workers = {w1, w2}
  Nets <- OneNet
  Crossed <- OneCross
  Endings <- OneEnding
SYMMETRY WorkerSymmetry
CHECK_DEADLOCK FALSE
INVARIANTS CreditsAreSound CreditGoesHome
PROPERTIES ImplementsContract
