\* Two requests that the wallet cannot both pay, two handlers at a time.
\* No symmetry: liveness is checked.
SPECIFICATION FairSpec
CONSTANTS
  r1 = r1  r2 = r2  w1 = w1  w2 = w2  w3 = w3
  None = None
  Requests = {r1, r2}
  Workers = {w1, w2}
  Amount <- MCAmount
  Opening = 4
CHECK_DEADLOCK FALSE
INVARIANTS FundsMatchStatus PayoutsMatchDebits
PROPERTIES ImplementsWallet PaidOutIsDebited
