\* Two concurrent requests on one account.
CONSTANTS
  r1 = r1
  r2 = r2
  first = first
  second = second
  Callers <- CallersMC
  Passwords <- PasswordsMC
  First = first
  NoPassword = NoPassword
  MaxPerEmail = 1
  MaxLinks = 1
  MaxPictures = 3
  MaxDemandes = 1
SPECIFICATION SessionsSpec
SYMMETRY Symmetry
CHECK_DEADLOCK FALSE
INVARIANTS SessionFollowsPassword AvatarExists
