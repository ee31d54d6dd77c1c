\* The way a reminder is sent, once an account is selected: one window, two
\* concurrent requests, one failure.  With the windows of the scheduler no account
\* is selected (verification_windows).
CONSTANTS
  r1 = r1
  r2 = r2
  Requests <- RequestsMC
  Never = Never
  Windows <- OneWindow
  MaxReminders = 3
  Ttl = 1
  MaxTime = 2
  MaxLinks = 4
  MaxFaults = 1
SPECIFICATION FairVerificationSpec
INVARIANTS MailsAreCounted
PROPERTIES SweepsGoOn
