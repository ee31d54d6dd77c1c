------------------------------- MODULE Wallet -------------------------------
(***************************************************************************)
(* What the money core of financial.service.ts promises for one wallet:    *)
(* funds are reserved before they are spent, a reservation is either spent *)
(* once or given back, and what is spent or reserved never exceeds what    *)
(* the wallet holds.  A claim that the provider has disputed may be spent  *)
(* after it was given back, once.  Payout.tla is shown to implement it.    *)
(***************************************************************************)
EXTENDS Integers

CONSTANTS
  Claims,   \* what may be paid from the wallet
  Price,    \* Price[c]: amount of claim c, a natural number
  Total(_), \* Total(S): amount of the claims of S together
  Opening   \* credits of the wallet, a natural number

VARIABLES
  reserved,  \* claims with an ACTIVE hold
  returned,  \* claims whose hold was given back
  spent,     \* claims debited in the ledger
  disputed   \* claims of which the provider has refused a payment

vars == <<reserved, returned, spent, disputed>>

\* getAvailableBalance: ledger balance minus ACTIVE holds.
Available == Opening - Total(spent) - Total(reserved)

Init == reserved = {} /\ returned = {} /\ spent = {} /\ disputed = {}

Reserve(c) ==
  /\ c \notin reserved \cup returned \cup spent
  /\ Price[c] <= Available
  /\ reserved' = reserved \cup {c}
  /\ UNCHANGED <<returned, spent, disputed>>

Spend(c) ==
  /\ c \in reserved
  /\ reserved' = reserved \ {c}
  /\ spent' = spent \cup {c}
  /\ UNCHANGED <<returned, disputed>>

Release(c) ==
  /\ c \in reserved
  /\ reserved' = reserved \ {c}
  /\ returned' = returned \cup {c}
  /\ UNCHANGED <<spent, disputed>>

\* The provider refuses a payment of a claim.
Dispute(c) ==
  /\ disputed' = disputed \cup {c}
  /\ UNCHANGED <<reserved, returned, spent>>

\* It has paid nevertheless, and the claim was given back meanwhile.
SpendLate(c) ==
  /\ c \in (returned \cap disputed) \ spent
  /\ spent' = spent \cup {c}
  /\ UNCHANGED <<reserved, returned, disputed>>

Next == \E c \in Claims :
  Reserve(c) \/ Spend(c) \/ Release(c) \/ Dispute(c) \/ SpendLate(c)

Spec == Init /\ [][Next]_vars

\* What is reserved and spent never exceeds what the wallet holds, but for
\* what was spent after it had been given back.
NeverOverdrawn == Available + Total(spent \cap returned) >= 0
=============================================================================
