------------------------------- MODULE Payout -------------------------------
(***************************************************************************)
(* Withdrawals (payout) of one user: WithdrawalRequest rows, the FundsHold *)
(* that freezes the amount of each, the WITHDRAWAL debits of the ledger,   *)
(* and the handlers that talk to SasPay and settle a request.              *)
(*                                                                         *)
(*   createWithdrawalRequest, initializeWithdrawalPayout,                  *)
(*   verifyWithdrawalPayout, handlePayoutEvent (webhook),                  *)
(*   settleWithdrawalSuccess, settleWithdrawalFailure                      *)
(*                                                                         *)
(* Handlers are cut as in Topup: at each await on SasPay, and in the two   *)
(* settle transactions between the read of the status and lockUserFunds,   *)
(* after which the status is not read again.  The wallets of two users     *)
(* share no row and no lock, so one user is modelled.  A payout is named   *)
(* by the request whose idempotency key opened it.                         *)
(***************************************************************************)
EXTENDS Integers, Sequences, FiniteSets, Functions

CONSTANTS
  Requests,  \* withdrawal requests, each with its reference and key
  Workers,   \* concurrent handlers of the server
  None,      \* an absent reference (SQL NULL)
  Amount,    \* Amount[r]: the net amount asked, the amount of the hold
  Opening    \* credits of the wallet

ASSUME PayoutAssumption ==
  /\ None \notin Requests
  /\ Amount \in [Requests -> Nat \ {0}]
  /\ Opening \in Nat

VARIABLES
  request,  \* WithdrawalRequest rows
  hold,     \* status of the FundsHold created with the request
  ledger,   \* WITHDRAWAL entries of FinancialTransaction, in creation order
  payout,   \* status of the payouts as SasPay knows them
  refused,  \* requests of which SasPay has refused a call for good
  call      \* what each worker is doing

vars == <<request, hold, ledger, payout, refused, call>>

Closed       == {"FAILED", "CANCELLED"}
Status       == {"NONE", "PENDING", "SUCCESS"} \cup Closed
HoldStatus   == {"NONE", "ACTIVE", "CONSUMED", "RELEASED"}
Ref          == Requests \cup {None}

Row     == [status : Status, tx : Ref]
Entry   == [request : Requests, amount : Nat]
PCs     == {"idle", "init.send", "init.wait", "init.store", "verify.ask",
            "settle.read", "settle.commit", "fail.read", "fail.commit"}
CallSet == [pc : PCs, request : Ref, outcome : Status]

At(pc, r, o) == [pc |-> pc, request |-> r, outcome |-> o]
Idle         == At("idle", None, "NONE")
Goto(w, c)   == call' = [call EXCEPT ![w] = c]
Done(w)      == Goto(w, Idle)

Init ==
  /\ request = [r \in Requests |-> [status |-> "NONE", tx |-> None]]
  /\ hold    = [r \in Requests |-> "NONE"]
  /\ ledger  = << >>
  /\ payout  = [r \in Requests |-> "NONE"]
  /\ refused = {}
  /\ call    = [w \in Workers |-> Idle]

-----------------------------------------------------------------------------
(* Balances.                                                               *)

Total(S)  == SumFunctionOnSet(Amount, S)
DebitedNone == {}  \* Mutant: the unique reference of the debit is not looked for.
Debited   == {ledger[k].request : k \in 1..Len(ledger)}
Held      == {r \in Requests : hold[r] = "ACTIVE"}
Returned  == {r \in Requests : hold[r] = "RELEASED"}
Available == Opening - Total(Debited) - Total(Held)

\* Mutant: the balance of the ledger is checked, not what is available.
CreateOnLedgerBalance(r) ==
  /\ request[r].status = "NONE"
  /\ Amount[r] <= Opening - Total(Debited)
  /\ hold' = [hold EXCEPT ![r] = "ACTIVE"]
  /\ request' = [request EXCEPT ![r].status = "PENDING"]
  /\ UNCHANGED <<ledger, payout, refused, call>>

\* createWithdrawalRequest: balance check, hold and row in one transaction
\* under the user's lock; a replayed key returns the row unchanged.
CreateWithdrawalRequest(r) ==
  /\ request[r].status = "NONE"
  /\ Amount[r] <= Available
  /\ hold' = [hold EXCEPT ![r] = "ACTIVE"]
  /\ request' = [request EXCEPT ![r].status = "PENDING"]
  /\ UNCHANGED <<ledger, payout, refused, call>>

-----------------------------------------------------------------------------
(* initializeWithdrawalPayout.                                             *)

InitRead(w, r) ==
  /\ call[w] = Idle
  /\ request[r].status = "PENDING"
  /\ request[r].tx = None
  /\ Goto(w, At("init.send", r, "NONE"))
  /\ UNCHANGED <<request, hold, ledger, payout, refused>>

\* SasPay accepts; a replayed key finds the same payout.
InitSend(w) ==
  LET r == call[w].request IN
  /\ call[w].pc = "init.send"
  /\ payout' = [payout EXCEPT ![r] = IF @ = "NONE" THEN "PENDING" ELSE @]
  /\ Goto(w, At("init.wait", r, "NONE"))
  /\ UNCHANGED <<request, hold, ledger, refused>>

\* Mutant: a timeout after the request was sent counts as a refusal.
RefusedOnTimeout(w) ==
  LET r == call[w].request IN
  /\ call[w].pc \in {"init.send", "init.wait"}
  /\ Goto(w, At("fail.read", r, "FAILED"))
  /\ UNCHANGED <<request, hold, ledger, payout, refused>>

\* A terminal 4xx.  It may come for a key that has opened a payout already:
\* 409 when the retry carries another number or network, 403 when the access
\* of the server changed in between.  A later call may be accepted again.
InitRefused(w) ==
  LET r == call[w].request IN
  /\ call[w].pc = "init.send"
  /\ refused' = refused \cup {r}
  /\ Goto(w, At("fail.read", r, "FAILED"))
  /\ UNCHANGED <<request, hold, ledger, payout>>

InitReply(w) ==
  /\ call[w].pc = "init.wait"
  /\ Goto(w, At("init.store", call[w].request, "NONE"))
  /\ UNCHANGED <<request, hold, ledger, payout, refused>>

\* Store the payout id whatever the row has become.
InitStore(w) ==
  LET r == call[w].request IN
  /\ call[w].pc = "init.store"
  /\ request' = [request EXCEPT ![r].tx = r]
  /\ Done(w)
  /\ UNCHANGED <<hold, ledger, payout, refused>>

-----------------------------------------------------------------------------
(* Verification by the user, and webhook.                                  *)

\* verifyWithdrawalPayout: any row not SUCCESS that has a payout id.
VerifyRead(w, r) ==
  /\ call[w] = Idle
  /\ request[r].status \notin {"NONE", "SUCCESS"}
  /\ request[r].tx # None
  /\ Goto(w, At("verify.ask", r, "NONE"))
  /\ UNCHANGED <<request, hold, ledger, payout, refused>>

\* How the outcome of a payout is handled, whoever reports it.
Settle(w, r, s) ==
  IF s = "SUCCESS" THEN Goto(w, At("settle.read", r, "NONE"))
                   ELSE Goto(w, At("fail.read", r, s))

\* Mutant: the status is shown to the user and nothing is settled.
VerifyShowsOnly(w) ==
  /\ call[w].pc = "verify.ask"
  /\ Done(w)
  /\ UNCHANGED <<request, hold, ledger, payout, refused>>

VerifyAnswer(w) ==
  LET r == call[w].request IN
  /\ call[w].pc = "verify.ask"
  /\ IF payout[r] \in {"SUCCESS"} \cup Closed THEN Settle(w, r, payout[r]) ELSE Done(w)
  /\ UNCHANGED <<request, hold, ledger, payout, refused>>

\* findWithdrawalReferenceBySasPay: the payout leads to its request once the id
\* is stored.
Known(r) == request[r].tx = r

\* handleEvent / handlePayoutEvent: the final event arrives, possibly late or
\* again.  It finds the request by its stored payout id only; an event that
\* comes before the id is stored goes to the pay-in flow and has no effect.
Webhook(w, r) ==
  /\ call[w] = Idle
  /\ payout[r] \in {"SUCCESS"} \cup Closed
  /\ Known(r)
  /\ Settle(w, r, payout[r])
  /\ UNCHANGED <<request, hold, ledger, payout, refused>>

-----------------------------------------------------------------------------
(* settleWithdrawalSuccess.                                                *)

SettleRead(w) ==
  LET r == call[w].request IN
  /\ call[w].pc = "settle.read"
  /\ request[r].status = "PENDING"
  /\ Goto(w, At("settle.commit", r, "NONE"))
  /\ UNCHANGED <<request, hold, ledger, payout, refused>>

\* SUCCESS already: nothing to do.  FAILED or CANCELLED: 409, swallowed.
SettleNothing(w) ==
  /\ call[w].pc = "settle.read"
  /\ request[call[w].request].status # "PENDING"
  /\ Done(w)
  /\ UNCHANGED <<request, hold, ledger, payout, refused>>

\* Mutant: the hold is not consumed.
SettleCommitKeepsHold(w) ==
  LET r == call[w].request IN
  /\ call[w].pc = "settle.commit"
  /\ ledger' = IF r \in Debited THEN ledger
                 ELSE Append(ledger, [request |-> r, amount |-> Amount[r]])
  /\ request' = [request EXCEPT ![r] = [status |-> "SUCCESS", tx |-> r]]
  /\ Done(w)
  /\ UNCHANGED <<hold, payout, refused>>

\* Under the lock: record the debit once, consume the hold if still ACTIVE.
SettleCommit(w) ==
  LET r == call[w].request IN
  /\ call[w].pc = "settle.commit"
  /\ ledger' = IF r \in Debited THEN ledger
                 ELSE Append(ledger, [request |-> r, amount |-> Amount[r]])
  /\ hold' = [hold EXCEPT ![r] = IF @ = "ACTIVE" THEN "CONSUMED" ELSE @]
  /\ request' = [request EXCEPT ![r] = [status |-> "SUCCESS", tx |-> r]]
  /\ Done(w)
  /\ UNCHANGED <<payout, refused>>

-----------------------------------------------------------------------------
(* settleWithdrawalFailure.                                                *)

FailRead(w) ==
  LET c == call[w] IN
  /\ c.pc = "fail.read"
  /\ IF request[c.request].status = "PENDING"
       THEN Goto(w, [c EXCEPT !.pc = "fail.commit"])
       ELSE Done(w)
  /\ UNCHANGED <<request, hold, ledger, payout, refused>>

FailCommit(w) ==
  LET c == call[w] IN
  /\ c.pc = "fail.commit"
  /\ hold' = [hold EXCEPT ![c.request] = IF @ = "ACTIVE" THEN "RELEASED" ELSE @]
  /\ request' = [request EXCEPT ![c.request].status = c.outcome]
  /\ Done(w)
  /\ UNCHANGED <<ledger, payout, refused>>

-----------------------------------------------------------------------------
(* Timeouts, provider errors, crashes, and SasPay itself.                  *)

Abort(w) ==
  /\ call[w] # Idle
  /\ Done(w)
  /\ UNCHANGED <<request, hold, ledger, payout, refused>>

PayoutEnds(r) ==
  /\ payout[r] = "PENDING"
  /\ \E s \in {"SUCCESS"} \cup Closed : payout' = [payout EXCEPT ![r] = s]
  /\ UNCHANGED <<request, hold, ledger, refused, call>>

Step(w) ==
  \/ InitSend(w) \/ InitRefused(w) \/ InitReply(w) \/ InitStore(w)
  \/ VerifyAnswer(w)
  \/ SettleRead(w) \/ SettleNothing(w) \/ SettleCommit(w)
  \/ FailRead(w) \/ FailCommit(w)
  \/ Abort(w)

Begin(w) == \E r \in Requests : InitRead(w, r) \/ VerifyRead(w, r) \/ Webhook(w, r)

Next ==
  \/ \E r \in Requests : CreateWithdrawalRequest(r) \/ PayoutEnds(r)
  \/ \E w \in Workers : Begin(w) \/ Step(w)

Spec == Init /\ [][Next]_vars

(* A started handler ends (the call to SasPay has a timeout), and the user *)
(* keeps asking for the verification of a request that is not SUCCESS: a   *)
(* verification repeated forever gets through each of its steps again and  *)
(* again, for each request.                                                *)
Fairness ==
  /\ \A w \in Workers : WF_vars(Step(w))
  /\ \A r \in Requests :
       /\ SF_vars(\E w \in Workers : VerifyRead(w, r))
       /\ SF_vars(\E w \in Workers : call[w].request = r /\ VerifyAnswer(w))
       /\ SF_vars(\E w \in Workers : call[w].request = r /\ SettleRead(w))
       /\ SF_vars(\E w \in Workers : call[w].request = r /\ SettleCommit(w))

FairSpec == Spec /\ Fairness

-----------------------------------------------------------------------------
(* Properties.                                                             *)

TypeOK ==
  /\ request \in [Requests -> Row]
  /\ hold \in [Requests -> HoldStatus]
  /\ ledger \in Seq(Entry)
  /\ payout \in [Requests -> Status]
  /\ refused \subseteq Requests
  /\ call \in [Workers -> CallSet]

\* A withdrawal is debited at most once and for the net amount asked, never
\* for the gross sent to SasPay, and only if SasPay has paid it out.
DebitedOncePaid ==
  /\ \A j, k \in 1..Len(ledger) : ledger[j].request = ledger[k].request => j = k
  /\ \A k \in 1..Len(ledger) :
       /\ ledger[k].amount = Amount[ledger[k].request]
       /\ payout[ledger[k].request] = "SUCCESS"

\* The three views of a request agree: "PENDING = hold ACTIVE (aucun débit),
\* SUCCESS = débit définitif + hold CONSUMED, FAILED/CANCELLED = hold RELEASED,
\* aucune écriture".  When SasPay has both paid a request and refused a call
\* with its key, success and failure may be settled in either order, and then
\* the row may show one and the hold the other; but even then a request is
\* frozen exactly while it is PENDING, nothing is debited before, and what is
\* shown as SUCCESS or consumed is debited.
FundsMatchStatus ==
  \A r \in Requests :
    LET s == request[r].status IN
    /\ hold[r] = "NONE" <=> s = "NONE"
    /\ hold[r] = "ACTIVE" <=> s = "PENDING"
    /\ hold[r] = "CONSUMED" \/ s = "SUCCESS" => r \in Debited
    /\ r \in Debited => \/ hold[r] = "CONSUMED" /\ s = "SUCCESS"
                        \/ r \in refused /\ s \notin {"NONE", "PENDING"}

\* Holds and debits together never exceed the credits, whatever is created,
\* settled and released meanwhile, but for debits of holds given back before:
\* SasPay had refused a call of such a request, and paid it out.
NeverOverdrawn == Available + Total(Debited \cap Returned) >= 0

\* Money that SasPay has paid out is frozen in the wallet or debited from it.
\* A timeout, a crash or a lost event never gives it back to the user: only an
\* explicit refusal of another call with the same key does.
MoneyOutIsCovered ==
  \A r \in Requests : payout[r] = "SUCCESS" =>
    hold[r] \in {"ACTIVE", "CONSUMED"} \/ r \in refused

\* Debits and payouts answer for each other: no debit without a payout, and
\* no payout whose money the user may spend again, unless SasPay refused too.
PayoutsMatchDebits == DebitedOncePaid /\ MoneyOutIsCovered

\* A payout that succeeded is debited in the end, once its id is known, unless
\* a refusal of another call with its key has closed the request before.
PaidOutIsDebited ==
  \A r \in Requests :
    (payout[r] = "SUCCESS" /\ Known(r))
      ~> (r \in Debited \/ (r \in refused /\ request[r].status \in Closed))

\* The holds and debits of the withdrawals implement the wallet.
Funds == INSTANCE Wallet WITH
  Claims <- Requests, Price <- Amount, Total <- Total,
  reserved <- Held, returned <- Returned, spent <- Debited, disputed <- refused

ImplementsWallet == Funds!Spec
=============================================================================
