------------------------------- MODULE Topup -------------------------------
(***************************************************************************)
(* Wallet top-up (pay-in) of Relio: TopupIntent rows, the CLIENT_TOPUP     *)
(* credits of the ledger, and the server handlers that settle an intent    *)
(* after the provider SasPay has collected the money.                      *)
(*                                                                         *)
(*   createTopupIntent, initializeTopupPayment, verifyTopupPayment,        *)
(*   handleEvent (webhook), confirmTopupFromSasPay, finalizeTopupSuccessTx,*)
(*   failTopupIntent, cancelTopupIntent                                    *)
(*                                                                         *)
(* A handler runs on a worker and is cut where other handlers can get in   *)
(* between: at every await on the provider, and between two database       *)
(* statements of which the second trusts the first.  From lockUserFunds to *)
(* COMMIT a transaction only meets writers that wait for it, so that part  *)
(* is one step.                                                            *)
(*                                                                         *)
(* The idempotency key sent to SasPay is the intent's own key, so a SasPay *)
(* payment is named here by the intent it was created for.  A net amount   *)
(* of 0 stands for any payload that the accounting controls refuse (wrong  *)
(* currency, wrong requested amount, no valid net).                        *)
(***************************************************************************)
EXTENDS Naturals, Sequences

CONSTANTS
  Intents,  \* top-up intents, each with its own reference and idempotency key
  Workers,  \* concurrent handlers of the server
  None,     \* an absent reference (SQL NULL)
  Nets,     \* net amounts a payment may report, 0 = refused by the controls
  Crossed,  \* pairs <<p, i>>: the event of payment p may name intent i
  Endings   \* how a payment may end without success: FAILED, CANCELLED

ASSUME TopupAssumption ==
  /\ None \notin Intents
  /\ Nets \subseteq Nat
  /\ Crossed \subseteq Intents \X Intents
  /\ Endings \subseteq {"FAILED", "CANCELLED"}

VARIABLES
  intent,   \* TopupIntent rows
  ledger,   \* CLIENT_TOPUP entries of FinancialTransaction, in creation order
  payment,  \* the payments as SasPay knows them
  call      \* what each worker is doing

vars == <<intent, ledger, payment, call>>

Closed == {"FAILED", "CANCELLED"}
Status == {"NONE", "PENDING", "SUCCESS"} \cup Closed
Ref    == Intents \cup {None}

Row     == [status : Status, tx : Ref, credited : Nat]
Entry   == [intent : Intents, tx : Intents, amount : Nat]
Payment == [status : Status, sent : SUBSET Status, net : Nat]
PCs     == {"idle", "init.send", "init.wait", "init.store", "verify.ask",
            "fail.read", "fail.write",
            "confirm.read", "confirm.check", "confirm.commit"}
CallSet == [pc : PCs, intent : Ref, tx : Ref, net : Nat, outcome : Status, named : BOOLEAN]

\* tx is the payment the call is about; the server knows it only if named.
At(pc, i, t, n, o) ==
  [pc |-> pc, intent |-> i, tx |-> t, net |-> n, outcome |-> o, named |-> TRUE]

Idle == At("idle", None, None, 0, "NONE")

Goto(w, c) == call' = [call EXCEPT ![w] = c]
Done(w)    == Goto(w, Idle)

Init ==
  /\ intent  = [i \in Intents |-> [status |-> "NONE", tx |-> None, credited |-> 0]]
  /\ ledger  = << >>
  /\ payment = [p \in Intents |-> [status |-> "NONE", sent |-> {}, net |-> 0]]
  /\ call    = [w \in Workers |-> Idle]

-----------------------------------------------------------------------------
(* Client: create the intent, then open the SasPay payment.                *)

\* A replay of the idempotency key returns the row unchanged.
CreateTopupIntent(i) ==
  /\ intent[i].status = "NONE"
  /\ intent' = [intent EXCEPT ![i].status = "PENDING"]
  /\ UNCHANGED <<ledger, payment, call>>

\* initializeTopupPayment: only a PENDING row without payment calls SasPay.
InitRead(w, i) ==
  /\ call[w] = Idle
  /\ intent[i].status = "PENDING"
  /\ intent[i].tx = None
  /\ Goto(w, At("init.send", i, None, 0, "NONE"))
  /\ UNCHANGED <<intent, ledger, payment>>

\* SasPay receives the request; a replayed key finds the same payment.
InitSend(w) ==
  LET i == call[w].intent IN
  /\ call[w].pc = "init.send"
  /\ IF payment[i].status = "NONE"
       THEN \E n \in Nets : payment' = [payment EXCEPT
              ![i] = [status |-> "PENDING", sent |-> {}, net |-> n]]
       ELSE UNCHANGED payment
  /\ Goto(w, At("init.wait", i, None, 0, "NONE"))
  /\ UNCHANGED <<intent, ledger>>

\* A terminal 4xx, or 409 for a key already used with another content.
InitRefused(w) ==
  /\ call[w].pc = "init.send"
  /\ Goto(w, At("fail.read", call[w].intent, None, 0, "FAILED"))
  /\ UNCHANGED <<intent, ledger, payment>>

\* The 201 answer carries the status the payment has by then.
InitReply(w) ==
  LET i == call[w].intent IN
  /\ call[w].pc = "init.wait"
  /\ Goto(w, At("init.store", i, i, 0, payment[i].status))
  /\ UNCHANGED <<intent, ledger, payment>>

\* Store the payment id whatever the row has become; a payment that failed
\* at once closes the intent.
InitStore(w) ==
  LET c == call[w] IN
  /\ c.pc = "init.store"
  /\ intent' = [intent EXCEPT ![c.intent].tx = c.tx]
  /\ IF c.outcome \in Closed
       THEN Goto(w, At("fail.read", c.intent, None, 0, c.outcome))
       ELSE Done(w)
  /\ UNCHANGED <<ledger, payment>>

-----------------------------------------------------------------------------
(* What can settle an intent: the client's verify call and the webhook.    *)

\* verifyTopupPayment: any row not SUCCESS that has a payment id.
VerifyRead(w, i) ==
  /\ call[w] = Idle
  /\ intent[i].status \notin {"NONE", "SUCCESS"}
  /\ intent[i].tx # None
  /\ Goto(w, At("verify.ask", i, intent[i].tx, 0, "NONE"))
  /\ UNCHANGED <<intent, ledger, payment>>

VerifyAnswer(w) ==
  LET c == call[w]
      p == payment[c.tx]
  IN
  /\ c.pc = "verify.ask"
  /\ CASE p.status = "SUCCESS"  -> Goto(w, At("confirm.read", c.intent, c.tx, p.net, "NONE"))
       [] p.status \in Closed   -> Goto(w, At("fail.read", c.intent, None, 0, p.status))
       [] OTHER                 -> Done(w)
  /\ UNCHANGED <<intent, ledger, payment>>

\* The intents an event of payment p may name.
NamedBy(p) == {p} \cup {x \in Intents : <<p, x>> \in Crossed}

\* What an event may carry: the payment id, the internal reference, or both.
Carried(p) == (({None} \cup NamedBy(p)) \X {TRUE}) \cup (NamedBy(p) \X {FALSE})

\* handleEvent: an event the provider has emitted arrives, possibly late,
\* again, out of order, without one of its references or without the amounts.
Webhook(w, p, s) ==
  /\ call[w] = Idle
  /\ s \in payment[p].sent
  /\ \E r \in Carried(p) :
       IF s = "SUCCESS"
         THEN \E n \in {0, payment[p].net} :
                Goto(w, [At("confirm.read", r[1], p, n, "NONE") EXCEPT !.named = r[2]])
         ELSE Goto(w, [At("fail.read", r[1], p, 0, s) EXCEPT !.named = r[2]])
  /\ UNCHANGED <<intent, ledger, payment>>

\* Mutant: without an internal reference, any row will do.
TargetAny(c) ==
  {i \in Intents : intent[i].status # "NONE" /\ (c.intent = None \/ i = c.intent)}

\* The rows a call may be about: by reference, else by stored payment id.
Target(c) ==
  {i \in Intents : /\ intent[i].status # "NONE"
                   /\ IF c.intent # None THEN i = c.intent ELSE intent[i].tx = c.tx}

-----------------------------------------------------------------------------
(* failTopupIntent / cancelTopupIntent: read, then write without a lock.   *)

FailRead(w) ==
  LET c == call[w] IN
  /\ c.pc = "fail.read"
  /\ \/ \E i \in Target(c) :
          /\ intent[i].status = "PENDING"
          /\ Goto(w, At("fail.write", i, None, 0, c.outcome))
     \/ /\ \E i \in Target(c) : intent[i].status # "PENDING"
        /\ Done(w)
     \/ Target(c) = {} /\ Done(w)
  /\ UNCHANGED <<intent, ledger, payment>>

FailWrite(w) ==
  LET c == call[w] IN
  /\ c.pc = "fail.write"
  /\ intent' = [intent EXCEPT ![c.intent].status = c.outcome]
  /\ Done(w)
  /\ UNCHANGED <<ledger, payment>>

-----------------------------------------------------------------------------
(* confirmTopupFromSasPay: read and control, check the payment, commit.    *)

\* Mutant: a success that comes after a failure is refused.
CreditablePending(i) == intent[i].status = "PENDING" /\ intent[i].credited = 0

Creditable(i) == intent[i].status # "SUCCESS" /\ intent[i].credited = 0

\* Mutant: the control of the net amount is dropped.
ConfirmAcceptAnyNet(w) ==
  LET c == call[w] IN
  /\ c.pc = "confirm.read"
  /\ \E i \in Target(c) :
       /\ Creditable(i)
       /\ Goto(w, [c EXCEPT !.pc = "confirm.check", !.intent = i])
  /\ UNCHANGED <<intent, ledger, payment>>

ConfirmAccept(w) ==
  LET c == call[w] IN
  /\ c.pc = "confirm.read"
  /\ c.net > 0
  /\ \E i \in Target(c) :
       /\ Creditable(i)
       /\ Goto(w, [c EXCEPT !.pc = "confirm.check", !.intent = i])
  /\ UNCHANGED <<intent, ledger, payment>>

\* The controls refuse: the FAILED update is rolled back with the transaction
\* when fail() throws.
ConfirmRefused(w) ==
  LET c == call[w] IN
  /\ c.pc = "confirm.read"
  /\ c.net = 0
  /\ \E i \in Target(c) : Creditable(i)
  /\ Done(w)
  /\ UNCHANGED <<intent, ledger, payment>>

\* Unknown reference, already SUCCESS, or already credited.
ConfirmNothing(w) ==
  LET c == call[w] IN
  /\ c.pc = "confirm.read"
  /\ Target(c) = {} \/ \E i \in Target(c) : ~Creditable(i)
  /\ Done(w)
  /\ UNCHANGED <<intent, ledger, payment>>

\* Another intent already consumed this payment: read before the lock, and
\* only for an event that carries the payment id.
AlreadyUsed(c) ==
  /\ c.named
  /\ \E j \in Intents \ {c.intent} : intent[j].tx = c.tx /\ intent[j].status = "SUCCESS"

ConfirmCheck(w) ==
  LET c == call[w] IN
  /\ c.pc = "confirm.check"
  /\ IF AlreadyUsed(c)
       THEN Done(w)
       ELSE Goto(w, [c EXCEPT !.pc = "confirm.commit"])
  /\ UNCHANGED <<intent, ledger, payment>>

\* Mutant: the unique reference of the entry is not looked for.
NoEntryOf(i) == {}

\* record(): the entry that already carries the reference, else a new one.
EntriesOf(i) == {k \in 1..Len(ledger) : ledger[k].intent = i}

\* The payment id the row keeps: that of the event if it carries one.
TxAfter(c) == IF c.named THEN c.tx ELSE intent[c.intent].tx

\* Mutant: the row is not linked to its credit.
ConfirmCommitUnlinked(w) ==
  LET c == call[w] IN
  /\ c.pc = "confirm.commit"
  /\ ledger' = IF EntriesOf(c.intent) # {} THEN ledger
                 ELSE Append(ledger, [intent |-> c.intent, tx |-> c.tx, amount |-> c.net])
  /\ intent' = [intent EXCEPT ![c.intent].status = "SUCCESS", ![c.intent].tx = TxAfter(c)]
  /\ Done(w)
  /\ UNCHANGED payment

ConfirmCommit(w) ==
  LET c == call[w] IN
  /\ c.pc = "confirm.commit"
  /\ IF EntriesOf(c.intent) = {}
       THEN /\ ledger' = Append(ledger,
                 [intent |-> c.intent, tx |-> c.tx, amount |-> c.net])
            /\ intent' = [intent EXCEPT ![c.intent] =
                 [status |-> "SUCCESS", tx |-> TxAfter(c), credited |-> Len(ledger) + 1]]
       ELSE /\ \E k \in EntriesOf(c.intent) : intent' = [intent EXCEPT ![c.intent] =
                 [status |-> "SUCCESS", tx |-> TxAfter(c), credited |-> k]]
            /\ UNCHANGED ledger
  /\ Done(w)
  /\ UNCHANGED payment

-----------------------------------------------------------------------------
(* Timeouts, provider errors, server crashes, and the provider itself.     *)

\* The handler ends early: a retryable provider error, a timeout, a crash.
\* An open transaction is rolled back; committed writes stay.
Abort(w) ==
  /\ call[w] # Idle
  /\ Done(w)
  /\ UNCHANGED <<intent, ledger, payment>>

\* A payment ends, or succeeds after having been announced as failed.
PaymentEnds(p) ==
  /\ \/ payment[p].status = "PENDING"
     \/ payment[p].status \in Closed
  /\ \E s \in {"SUCCESS"} \cup (IF payment[p].status = "PENDING" THEN Endings ELSE {}) :
       payment' = [payment EXCEPT ![p].status = s, ![p].sent = @ \cup {s}]
  /\ UNCHANGED <<intent, ledger, call>>

Step(w) ==
  \/ InitSend(w) \/ InitRefused(w) \/ InitReply(w) \/ InitStore(w)
  \/ VerifyAnswer(w)
  \/ FailRead(w) \/ FailWrite(w)
  \/ ConfirmAccept(w) \/ ConfirmRefused(w) \/ ConfirmNothing(w)
  \/ ConfirmCheck(w) \/ ConfirmCommit(w)
  \/ Abort(w)

Begin(w) ==
  \/ \E i \in Intents : InitRead(w, i) \/ VerifyRead(w, i)
  \/ \E p \in Intents, s \in Status : Webhook(w, p, s)

Next ==
  \/ \E i \in Intents : CreateTopupIntent(i) \/ PaymentEnds(i)
  \/ \E w \in Workers : Begin(w) \/ Step(w)

Spec == Init /\ [][Next]_vars

-----------------------------------------------------------------------------
(* A handler that has started ends (every provider call has a timeout).    *)
(* The client keeps asking for verification from the result page, and the  *)
(* server does not cut every one of these calls short: a verification that *)
(* is repeated forever gets through each of its steps again and again.     *)
Fairness ==
  /\ \A w \in Workers : WF_vars(Step(w))
  /\ \A i \in Intents :
       /\ SF_vars(\E w \in Workers : VerifyRead(w, i))
       /\ SF_vars(\E w \in Workers : call[w].intent = i /\ VerifyAnswer(w))
       /\ SF_vars(\E w \in Workers : call[w].intent = i /\ ConfirmAccept(w))
       /\ SF_vars(\E w \in Workers : call[w].intent = i /\ ConfirmCheck(w))
       /\ SF_vars(\E w \in Workers : call[w].intent = i /\ ConfirmCommit(w))

FairSpec == Spec /\ Fairness

-----------------------------------------------------------------------------
(* Properties.                                                             *)

TypeOK ==
  /\ intent \in [Intents -> Row]
  /\ ledger \in Seq(Entry)
  /\ payment \in [Intents -> Payment]
  /\ call \in [Workers -> CallSet]

\* The ledger and the intents agree: an intent that names its credit names an
\* entry of its own, and every entry is named by its intent.  In particular
\* an intent is credited at most once, however many webhooks, verifications
\* and retries race ("Le crédit existe au plus une fois par intention").
CreditedOnce ==
  /\ \A i \in Intents : intent[i].credited # 0 =>
       /\ intent[i].credited \in 1..Len(ledger)
       /\ ledger[intent[i].credited].intent = i
  /\ \A k \in 1..Len(ledger) : intent[ledger[k].intent].credited = k

\* No credit without money: an entry names a payment that SasPay collected,
\* for exactly its net amount ("le ledger crédite le NET").
CreditIsPaid ==
  \A k \in 1..Len(ledger) :
    LET e == ledger[k] IN
    /\ payment[e.tx].status = "SUCCESS"
    /\ e.amount = payment[e.tx].net
    /\ e.amount > 0

\* A row shown as SUCCESS has its credit, paid by the payment the row names.
SuccessIsCredited ==
  \A i \in Intents : intent[i].status = "SUCCESS" =>
    /\ intent[i].credited \in 1..Len(ledger)
    /\ ledger[intent[i].credited].intent = i

\* The books of the top-ups are sound: intents, credits and collected money
\* agree whatever webhooks, verifications, retries and failures race.
CreditsAreSound == CreditedOnce /\ CreditIsPaid /\ SuccessIsCredited

\* Money goes home: a credit is paid by the payment of its own intent, unless
\* an event of that payment named the intent.  So a payment whose events name
\* their own intent only is credited once at most, whatever the events of
\* others name and in whatever order reference and payment id are missing.
CreditGoesHome ==
  /\ \A k \in 1..Len(ledger) : ledger[k].intent \in NamedBy(ledger[k].tx)
  /\ \A j, k \in 1..Len(ledger) :
       (ledger[j].tx = ledger[k].tx /\ NamedBy(ledger[j].tx) = {ledger[j].tx}) => j = k

\* The ledger is append-only: no handler rewrites or drops a written credit.
LedgerAppendOnly ==
  [][/\ Len(ledger') \in {Len(ledger), Len(ledger) + 1}
     /\ \A k \in 1..Len(ledger) : ledger'[k] = ledger[k]]_vars

\* Money collected by SasPay for an intent that knows its payment is credited
\* in the end, whatever failure or cancellation the intent showed before: to
\* this intent, unless it went to the intent that an event of it named.
PaidIsCredited ==
  \A i \in Intents :
    (payment[i].status = "SUCCESS" /\ payment[i].net > 0 /\ intent[i].tx = i)
      ~> (EntriesOf(i) # {} \/ \E k \in 1..Len(ledger) : ledger[k].tx = i)

\* The model implements the contract of PayInContract.
Contract == INSTANCE PayInContract WITH
  Amounts <- Nets \ {0},
  paid <- [p \in Intents |-> IF payment[p].status = "SUCCESS" THEN payment[p].net ELSE 0],
  book <- ledger

ImplementsContract == Contract!Spec
=============================================================================
