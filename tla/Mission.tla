------------------------------ MODULE Mission ------------------------------
(***************************************************************************)
(* The money side of the missions (demandes) of one client: the status of  *)
(* each mission, its quotes, the FundsHold that reserves the price of the  *)
(* accepted quote, the CLIENT_MISSION_DEBIT of the ledger and its REVERSAL,*)
(* and the dispute that suspends the confirmation.                         *)
(*                                                                         *)
(*   createQuote, selectCatalogDiagnostic, requestNegotiation,             *)
(*   respondToQuote, updateStatus (CANCELED, CONFIRMED), openDispute,      *)
(*   reviewDispute, with the financial calls they make                     *)
(*                                                                         *)
(* A request is cut between what it reads before its transaction (or       *)
(* before the statement that decides) and its COMMIT.  updateStatus to     *)
(* CANCELED is one step: its write is guarded by the status it has read,   *)
(* and every writer of the hold waits for the row it has locked.           *)
(*                                                                         *)
(* No handler moves a mission to ACCEPTED, SCHEDULED, IN_PROGRESS or       *)
(* COMPLETED any more, so missions start at any of these stages.  SUBMITTED*)
(* behaves like PENDING and is not told apart.  Chats, diagnostics without *)
(* quote, events and notifications are left out.                           *)
(***************************************************************************)
EXTENDS Integers, FiniteSets, Functions

CONSTANTS
  Missions,
  Quotes,   \* quotes that exist or may be created, the bound on createQuote
  Workers,  \* concurrent requests of the client and of the administrators
  None,
  Of,       \* Of[q]: the mission of quote q
  Gross,    \* Gross[q]: repair plus the standard transport of 2000
  Opening   \* credits of the client's wallet

ASSUME MissionAssumption ==
  /\ None \notin Missions \cup Quotes
  /\ IsFiniteSet(Quotes)
  /\ Of \in [Quotes -> Missions]
  /\ Gross \in [Quotes -> Nat \ {0}]
  /\ Opening \in Nat

VARIABLES
  status,      \* Demande.status
  quote,       \* Quote.status, "NONE" before the row exists
  catalog,     \* missions with a catalogue diagnostic
  negotiated,  \* missions whose client has asked to negotiate
  hold,        \* FundsHold of the mission: its status, the quote it is for
  debited,     \* quotes with a CLIENT_MISSION_DEBIT
  reversed,    \* quotes whose debit has a REVERSAL
  dispute,     \* DemandeDispute.status, "NONE" before the row exists
  call         \* what each worker is doing

offers == <<quote, catalog, negotiated>>
money  == <<hold, debited, reversed>>
vars   == <<status, offers, money, dispute, call>>

Live       == {"ACCEPTED", "SCHEDULED", "IN_PROGRESS", "COMPLETED"}
Status     == {"PENDING", "CONFIRMED", "CANCELED"} \cup Live
Source     == {"NONE", "CATALOG", "MANUAL"}
QuoteRow   == [status : {"NONE", "PENDING", "ACCEPTED", "REJECTED"}, source : Source]
HoldStatus == {"NONE", "ACTIVE", "CONSUMED", "RELEASED"}
Decision   == {"UNDER_REVIEW", "RESOLVED", "REJECTED"}
DisputeSt  == {"NONE", "OPEN"} \cup Decision

PCs == {"idle", "quote.check", "catalog.check", "quote.commit", "manual.commit",
        "negotiate.commit", "respond.commit", "confirm.commit",
        "dispute.commit", "review.commit"}

CallSet == [pc : PCs, of : Missions \cup Quotes \cup {None}, seen : SUBSET Quotes,
            arg : Source \cup Decision]

At(pc, x, s, a) == [pc |-> pc, of |-> x, seen |-> s, arg |-> a]
Idle            == At("idle", None, {}, "NONE")
Goto(w, c)      == call' = [call EXCEPT ![w] = c]
Done(w)         == Goto(w, Idle)
Start(w, c)     == call[w] = Idle /\ Goto(w, c)

QuotesOf(m)    == {q \in Quotes : Of[q] = m}
Pending(m)     == {q \in QuotesOf(m) : quote[q].status = "PENDING"}
Accepted(m)    == {q \in QuotesOf(m) : quote[q].status = "ACCEPTED"}
Fresh(m)       == {q \in QuotesOf(m) : quote[q].status = "NONE"}

Total(S)  == SumFunctionOnSet(Gross, S)
Held      == {q \in Quotes : hold[Of[q]] = [status |-> "ACTIVE", quote |-> q]}
Balance   == Opening - Total(debited \ reversed)  \* what the ledger leaves
Available == Balance - Total(Held)

\* Missions at any stage: without an accepted quote, with one that is held
\* (accepted since the holds exist) or with one debited at acceptance (before).
Init ==
  /\ status \in [Missions -> {"PENDING"} \cup Live]
  /\ quote \in [Quotes -> {[status |-> s, source |-> IF s = "NONE" THEN s ELSE "MANUAL"] :
                             s \in {"NONE", "PENDING", "ACCEPTED"}}]
  /\ debited \in SUBSET {q \in Quotes : quote[q].status = "ACCEPTED"}
  /\ \A m \in Missions :
       /\ \A p, q \in Accepted(m) : p = q
       /\ status[m] = "PENDING" => Fresh(m) = QuotesOf(m)
  /\ hold = [m \in Missions |->
       IF Accepted(m) \subseteq debited
         THEN [status |-> "NONE", quote |-> None]
         ELSE [status |-> "ACTIVE", quote |-> CHOOSE q \in Accepted(m) : TRUE]]
  /\ reversed = {}
  /\ Available >= 0
  /\ catalog = {} /\ negotiated = {}
  /\ dispute = [m \in Missions |-> "NONE"]
  /\ call = [w \in Workers |-> Idle]

Closed(m)      == status[m] \in {"CANCELED", "CONFIRMED"}
Diagnosable(m) == status[m] = "ACCEPTED"
CatalogFlow(m) == m \in catalog

-----------------------------------------------------------------------------
(* createQuote and selectCatalogDiagnostic (administrator).                *)

\* createQuote: only before completion, and on a catalogue mission only after
\* the client has asked to negotiate.
QuoteRead(w, m) ==
  /\ Diagnosable(m)
  /\ CatalogFlow(m) => m \in negotiated
  /\ Start(w, At("quote.check", m, {}, "MANUAL"))
  /\ UNCHANGED <<status, offers, money, dispute>>

DiagnosisRead(w, m) ==
  /\ Diagnosable(m)
  /\ \E pc \in {"catalog.check", "manual.commit"} : Start(w, At(pc, m, {}, "CATALOG"))
  /\ UNCHANGED <<status, offers, money, dispute>>

\* In the transaction: createQuote refuses an accepted quote, the catalogue
\* mode a pending one; else the rows to reject are about to be updated.
QuoteCheck(w) ==
  LET c == call[w] IN
  /\ c.pc \in {"quote.check", "catalog.check"}
  /\ IF (IF c.pc = "quote.check" THEN Accepted(c.of) ELSE Pending(c.of)) = {}
       THEN Goto(w, At("quote.commit", c.of, Pending(c.of), c.arg))
       ELSE Done(w)
  /\ UNCHANGED <<status, offers, money, dispute>>

Reject(S) == [q \in Quotes |-> IF q \in S THEN [quote[q] EXCEPT !.status = "REJECTED"]
                                          ELSE quote[q]]

\* The new quote replaces the pending ones that updateMany could see: those of
\* the check, perhaps some that came since.
QuoteCommit(w) ==
  LET c == call[w] IN
  /\ c.pc = "quote.commit"
  /\ \E q \in Fresh(c.of), S \in SUBSET Pending(c.of) :
       /\ c.seen \cap Pending(c.of) \subseteq S
       /\ quote' = [Reject(S) EXCEPT ![q] = [status |-> "PENDING", source |-> c.arg]]
  /\ catalog' = IF c.arg = "CATALOG" THEN catalog \cup {c.of} ELSE catalog
  /\ Done(w)
  /\ UNCHANGED <<status, negotiated, money, dispute>>

\* A free diagnostic withdraws the pending quotes and proposes none.
ManualCommit(w) ==
  /\ call[w].pc = "manual.commit"
  /\ quote' = Reject(Pending(call[w].of))
  /\ Done(w)
  /\ UNCHANGED <<status, catalog, negotiated, money, dispute>>

-----------------------------------------------------------------------------
(* requestNegotiation and respondToQuote (client).                         *)

NegotiateRead(w, q) ==
  /\ ~Closed(Of[q])
  /\ quote[q] = [status |-> "PENDING", source |-> "CATALOG"]
  /\ Start(w, At("negotiate.commit", Of[q], {}, "NONE"))
  /\ UNCHANGED <<status, offers, money, dispute>>

NegotiateCommit(w) ==
  /\ call[w].pc = "negotiate.commit"
  /\ negotiated' = negotiated \cup {call[w].of}
  /\ Done(w)
  /\ UNCHANGED <<status, quote, catalog, money, dispute>>

\* The mission is seen open here and not looked at again.
RespondRead(w, q) ==
  /\ ~Closed(Of[q])
  /\ quote[q].status # "NONE"
  /\ Start(w, At("respond.commit", q, {}, "NONE"))
  /\ UNCHANGED <<status, offers, money, dispute>>

\* Mutant: the quote is accepted although nothing can be reserved.
HoldIfPossible(q) ==
  LET m == Of[q] IN
  hold' = IF hold[m].status = "NONE" /\ Gross[q] <= Available
            THEN [hold EXCEPT ![m] = [status |-> "ACTIVE", quote |-> q]]
            ELSE hold

\* Mutant: the other holds of the client are forgotten.
HoldOnLedgerBalance(q) ==
  LET m == Of[q] IN
  IF hold[m].status # "NONE"
    THEN UNCHANGED hold
    ELSE /\ Gross[q] <= Balance
         /\ hold' = [hold EXCEPT ![m] = [status |-> "ACTIVE", quote |-> q]]

\* holdClientAtAcceptance: a hold with the reference of the mission is taken
\* as it is; else the price must be available.
HoldAtAcceptance(q) ==
  LET m == Of[q] IN
  IF hold[m].status # "NONE"
    THEN UNCHANGED hold
    ELSE /\ Gross[q] <= Available
         /\ hold' = [hold EXCEPT ![m] = [status |-> "ACTIVE", quote |-> q]]

\* Mutant: the unique index on the accepted quote is dropped.
RespondAcceptTwice(w) ==
  LET q == call[w].of IN
  /\ call[w].pc = "respond.commit"
  /\ quote[q].status = "PENDING"
  /\ quote' = [quote EXCEPT ![q].status = "ACCEPTED"]
  /\ HoldAtAcceptance(q)
  /\ Done(w)
  /\ UNCHANGED <<status, catalog, negotiated, debited, reversed, dispute>>

\* Claim, unique index on the accepted quote, and hold, in one transaction.
RespondAccept(w) ==
  LET q == call[w].of IN
  /\ call[w].pc = "respond.commit"
  /\ quote[q].status = "PENDING"
  /\ Accepted(Of[q]) = {}
  /\ quote' = [quote EXCEPT ![q].status = "ACCEPTED"]
  /\ HoldAtAcceptance(q)
  /\ Done(w)
  /\ UNCHANGED <<status, catalog, negotiated, debited, reversed, dispute>>

RespondReject(w) ==
  LET q == call[w].of IN
  /\ call[w].pc = "respond.commit"
  /\ quote[q].status = "PENDING"
  /\ quote' = Reject({q})
  /\ Done(w)
  /\ UNCHANGED <<status, catalog, negotiated, money, dispute>>

-----------------------------------------------------------------------------
(* updateStatus (client).                                                  *)

Release(m) == [hold EXCEPT ![m].status = IF @ = "ACTIVE" THEN "RELEASED" ELSE @]

\* Mutant: the debit of an old mission is not reversed.
CancelWithoutReversal(w, m) ==
  /\ call[w] = Idle
  /\ status[m] \in {"PENDING", "ACCEPTED", "SCHEDULED"}
  /\ status' = [status EXCEPT ![m] = "CANCELED"]
  /\ hold' = Release(m)
  /\ UNCHANGED <<offers, debited, reversed, dispute, call>>

\* reverseClientDebitIfAny: the debit found for the mission, if there is one.
ReverseDebitIfAny(m) ==
  LET found == debited \cap QuotesOf(m) IN
  IF found = {} THEN UNCHANGED reversed
                ELSE \E q \in found : reversed' = reversed \cup {q}

\* CANCELED: give the hold back, and reverse a debit made at acceptance.
Cancel(w, m) ==
  /\ call[w] = Idle
  /\ status[m] \in {"PENDING", "ACCEPTED", "SCHEDULED"}
  /\ status' = [status EXCEPT ![m] = "CANCELED"]
  /\ hold' = Release(m)
  /\ ReverseDebitIfAny(m)
  /\ UNCHANGED <<offers, debited, dispute, call>>

\* CONFIRMED: isConfirmationBlocked, then the settlement.
ConfirmCheck(w, m) ==
  /\ status[m] = "COMPLETED"
  /\ dispute[m] \in {"NONE", "REJECTED"}
  /\ Start(w, At("confirm.commit", m, {}, "NONE"))
  /\ UNCHANGED <<status, offers, money, dispute>>

\* Mutant: the hold is consumed and no debit is written.
ConfirmCommitHoldOnly(w) ==
  LET m == call[w].of IN
  /\ call[w].pc = "confirm.commit"
  /\ status[m] = "COMPLETED"
  /\ status' = [status EXCEPT ![m] = "CONFIRMED"]
  /\ hold' = [hold EXCEPT ![m].status = IF @ = "ACTIVE" THEN "CONSUMED" ELSE @]
  /\ Done(w)
  /\ UNCHANGED <<offers, debited, reversed, dispute>>

\* recordClientMissionDebit: one entry, whatever is recorded again.
Debit(q) == debited' = debited \cup {q}

\* Mutant: the quote to pay is looked for without its status.
SettleAnyQuote(m) ==
  IF Fresh(m) = QuotesOf(m)
    THEN UNCHANGED <<hold, debited>>
    ELSE \E q \in QuotesOf(m) \ Fresh(m) :
           /\ hold' = [hold EXCEPT ![m].status = IF @ = "ACTIVE" THEN "CONSUMED" ELSE @]
           /\ Debit(q)

\* settleMissionAtConfirmation: without an accepted quote nothing is written;
\* else the debit of the quote found is written whatever the hold has become.
Settle(m) ==
  IF Accepted(m) = {}
    THEN UNCHANGED <<hold, debited>>
    ELSE \E q \in Accepted(m) :
           /\ hold' = [hold EXCEPT ![m].status = IF @ = "ACTIVE" THEN "CONSUMED" ELSE @]
           /\ Debit(q)

ConfirmCommit(w) ==
  LET m == call[w].of IN
  /\ call[w].pc = "confirm.commit"
  /\ status[m] = "COMPLETED"
  /\ status' = [status EXCEPT ![m] = "CONFIRMED"]
  /\ Settle(m)
  /\ Done(w)
  /\ UNCHANGED <<offers, reversed, dispute>>

-----------------------------------------------------------------------------
(* openDispute (client) and reviewDispute (administrator).                 *)

OpenRead(w, m) ==
  /\ status[m] = "COMPLETED"
  /\ dispute[m] = "NONE"
  /\ Start(w, At("dispute.commit", m, {}, "NONE"))
  /\ UNCHANGED <<status, offers, money, dispute>>

OpenCommit(w) ==
  /\ call[w].pc = "dispute.commit"
  /\ dispute[call[w].of] = "NONE"
  /\ dispute' = [dispute EXCEPT ![call[w].of] = "OPEN"]
  /\ Done(w)
  /\ UNCHANGED <<status, offers, money>>

ReviewRead(w, m) ==
  /\ dispute[m] \in {"OPEN", "UNDER_REVIEW"}
  /\ \E d \in Decision \ {dispute[m]} : Start(w, At("review.commit", m, {}, d))
  /\ UNCHANGED <<status, offers, money, dispute>>

\* The decision is written whatever the dispute has become.
ReviewCommit(w) ==
  LET c == call[w] IN
  /\ c.pc = "review.commit"
  /\ dispute' = [dispute EXCEPT ![c.of] = c.arg]
  /\ hold' = IF c.arg = "RESOLVED" THEN Release(c.of) ELSE hold
  /\ Done(w)
  /\ UNCHANGED <<status, offers, debited, reversed>>

-----------------------------------------------------------------------------

\* The request is refused (a guard of its last step fails, no funds, no row
\* claimed), or the server stops: its transaction is rolled back.
Abort(w) ==
  /\ call[w] # Idle
  /\ Done(w)
  /\ UNCHANGED <<status, offers, money, dispute>>

Begin(w) ==
  \/ \E m \in Missions : \/ QuoteRead(w, m) \/ DiagnosisRead(w, m)
                         \/ Cancel(w, m) \/ ConfirmCheck(w, m)
                         \/ OpenRead(w, m) \/ ReviewRead(w, m)
  \/ \E q \in Quotes : NegotiateRead(w, q) \/ RespondRead(w, q)

Step(w) ==
  \/ QuoteCheck(w) \/ QuoteCommit(w) \/ ManualCommit(w)
  \/ NegotiateCommit(w) \/ RespondAccept(w) \/ RespondReject(w)
  \/ ConfirmCommit(w) \/ OpenCommit(w) \/ ReviewCommit(w)
  \/ Abort(w)

Next == \E w \in Workers : Begin(w) \/ Step(w)

Spec == Init /\ [][Next]_vars

-----------------------------------------------------------------------------
(* Properties.                                                             *)

TypeOK ==
  /\ status \in [Missions -> Status]
  /\ quote \in [Quotes -> QuoteRow]
  /\ catalog \subseteq Missions
  /\ negotiated \subseteq Missions
  /\ hold \in [Missions -> [status : HoldStatus, quote : Quotes \cup {None}]]
  /\ debited \subseteq Quotes
  /\ reversed \subseteq Quotes
  /\ dispute \in [Missions -> DisputeSt]
  /\ call \in [Workers -> CallSet]

\* "jamais de mission ACCEPTED sans hold, jamais de hold sans acceptation":
\* an accepted quote is backed by the hold of its mission or by its own debit,
\* and a hold is for an accepted quote of its mission.
HoldMatchesQuote ==
  /\ \A q \in Quotes : quote[q].status = "ACCEPTED" =>
       hold[Of[q]].quote = q \/ q \in debited
  /\ \A m \in Missions : hold[m].status # "NONE" => hold[m].quote \in Accepted(m)

\* "jamais de hold CONSUMED sans débit": money leaves the hold of a mission
\* only for the debit of the quote it was reserved for, once it is confirmed.
ConsumedIsDebited ==
  \A m \in Missions : hold[m].status = "CONSUMED" =>
    /\ status[m] = "CONFIRMED"
    /\ hold[m].quote \in debited \ reversed

\* Every hold is backed by the acceptance it reserves for, and leaves it only by
\* the debit, whatever quotes are accepted and missions canceled together.
HoldsAreBacked == HoldMatchesQuote /\ ConsumedIsDebited

\* A mission is paid at most once, and its refund undoes a payment of a
\* canceled mission only.
PaidOnce ==
  /\ \A p, q \in debited : Of[p] = Of[q] => p = q
  /\ reversed \subseteq {q \in debited : status[Of[q]] = "CANCELED"}

\* Money has one place and a reason to be there, whatever requests run together:
\* nothing is both reserved and debited; a canceled mission is refunded in full
\* ("contrepassation atomique"); a hold goes back to the client only with the
\* cancellation of its mission or by a decision on its dispute; and what was
\* accepted on a confirmed mission is paid, or still reserved by an acceptance
\* that came late, unless a dispute was decided.
MoneyHasReason ==
  /\ \A q \in debited : q \notin Held
  /\ \A m \in Missions :
       /\ status[m] = "CANCELED" => debited \cap QuotesOf(m) \subseteq reversed
       /\ hold[m].status = "RELEASED" => status[m] = "CANCELED" \/ dispute[m] \in Decision
       /\ status[m] = "CONFIRMED" =>
            Accepted(m) \subseteq debited \cup Held \/ dispute[m] \in Decision

\* Debits of missions whose hold was given back before: a confirmation passed
\* the check of the dispute before the decision that released the hold.
Unreserved == {q \in debited \ reversed : hold[Of[q]].status = "RELEASED"}

\* Holds and debits of a client together never exceed the credits, however many
\* quotes are accepted together: only a debit whose hold a dispute had released
\* can take the wallet below zero, and by its own price at most.
NeverOverdrawn == Available + Total(Unreserved) >= 0

\* "Litige : aucun règlement tant qu'un litige bloque la mission. Vérifié DANS la
\* transaction (ouverture concurrente impossible)": no step confirms a mission
\* whose dispute is open, or was decided for the client.  The code does not keep
\* this: openDispute and reviewDispute wait for nothing the confirmation holds.
DisputeSuspends ==
  [][\A m \in Missions : (status[m] # "CONFIRMED" /\ status'[m] = "CONFIRMED") =>
       dispute[m] \in {"NONE", "REJECTED"}]_vars
=============================================================================
