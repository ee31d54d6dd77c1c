--------------------------- MODULE Mission_proofs ---------------------------
(***************************************************************************)
(* Theorems about Mission, for any missions, quotes, prices and number of  *)
(* concurrent requests.                                                    *)
(***************************************************************************)
EXTENDS Mission, DataTheorems

\* What a request cut between its read and its commit is working on.
GoodCall ==
  {c \in CallSet :
     /\ c.pc = "respond.commit" => c.of \in Quotes
     /\ c.pc \notin {"idle", "respond.commit"} => c.of \in Missions
     /\ c.pc \in {"quote.check", "catalog.check", "quote.commit"} => c.arg \in Source
     /\ c.pc = "review.commit" => c.arg \in Decision}

Typed == TypeOK /\ call \in [Workers -> GoodCall]

IsAccepted(q) == quote[q].status = "ACCEPTED"

\* A mission has one accepted quote at most, and only that one is debited.
AcceptedOnce ==
  /\ \A p, q \in Quotes : IsAccepted(p) /\ IsAccepted(q) /\ Of[p] = Of[q] => p = q
  /\ \A q \in debited : IsAccepted(q)

Money == AcceptedOnce /\ HoldMatchesQuote /\ ConsumedIsDebited /\ PaidOnce

-----------------------------------------------------------------------------
(* Types.                                                                  *)

LEMMA IdleCall == Idle \in GoodCall /\ Idle.pc = "idle"
  BY DEF Idle, At, GoodCall, CallSet, PCs, Source

LEMMA CallKept ==
  ASSUME Typed, NEW w \in Workers, NEW c \in GoodCall, Goto(w, c)
  PROVE  call' \in [Workers -> GoodCall] /\ call' \in [Workers -> CallSet]
<1>1. call' \in [Workers -> GoodCall]
  BY DEF Typed, Goto
<1>2. GoodCall \subseteq CallSet
  BY DEF GoodCall
<1> QED BY <1>1, <1>2

\* A request that moves or ends and leaves the rows alone.
LEMMA CallTyped ==
  ASSUME Typed, NEW w \in Workers, NEW c \in GoodCall, Goto(w, c),
         UNCHANGED <<status, offers, money, dispute>>
  PROVE  Typed'
<1>1. call' \in [Workers -> GoodCall] /\ call' \in [Workers -> CallSet]
  BY CallKept
<1> QED BY <1>1 DEF Typed, TypeOK, offers, money

LEMMA BeginTyped ==
  ASSUME Typed, NEW w \in Workers, Begin(w)
  PROVE  Typed'
<1>1. ASSUME NEW m \in Missions, QuoteRead(w, m) \/ DiagnosisRead(w, m) PROVE Typed'
  <2>1. \A pc \in {"quote.check", "catalog.check", "manual.commit"}, a \in {"MANUAL", "CATALOG"} :
          At(pc, m, {}, a) \in GoodCall
    BY DEF At, GoodCall, CallSet, PCs, Source
  <2> QED BY <1>1, <2>1, CallTyped DEF QuoteRead, DiagnosisRead, Start
<1>2. ASSUME NEW m \in Missions, Cancel(w, m) PROVE Typed'
  <2>1. status' \in [Missions -> Status]
    BY <1>2 DEF Cancel, Typed, TypeOK, Status
  <2>2. hold' \in [Missions -> [status : HoldStatus, quote : Quotes \cup {None}]]
    BY <1>2 DEF Cancel, Release, Typed, TypeOK, HoldStatus
  <2>3. reversed' \subseteq Quotes
    BY <1>2 DEF Cancel, ReverseDebitIfAny, QuotesOf, Typed, TypeOK
  <2> QED BY <1>2, <2>1, <2>2, <2>3 DEF Cancel, offers, Typed, TypeOK
<1>3. ASSUME NEW m \in Missions, ConfirmCheck(w, m) \/ OpenRead(w, m) PROVE Typed'
  <2>1. \A pc \in {"confirm.commit", "dispute.commit"} : At(pc, m, {}, "NONE") \in GoodCall
    BY DEF At, GoodCall, CallSet, PCs, Source
  <2> QED BY <1>3, <2>1, CallTyped DEF ConfirmCheck, OpenRead, Start
<1>4. ASSUME NEW m \in Missions, ReviewRead(w, m) PROVE Typed'
  <2>1. \A d \in Decision : At("review.commit", m, {}, d) \in GoodCall
    BY DEF At, GoodCall, CallSet, PCs
  <2> QED BY <1>4, <2>1, CallTyped DEF ReviewRead, Start
<1>5. ASSUME NEW q \in Quotes, NegotiateRead(w, q) \/ RespondRead(w, q) PROVE Typed'
  <2>1. Of[q] \in Missions
    BY MissionAssumption
  <2>2. /\ At("negotiate.commit", Of[q], {}, "NONE") \in GoodCall
        /\ At("respond.commit", q, {}, "NONE") \in GoodCall
    BY <2>1 DEF At, GoodCall, CallSet, PCs, Source
  <2> QED BY <1>5, <2>2, CallTyped DEF NegotiateRead, RespondRead, Start
<1> QED BY <1>1, <1>2, <1>3, <1>4, <1>5 DEF Begin

LEMMA RejectTyped ==
  ASSUME TypeOK, NEW S
  PROVE  Reject(S) \in [Quotes -> QuoteRow]
  BY DEF Reject, TypeOK, QuoteRow

LEMMA StepTyped ==
  ASSUME Typed, NEW w \in Workers, Step(w)
  PROVE  Typed'
<1> DEFINE c == call[w]
<1>1. c \in GoodCall /\ c.pc \in PCs
  BY DEF Typed, GoodCall, CallSet
<1>2. ASSUME Done(w) PROVE call' \in [Workers -> GoodCall] /\ call' \in [Workers -> CallSet]
  BY <1>2, CallKept, IdleCall DEF Done
<1>3. CASE QuoteCheck(w)
  <2>1. Pending(c.of) \subseteq Quotes
    BY DEF Pending, QuotesOf
  <2>2. At("quote.commit", c.of, Pending(c.of), c.arg) \in GoodCall
    BY <1>1, <1>3, <2>1 DEF QuoteCheck, At, GoodCall, CallSet, PCs
  <2> HIDE DEF c
  <2>3. Goto(w, At("quote.commit", c.of, Pending(c.of), c.arg)) \/ Goto(w, Idle)
    BY <1>3 DEF QuoteCheck, Done, c
  <2> QED BY <1>3, <2>2, <2>3, IdleCall, CallTyped DEF QuoteCheck
<1>4. CASE QuoteCommit(w)
  <2>1. c.of \in Missions /\ c.arg \in Source
    BY <1>1, <1>4 DEF QuoteCommit, GoodCall
  <2>2. quote' \in [Quotes -> QuoteRow]
    <3>1. PICK q \in Fresh(c.of), S \in SUBSET Pending(c.of) :
            quote' = [Reject(S) EXCEPT ![q] = [status |-> "PENDING", source |-> c.arg]]
      BY <1>4 DEF QuoteCommit
    <3>2. Reject(S) \in [Quotes -> QuoteRow]
      BY RejectTyped DEF Typed
    <3>3. [status |-> "PENDING", source |-> c.arg] \in QuoteRow
      BY <2>1 DEF QuoteRow
    <3> HIDE DEF c
    <3> QED BY <3>1, <3>2, <3>3
  <2>3. catalog' \subseteq Missions
    BY <1>4, <2>1 DEF QuoteCommit, Typed, TypeOK
  <2> QED BY <1>2, <1>4, <2>2, <2>3 DEF QuoteCommit, money, Typed, TypeOK
<1>5. CASE ManualCommit(w) \/ RespondReject(w)
  <2>1. quote' \in [Quotes -> QuoteRow]
    BY <1>5, RejectTyped DEF ManualCommit, RespondReject, Typed
  <2> QED BY <1>2, <1>5, <2>1 DEF ManualCommit, RespondReject, money, Typed, TypeOK
<1>6. CASE NegotiateCommit(w)
  <2>1. c.of \in Missions
    BY <1>1, <1>6 DEF NegotiateCommit, GoodCall
  <2>2. negotiated' \subseteq Missions
    BY <1>6, <2>1 DEF NegotiateCommit, Typed, TypeOK
  <2> QED BY <1>2, <1>6, <2>2 DEF NegotiateCommit, money, Typed, TypeOK
<1>7. CASE RespondAccept(w)
  <2>1. c.of \in Quotes /\ Of[c.of] \in Missions
    BY <1>1, <1>7, MissionAssumption DEF RespondAccept, GoodCall
  <2>2. quote' \in [Quotes -> QuoteRow]
    BY <1>7, <2>1 DEF RespondAccept, Typed, TypeOK, QuoteRow
  <2>3. hold' \in [Missions -> [status : HoldStatus, quote : Quotes \cup {None}]]
    BY <1>7, <2>1 DEF RespondAccept, HoldAtAcceptance, Typed, TypeOK, HoldStatus
  <2> QED BY <1>2, <1>7, <2>2, <2>3 DEF RespondAccept, Typed, TypeOK
<1>8. CASE ConfirmCommit(w)
  <2>1. c.of \in Missions
    BY <1>1, <1>8 DEF ConfirmCommit, GoodCall
  <2>2. status' \in [Missions -> Status]
    BY <1>8, <2>1 DEF ConfirmCommit, Typed, TypeOK, Status
  <2>3. hold' \in [Missions -> [status : HoldStatus, quote : Quotes \cup {None}]]
    BY <1>8, <2>1 DEF ConfirmCommit, Settle, Debit, Typed, TypeOK, HoldStatus
  <2>4. debited' \subseteq Quotes
    BY <1>8 DEF ConfirmCommit, Settle, Debit, Accepted, QuotesOf, Typed, TypeOK
  <2> QED BY <1>2, <1>8, <2>2, <2>3, <2>4 DEF ConfirmCommit, offers, Typed, TypeOK
<1>9. CASE OpenCommit(w)
  <2>1. dispute' \in [Missions -> DisputeSt]
    BY <1>9 DEF OpenCommit, Typed, TypeOK, DisputeSt
  <2> QED BY <1>2, <1>9, <2>1 DEF OpenCommit, offers, money, Typed, TypeOK
<1>10. CASE ReviewCommit(w)
  <2>1. c.of \in Missions /\ c.arg \in Decision
    BY <1>1, <1>10 DEF ReviewCommit, GoodCall
  <2>2. dispute' \in [Missions -> DisputeSt]
    BY <1>10, <2>1 DEF ReviewCommit, Typed, TypeOK, DisputeSt
  <2>3. hold' \in [Missions -> [status : HoldStatus, quote : Quotes \cup {None}]]
    BY <1>10, <2>1 DEF ReviewCommit, Release, Typed, TypeOK, HoldStatus
  <2> QED BY <1>2, <1>10, <2>2, <2>3 DEF ReviewCommit, offers, Typed, TypeOK
<1>11. CASE Abort(w)
  BY <1>11, IdleCall, CallTyped DEF Abort, Done
<1> QED BY <1>3, <1>4, <1>5, <1>6, <1>7, <1>8, <1>9, <1>10, <1>11 DEF Step

LEMMA InitTyped == Init => Typed
<1> SUFFICES ASSUME Init PROVE Typed
  OBVIOUS
<1>1. call \in [Workers -> GoodCall] /\ call \in [Workers -> CallSet]
  BY IdleCall DEF Init, GoodCall
<1>2. hold \in [Missions -> [status : HoldStatus, quote : Quotes \cup {None}]]
  <2> SUFFICES ASSUME NEW m \in Missions, ~(Accepted(m) \subseteq debited)
               PROVE  (CHOOSE q \in Accepted(m) : TRUE) \in Quotes
    BY DEF Init, HoldStatus
  <2> QED BY DEF Accepted, QuotesOf
<1>3. quote \in [Quotes -> QuoteRow]
  BY DEF Init, QuoteRow, Source
<1> QED BY <1>1, <1>2, <1>3 DEF Init, Typed, TypeOK, Status, Live, DisputeSt

\* Every reachable state is well typed.
THEOREM TypeCorrect == Spec => []TypeOK
<1>1. Typed /\ [Next]_vars => Typed'
  <2>1. ASSUME Typed, UNCHANGED vars PROVE Typed'
    BY <2>1 DEF vars, offers, money, Typed, TypeOK
  <2> QED BY <2>1, BeginTyped, StepTyped DEF Next
<1>2. Typed => TypeOK
  BY DEF Typed
<1> QED BY <1>1, <1>2, InitTyped, PTL DEF Spec

-----------------------------------------------------------------------------
(* Quotes, holds and debits of one mission.                                *)

\* Steps that accept no quote, move no money and close no mission.
LEMMA QuietMoney ==
  ASSUME Typed, Money, UNCHANGED <<status, money>>,
         \A q \in Quotes : IsAccepted(q)' <=> IsAccepted(q)
  PROVE  Money'
<1>1. AcceptedOnce'
  BY DEF Money, AcceptedOnce, money, Typed, TypeOK
<1>2. HoldMatchesQuote'
  BY DEF Money, HoldMatchesQuote, Accepted, QuotesOf, IsAccepted, money
<1>3. ConsumedIsDebited' /\ PaidOnce'
  BY DEF Money, ConsumedIsDebited, PaidOnce, money
<1> QED BY <1>1, <1>2, <1>3 DEF Money

\* A hold given back, with a debit undone if the mission is canceled.
LEMMA ReleaseMoney ==
  ASSUME Typed, Money, NEW m \in Missions, hold' = Release(m), UNCHANGED <<quote, debited>>,
         \/ UNCHANGED <<status, reversed>>
         \/ /\ status[m] # "CONFIRMED"
            /\ status' = [status EXCEPT ![m] = "CANCELED"]
            /\ reversed' = reversed \cup (debited \cap QuotesOf(m))
  PROVE  Money'
<1>1. \A k \in Missions : /\ hold'[k].quote = hold[k].quote
                          /\ hold'[k].status = "NONE" <=> hold[k].status = "NONE"
                          /\ hold'[k].status = "CONSUMED" <=> hold[k].status = "CONSUMED"
  BY DEF Release, Typed, TypeOK, HoldStatus
<1>2. AcceptedOnce'
  BY DEF Money, AcceptedOnce, IsAccepted
<1>3. HoldMatchesQuote'
  BY <1>1, MissionAssumption DEF Money, HoldMatchesQuote, Accepted, QuotesOf
<1>4. ConsumedIsDebited'
  <2> SUFFICES ASSUME NEW k \in Missions, hold'[k].status = "CONSUMED"
               PROVE  status'[k] = "CONFIRMED" /\ hold'[k].quote \in debited' \ reversed'
    BY DEF ConsumedIsDebited
  <2>1. /\ status[k] = "CONFIRMED"
        /\ hold[k].quote \in debited \ reversed
        /\ hold[k].quote \in QuotesOf(k)
    BY <1>1 DEF Money, ConsumedIsDebited, HoldMatchesQuote, Accepted
  <2>2. hold[k].quote \in QuotesOf(m) => k = m
    BY <2>1 DEF QuotesOf
  <2> QED BY <1>1, <2>1, <2>2 DEF Typed, TypeOK
<1>5. PaidOnce'
  <2>1. \A p, q \in debited' : Of[p] = Of[q] => p = q
    BY DEF Money, PaidOnce
  <2>2. ASSUME NEW q \in reversed' PROVE q \in debited' /\ status'[Of[q]] = "CANCELED"
    <3>1. q \in Quotes /\ Of[q] \in Missions
      BY MissionAssumption DEF Typed, TypeOK, QuotesOf
    <3> QED BY <3>1 DEF Money, PaidOnce, QuotesOf, Typed, TypeOK
  <2> QED BY <2>1, <2>2 DEF PaidOnce
<1> QED BY <1>2, <1>3, <1>4, <1>5 DEF Money

\* The debit that is found is the only one of its mission.
LEMMA ReverseAll ==
  ASSUME Money, NEW m \in Missions, ReverseDebitIfAny(m)
  PROVE  reversed' = reversed \cup (debited \cap QuotesOf(m))
<1>1. \A p, q \in debited \cap QuotesOf(m) : p = q
  BY DEF Money, PaidOnce, QuotesOf
<1> QED BY <1>1 DEF ReverseDebitIfAny

\* The accepted quote that is found is the only one of its mission.
LEMMA SettleAll ==
  ASSUME Money, NEW m \in Missions, Settle(m)
  PROVE  /\ debited' = debited \cup Accepted(m)
         /\ hold' = IF Accepted(m) = {} THEN hold
                      ELSE [hold EXCEPT ![m].status = IF @ = "ACTIVE" THEN "CONSUMED" ELSE @]
<1>1. \A p, q \in Accepted(m) : p = q
  BY DEF Money, AcceptedOnce, Accepted, QuotesOf, IsAccepted
<1>2. CASE Accepted(m) = {}
  BY <1>2 DEF Settle, Debit
<1>3. CASE Accepted(m) # {}
  <2>1. PICK q \in Accepted(m) :
          /\ hold' = [hold EXCEPT ![m].status = IF @ = "ACTIVE" THEN "CONSUMED" ELSE @]
          /\ debited' = debited \cup {q}
    BY <1>3 DEF Settle, Debit
  <2>2. Accepted(m) = {q}
    BY <1>1
  <2> QED BY <1>3, <2>1, <2>2
<1> QED BY <1>2, <1>3

LEMMA AcceptMoney ==
  ASSUME Typed, Money, NEW w \in Workers, RespondAccept(w)
  PROVE  Money'
<1> DEFINE q == call[w].of
           m == Of[q]
<1>1. q \in Quotes /\ m \in Missions
  BY MissionAssumption DEF RespondAccept, Typed, GoodCall
<1>2. \A p \in Quotes : Of[p] = m => ~IsAccepted(p) /\ p \notin debited
  BY DEF RespondAccept, Accepted, QuotesOf, IsAccepted, Money, AcceptedOnce
<1>3. hold[m].status = "NONE"
  BY <1>1 DEF RespondAccept, Money, HoldMatchesQuote
<1>4. hold' = [hold EXCEPT ![m] = [status |-> "ACTIVE", quote |-> q]]
  BY <1>3 DEF RespondAccept, HoldAtAcceptance
<1>5. UNCHANGED <<status, debited, reversed>>
  BY DEF RespondAccept
<1>6. quote' = [quote EXCEPT ![q].status = "ACCEPTED"]
  BY DEF RespondAccept
<1> HIDE DEF q, m
<1>7. \A p \in Quotes : IsAccepted(p)' <=> (IsAccepted(p) \/ p = q)
  BY <1>1, <1>6 DEF IsAccepted, Typed, TypeOK, QuoteRow
<1>8. \A k \in Missions : hold'[k] = IF k = m THEN [status |-> "ACTIVE", quote |-> q] ELSE hold[k]
  BY <1>1, <1>4 DEF Typed, TypeOK
<1>9. m = Of[q]
  BY DEF m, q
<1>10. AcceptedOnce'
  BY <1>1, <1>2, <1>5, <1>7, <1>9 DEF Money, AcceptedOnce, Typed, TypeOK
<1>11. HoldMatchesQuote'
  <2>1. ASSUME NEW p \in Quotes, IsAccepted(p)' PROVE hold'[Of[p]].quote = p \/ p \in debited'
    BY <1>1, <1>2, <1>5, <1>7, <1>8, <1>9, <2>1, MissionAssumption DEF Money, HoldMatchesQuote, IsAccepted
  <2>2. ASSUME NEW k \in Missions, hold'[k].status # "NONE" PROVE hold'[k].quote \in Accepted(k)'
    BY <1>1, <1>7, <1>8, <1>9, <2>2 DEF Money, HoldMatchesQuote, Accepted, QuotesOf, IsAccepted
  <2> QED BY <2>1, <2>2 DEF HoldMatchesQuote, IsAccepted
<1>12. ConsumedIsDebited' /\ PaidOnce'
  BY <1>5, <1>8 DEF Money, ConsumedIsDebited, PaidOnce
<1> QED BY <1>10, <1>11, <1>12 DEF Money

LEMMA ConfirmMoney ==
  ASSUME Typed, Money, NEW w \in Workers, ConfirmCommit(w)
  PROVE  Money'
<1> DEFINE m == call[w].of
<1>1. m \in Missions /\ status[m] = "COMPLETED"
  BY DEF ConfirmCommit, Typed, GoodCall
<1>2. /\ status' = [status EXCEPT ![m] = "CONFIRMED"]
      /\ debited' = debited \cup Accepted(m)
      /\ UNCHANGED <<quote, reversed>>
  BY <1>1, SettleAll DEF ConfirmCommit, offers
<1>3. hold' = IF Accepted(m) = {} THEN hold
                ELSE [hold EXCEPT ![m].status = IF @ = "ACTIVE" THEN "CONSUMED" ELSE @]
  BY <1>1, SettleAll DEF ConfirmCommit
<1> HIDE DEF m
<1>4. \A k \in Missions :
        /\ hold'[k].quote = hold[k].quote
        /\ hold'[k].status = "NONE" <=> hold[k].status = "NONE"
        /\ hold'[k].status = "CONSUMED" => hold[k].status = "CONSUMED" \/ k = m
  BY <1>1, <1>3 DEF Typed, TypeOK, HoldStatus
<1>5. \A q \in Accepted(m) : q \in Quotes /\ Of[q] = m /\ IsAccepted(q)
  BY DEF Accepted, QuotesOf, IsAccepted
<1>6. AcceptedOnce'
  BY <1>2, <1>5 DEF Money, AcceptedOnce, IsAccepted
<1>7. HoldMatchesQuote'
  BY <1>2, <1>4, MissionAssumption DEF Money, HoldMatchesQuote, Accepted, QuotesOf
<1>8. \A q \in reversed : q \in Quotes /\ q \in debited /\ Of[q] # m /\ status[Of[q]] = "CANCELED"
  BY <1>1 DEF Money, PaidOnce, Typed, TypeOK
<1>9. ConsumedIsDebited'
  <2> SUFFICES ASSUME NEW k \in Missions, hold'[k].status = "CONSUMED"
               PROVE  status'[k] = "CONFIRMED" /\ hold'[k].quote \in debited' \ reversed'
    BY DEF ConsumedIsDebited
  <2>1. CASE k # m
    BY <1>2, <1>4, <2>1 DEF Money, ConsumedIsDebited, Typed, TypeOK
  <2>2. CASE k = m
    <3>1. hold[m].quote \in Accepted(m)
      BY <1>1, <1>4, <2>2 DEF Money, HoldMatchesQuote
    <3> QED BY <1>1, <1>2, <1>4, <1>5, <1>8, <2>2, <3>1 DEF Typed, TypeOK
  <2> QED BY <2>1, <2>2
<1>10. PaidOnce'
  <2>1. \A p, q \in debited' : Of[p] = Of[q] => p = q
    BY <1>6, <1>2, <1>5 DEF AcceptedOnce, Typed, TypeOK
  <2>2. \A q \in reversed' : q \in debited' /\ status'[Of[q]] = "CANCELED"
    BY <1>2, <1>8, MissionAssumption DEF Typed, TypeOK
  <2> QED BY <2>1, <2>2 DEF PaidOnce
<1> QED BY <1>6, <1>7, <1>9, <1>10 DEF Money

\* Quotes made, replaced or rejected: none of them was or becomes accepted.
LEMMA OffersQuiet ==
  ASSUME Typed, NEW w \in Workers,
         QuoteCommit(w) \/ ManualCommit(w) \/ RespondReject(w)
  PROVE  /\ UNCHANGED <<status, money, dispute>>
         /\ \A q \in Quotes : IsAccepted(q)' <=> IsAccepted(q)
<1>1. ASSUME NEW m, NEW S \in SUBSET Pending(m), NEW q \in Quotes
      PROVE  Reject(S)[q].status = "ACCEPTED" <=> IsAccepted(q)
  BY DEF Reject, Pending, IsAccepted, Typed, TypeOK, QuoteRow
<1>2. UNCHANGED <<status, money, dispute>>
  BY DEF QuoteCommit, ManualCommit, RespondReject
<1>3. ASSUME QuoteCommit(w), NEW q \in Quotes PROVE IsAccepted(q)' <=> IsAccepted(q)
  <2> DEFINE m == call[w].of
  <2>1. PICK n \in Fresh(m), S \in SUBSET Pending(m) :
          quote' = [Reject(S) EXCEPT ![n] = [status |-> "PENDING", source |-> call[w].arg]]
    BY <1>3 DEF QuoteCommit
  <2>2. quote[n].status = "NONE"
    BY DEF Fresh
  <2> HIDE DEF m
  <2>3. CASE q = n
    BY <2>1, <2>2, <2>3 DEF IsAccepted, Reject
  <2>4. CASE q # n
    <3>1. quote'[q] = Reject(S)[q]
      BY <2>1, <2>4 DEF Reject
    <3> QED BY <1>1, <3>1 DEF IsAccepted
  <2> QED BY <2>3, <2>4
<1>4. ASSUME ManualCommit(w), NEW q \in Quotes PROVE IsAccepted(q)' <=> IsAccepted(q)
  BY <1>1, <1>4 DEF ManualCommit, IsAccepted
<1>5. ASSUME RespondReject(w), NEW q \in Quotes PROVE IsAccepted(q)' <=> IsAccepted(q)
  <2> DEFINE n == call[w].of
  <2>1. n \in Quotes /\ {n} \in SUBSET Pending(Of[n])
    BY <1>5 DEF RespondReject, Pending, QuotesOf, Typed, GoodCall
  <2> QED BY <1>1, <1>5, <2>1 DEF RespondReject, IsAccepted
<1> QED BY <1>2, <1>3, <1>4, <1>5

LEMMA InitMoney == Init => Money
<1> SUFFICES ASSUME Init PROVE Money
  OBVIOUS
<1>1. ASSUME NEW m \in Missions
      PROVE  \/ /\ Accepted(m) \subseteq debited
                /\ hold[m] = [status |-> "NONE", quote |-> None]
             \/ /\ hold[m].status = "ACTIVE"
                /\ hold[m].quote \in Accepted(m)
  BY DEF Init
<1>2. \A m \in Missions : \A p, q \in Accepted(m) : p = q
  BY DEF Init
<1>3. debited \subseteq {q \in Quotes : IsAccepted(q)} /\ reversed = {}
  BY DEF Init, IsAccepted
<1>4. \A q \in Quotes : IsAccepted(q) => q \in Accepted(Of[q]) /\ Of[q] \in Missions
  BY MissionAssumption DEF Accepted, QuotesOf, IsAccepted
<1>5. AcceptedOnce
  BY <1>2, <1>3, <1>4 DEF AcceptedOnce
<1>6. HoldMatchesQuote
  BY <1>1, <1>2, <1>4 DEF HoldMatchesQuote, IsAccepted
<1>7. ConsumedIsDebited
  BY <1>1 DEF ConsumedIsDebited
<1>8. PaidOnce
  BY <1>3, <1>5 DEF AcceptedOnce, PaidOnce
<1> QED BY <1>5, <1>6, <1>7, <1>8 DEF Money

LEMMA BeginMoney ==
  ASSUME Typed, Money, NEW w \in Workers, Begin(w)
  PROVE  Money'
<1>1. ASSUME NEW m \in Missions, Cancel(w, m) PROVE Money'
  BY <1>1, ReleaseMoney, ReverseAll DEF Cancel, offers
<1>2. ASSUME NEW m \in Missions,
             QuoteRead(w, m) \/ DiagnosisRead(w, m) \/ ConfirmCheck(w, m)
               \/ OpenRead(w, m) \/ ReviewRead(w, m)
      PROVE  Money'
  BY <1>2, QuietMoney DEF QuoteRead, DiagnosisRead, ConfirmCheck, OpenRead, ReviewRead,
       offers, IsAccepted
<1>3. ASSUME NEW q \in Quotes, NegotiateRead(w, q) \/ RespondRead(w, q) PROVE Money'
  BY <1>3, QuietMoney DEF NegotiateRead, RespondRead, offers, IsAccepted
<1> QED BY <1>1, <1>2, <1>3 DEF Begin

LEMMA StepMoney ==
  ASSUME Typed, Money, NEW w \in Workers, Step(w)
  PROVE  Money'
<1>1. CASE QuoteCheck(w) \/ NegotiateCommit(w) \/ OpenCommit(w) \/ Abort(w)
  BY <1>1, QuietMoney DEF QuoteCheck, NegotiateCommit, OpenCommit, Abort, offers, IsAccepted
<1>2. CASE ReviewCommit(w)
  <2> DEFINE m == call[w].of
  <2>1. m \in Missions
    BY <1>2 DEF ReviewCommit, Typed, GoodCall
  <2>2. CASE hold' = hold
    BY <1>2, <2>2, QuietMoney DEF ReviewCommit, offers, money, IsAccepted
  <2>3. CASE hold' = Release(m)
    BY <1>2, <2>1, <2>3, ReleaseMoney DEF ReviewCommit, offers
  <2> QED BY <1>2, <2>2, <2>3 DEF ReviewCommit
<1>3. CASE QuoteCommit(w) \/ ManualCommit(w) \/ RespondReject(w)
  BY <1>3, OffersQuiet, QuietMoney
<1> QED BY <1>1, <1>2, <1>3, AcceptMoney, ConfirmMoney DEF Step

LEMMA MoneyInvariant == Spec => [](Typed /\ Money)
<1>1. Typed /\ Money /\ [Next]_vars => (Typed /\ Money)'
  <2> SUFFICES ASSUME Typed, Money, [Next]_vars PROVE Typed' /\ Money'
    OBVIOUS
  <2>1. CASE UNCHANGED vars
    <3>1. Typed'
      BY <2>1 DEF vars, offers, money, Typed, TypeOK
    <3> QED BY <2>1, <3>1, QuietMoney DEF vars, offers, IsAccepted
  <2>2. ASSUME NEW w \in Workers, Begin(w) \/ Step(w) PROVE Typed' /\ Money'
    BY <2>2, BeginTyped, StepTyped, BeginMoney, StepMoney
  <2> QED BY <2>1, <2>2 DEF Next
<1> QED BY <1>1, InitTyped, InitMoney, PTL DEF Spec

\* No mission has an accepted quote without its hold or its debit, and no hold
\* is for anything but an accepted quote of its mission, whichever requests of
\* the client and of the administrators meet.
THEOREM HoldsMatchQuotes == Spec => []HoldMatchesQuote
<1>1. Typed /\ Money => HoldMatchesQuote
  BY DEF Money
<1> QED BY <1>1, MoneyInvariant, PTL

\* A hold is consumed only by the debit of the quote it reserved, on a mission
\* that has been confirmed, and that debit is not reversed.
THEOREM ConsumedHoldsAreDebited == Spec => []ConsumedIsDebited
<1>1. Typed /\ Money => ConsumedIsDebited
  BY DEF Money
<1> QED BY <1>1, MoneyInvariant, PTL

\* A mission is debited at most once, and only the debit of a canceled mission
\* is reversed.
THEOREM MissionPaidOnce == Spec => []PaidOnce
<1>1. Typed /\ Money => PaidOnce
  BY DEF Money
<1> QED BY <1>1, MoneyInvariant, PTL

\* Every hold is backed, for any missions, quotes and concurrent requests.
THEOREM HoldsBacked == Spec => []HoldsAreBacked
<1>1. HoldMatchesQuote /\ ConsumedIsDebited => HoldsAreBacked
  BY DEF HoldsAreBacked
<1> QED BY <1>1, HoldsMatchQuotes, ConsumedHoldsAreDebited, PTL

-----------------------------------------------------------------------------
(* Where the money of a mission is, and why.                               *)

\* A mission without a hold has none to settle.
NoHold == \A m \in Missions : hold[m].status = "NONE" => hold[m].quote = None

Reasons == MoneyHasReason /\ NoHold

LEMMA HeldAt ==
  ASSUME Typed
  PROVE  \A q \in Quotes : /\ Of[q] \in Missions
                           /\ q \in Held <=> hold[Of[q]].status = "ACTIVE" /\ hold[Of[q]].quote = q
<1>1. \A q \in Quotes : hold[Of[q]] \in [status : HoldStatus, quote : Quotes \cup {None}]
  BY MissionAssumption DEF Typed, TypeOK
<1> QED BY <1>1, MissionAssumption DEF Held

LEMMA InitReasons == Init => Reasons
<1> SUFFICES ASSUME Init PROVE Reasons
  OBVIOUS
<1>1. ASSUME NEW m \in Missions
      PROVE  \/ hold[m] = [status |-> "NONE", quote |-> None]
             \/ /\ hold[m].status = "ACTIVE"
                /\ hold[m].quote \in Accepted(m)
                /\ ~(Accepted(m) \subseteq debited)
  BY DEF Init
<1>2. \A m \in Missions : \A p, q \in Accepted(m) : p = q
  BY DEF Init
<1>3. \A m \in Missions : status[m] \notin {"CANCELED", "CONFIRMED"}
  BY DEF Init, Live
<1>4. ASSUME NEW q \in debited PROVE q \notin Held
  <2>1. q \in Quotes /\ Of[q] \in Missions
    BY MissionAssumption DEF Init
  <2> QED BY <1>1, <1>2, <1>4, <2>1 DEF Held
<1> QED BY <1>1, <1>3, <1>4 DEF Reasons, NoHold, MoneyHasReason

\* Steps that move no money, close no mission and undo no decision.
LEMMA QuietReasons ==
  ASSUME Reasons, UNCHANGED <<status, money>>,
         \A q \in Quotes : IsAccepted(q)' <=> IsAccepted(q),
         \A m \in Missions : dispute[m] \in Decision => dispute'[m] \in Decision
  PROVE  Reasons'
<1>1. Held' = Held
  BY DEF Held, money
<1>2. \A m \in Missions : Accepted(m)' = Accepted(m)
  BY DEF Accepted, QuotesOf, IsAccepted
<1>3. NoHold'
  BY DEF Reasons, NoHold, money
<1>4. MoneyHasReason'
  BY <1>1, <1>2 DEF Reasons, MoneyHasReason, QuotesOf, money
<1> QED BY <1>3, <1>4 DEF Reasons

\* What a hold given back changes.
LEMMA ReleaseSteps ==
  ASSUME Typed, Typed', NEW m \in Missions, hold' = Release(m)
  PROVE  /\ Held' \subseteq Held
         /\ \A q \in Held : Of[q] # m => q \in Held'
         /\ \A k \in Missions :
              /\ k # m => hold'[k] = hold[k]
              /\ hold'[k].quote = hold[k].quote
              /\ hold'[k].status = "NONE" => hold[k].status = "NONE"
              /\ hold[k].status = "RELEASED" => hold'[k].status = "RELEASED"
<1>1. \A k \in Missions :
        /\ k # m => hold'[k] = hold[k]
        /\ hold'[k].quote = hold[k].quote
        /\ hold'[k].status = "NONE" => hold[k].status = "NONE"
        /\ hold[k].status = "RELEASED" => hold'[k].status = "RELEASED"
        /\ hold'[k].status = "ACTIVE" => hold[k].status = "ACTIVE"
  BY DEF Release, Typed, TypeOK, HoldStatus
<1>2. \A q \in Quotes : q \in Held' => q \in Held
  BY <1>1, HeldAt, MissionAssumption DEF Held
<1>3. ASSUME NEW q \in Held, Of[q] # m PROVE q \in Held'
  <2>1. q \in Quotes /\ hold'[Of[q]] = hold[Of[q]]
    BY <1>1, <1>3, MissionAssumption DEF Held
  <2> QED BY <1>3, <2>1 DEF Held
<1>4. Held' \subseteq Quotes
  BY DEF Held
<1> QED BY <1>1, <1>2, <1>3, <1>4

LEMMA CancelReasons ==
  ASSUME Typed, Typed', Money, Reasons, NEW w \in Workers, NEW m \in Missions, Cancel(w, m)
  PROVE  Reasons'
<1>1. /\ status[m] \in {"PENDING", "ACCEPTED", "SCHEDULED"}
      /\ status' = [status EXCEPT ![m] = "CANCELED"]
      /\ hold' = Release(m)
      /\ reversed' = reversed \cup (debited \cap QuotesOf(m))
      /\ UNCHANGED <<quote, debited, dispute>>
  BY ReverseAll DEF Cancel, offers
<1>2. \A k \in Missions : status'[k] = IF k = m THEN "CANCELED" ELSE status[k]
  BY <1>1 DEF Typed, TypeOK
<1>3. \A k \in Missions : Accepted(k)' = Accepted(k)
  BY <1>1 DEF Accepted, QuotesOf
<1>4. NoHold'
  BY <1>1, ReleaseSteps DEF Reasons, NoHold
<1>5. \A q \in debited' : q \notin Held'
  BY <1>1, ReleaseSteps DEF Reasons, MoneyHasReason
<1>6. ASSUME NEW k \in Missions
      PROVE  /\ status'[k] = "CANCELED" => debited' \cap QuotesOf(k) \subseteq reversed'
             /\ hold'[k].status = "RELEASED" => status'[k] = "CANCELED" \/ dispute'[k] \in Decision
             /\ status'[k] = "CONFIRMED" =>
                  Accepted(k)' \subseteq debited' \cup Held' \/ dispute'[k] \in Decision
  <2>1. CASE k = m
    BY <1>1, <1>2, <2>1
  <2>2. CASE k # m
    <3>1. \A q \in Accepted(k) : q \in Held => q \in Held'
      BY <1>1, <2>2, ReleaseSteps DEF Accepted, QuotesOf
    <3>2. hold'[k] = hold[k] /\ status'[k] = status[k]
      BY <1>1, <1>2, <2>2, ReleaseSteps
    <3> QED BY <1>1, <1>3, <3>1, <3>2 DEF Reasons, MoneyHasReason
  <2> QED BY <2>1, <2>2
<1>7. MoneyHasReason'
  BY <1>5, <1>6 DEF MoneyHasReason, QuotesOf
<1> QED BY <1>4, <1>7 DEF Reasons

LEMMA ReviewReasons ==
  ASSUME Typed, Typed', Reasons, NEW w \in Workers, ReviewCommit(w)
  PROVE  Reasons'
<1>1. PICK m \in Missions, d \in Decision :
        /\ dispute' = [dispute EXCEPT ![m] = d]
        /\ hold' = Release(m) \/ hold' = hold
        /\ UNCHANGED <<status, quote, debited, reversed>>
  BY DEF ReviewCommit, Typed, GoodCall, offers
<1>2. \A k \in Missions : dispute'[k] = IF k = m THEN d ELSE dispute[k]
  BY <1>1 DEF Typed, TypeOK
<1>3. \A q \in Quotes : IsAccepted(q)' <=> IsAccepted(q)
  BY <1>1 DEF IsAccepted
<1>4. CASE hold' = hold
  BY <1>1, <1>2, <1>3, <1>4, QuietReasons DEF money
<1>5. CASE hold' = Release(m)
  <2>1. \A k \in Missions : Accepted(k)' = Accepted(k)
    BY <1>1 DEF Accepted, QuotesOf
  <2>2. NoHold'
    BY <1>5, ReleaseSteps DEF Reasons, NoHold
  <2>3. \A q \in debited' : q \notin Held'
    BY <1>1, <1>5, ReleaseSteps DEF Reasons, MoneyHasReason
  <2>4. ASSUME NEW k \in Missions
        PROVE  /\ status'[k] = "CANCELED" => debited' \cap QuotesOf(k) \subseteq reversed'
               /\ hold'[k].status = "RELEASED" => status'[k] = "CANCELED" \/ dispute'[k] \in Decision
               /\ status'[k] = "CONFIRMED" =>
                    Accepted(k)' \subseteq debited' \cup Held' \/ dispute'[k] \in Decision
    <3>1. CASE k = m
      BY <1>1, <1>2, <3>1 DEF Reasons, MoneyHasReason
    <3>2. CASE k # m
      <4>1. \A q \in Accepted(k) : q \in Held => q \in Held'
        BY <1>5, <3>2, ReleaseSteps DEF Accepted, QuotesOf
      <4>2. hold'[k] = hold[k] /\ dispute'[k] = dispute[k]
        BY <1>2, <1>5, <3>2, ReleaseSteps
      <4> QED BY <1>1, <2>1, <4>1, <4>2 DEF Reasons, MoneyHasReason
    <3> QED BY <3>1, <3>2
  <2>5. MoneyHasReason'
    BY <2>3, <2>4 DEF MoneyHasReason, QuotesOf
  <2> QED BY <2>2, <2>5 DEF Reasons
<1> QED BY <1>1, <1>4, <1>5

\* What an acceptance changes.
LEMMA AcceptSteps ==
  ASSUME Typed, Typed', Money, NEW w \in Workers, RespondAccept(w)
  PROVE  \E q \in Quotes :
           /\ Gross[q] <= Available
           /\ hold[Of[q]].status = "NONE" /\ q \notin debited
           /\ UNCHANGED <<status, debited, reversed, dispute>>
           /\ \A p \in Quotes : IsAccepted(p)' <=> IsAccepted(p) \/ p = q
           /\ \A k \in Missions :
                hold'[k] = IF k = Of[q] THEN [status |-> "ACTIVE", quote |-> q] ELSE hold[k]
           /\ Held' = Held \cup {q}
<1>1. PICK q \in Quotes :
        /\ quote[q].status = "PENDING" /\ Accepted(Of[q]) = {}
        /\ quote' = [quote EXCEPT ![q].status = "ACCEPTED"]
        /\ HoldAtAcceptance(q)
        /\ UNCHANGED <<status, debited, reversed, dispute>>
  BY DEF RespondAccept, Typed, GoodCall
<1>2. Of[q] \in Missions
  BY MissionAssumption
<1>3. hold[Of[q]].status = "NONE" /\ q \notin debited
  BY <1>1, <1>2 DEF Money, HoldMatchesQuote, AcceptedOnce, IsAccepted
<1>4. Gross[q] <= Available /\ hold' = [hold EXCEPT ![Of[q]] = [status |-> "ACTIVE", quote |-> q]]
  BY <1>1, <1>3 DEF HoldAtAcceptance
<1>5. \A k \in Missions :
        hold'[k] = IF k = Of[q] THEN [status |-> "ACTIVE", quote |-> q] ELSE hold[k]
  BY <1>2, <1>4 DEF Typed, TypeOK
<1>6. \A p \in Quotes : IsAccepted(p)' <=> IsAccepted(p) \/ p = q
  BY <1>1 DEF IsAccepted, Typed, TypeOK, QuoteRow
<1>7. \A p \in Quotes : p \in Held' <=> p \in Held \/ p = q
  BY <1>3, <1>5, MissionAssumption DEF Held
<1>8. Held \subseteq Quotes /\ Held' \subseteq Quotes
  BY DEF Held
<1> QED BY <1>1, <1>3, <1>4, <1>5, <1>6, <1>7, <1>8

LEMMA AcceptReasons ==
  ASSUME Typed, Typed', Money, Reasons, NEW w \in Workers, RespondAccept(w)
  PROVE  Reasons'
<1>1. PICK q \in Quotes :
        /\ hold[Of[q]].status = "NONE" /\ q \notin debited
        /\ UNCHANGED <<status, debited, reversed, dispute>>
        /\ \A p \in Quotes : IsAccepted(p)' <=> IsAccepted(p) \/ p = q
        /\ \A k \in Missions :
             hold'[k] = IF k = Of[q] THEN [status |-> "ACTIVE", quote |-> q] ELSE hold[k]
        /\ Held' = Held \cup {q}
  BY AcceptSteps
<1>2. \A k \in Missions : Accepted(k)' \subseteq Accepted(k) \cup {q}
  BY <1>1 DEF Accepted, QuotesOf, IsAccepted
<1>3. NoHold'
  BY <1>1 DEF Reasons, NoHold
<1>4. ASSUME NEW k \in Missions
      PROVE  /\ status'[k] = "CANCELED" => debited' \cap QuotesOf(k) \subseteq reversed'
             /\ hold'[k].status = "RELEASED" => status'[k] = "CANCELED" \/ dispute'[k] \in Decision
             /\ status'[k] = "CONFIRMED" =>
                  Accepted(k)' \subseteq debited' \cup Held' \/ dispute'[k] \in Decision
  BY <1>1, <1>2 DEF Reasons, MoneyHasReason
<1>5. \A p \in debited' : p \notin Held'
  BY <1>1 DEF Reasons, MoneyHasReason
<1>6. MoneyHasReason'
  BY <1>4, <1>5 DEF MoneyHasReason, QuotesOf
<1> QED BY <1>3, <1>6 DEF Reasons

\* What a settlement changes: the hold of the accepted quote is consumed if it
\* is still there, and the quote is debited either way.
LEMMA ConfirmSteps ==
  ASSUME Typed, Typed', Money, NEW w \in Workers, ConfirmCommit(w)
  PROVE  \E m \in Missions :
           /\ status[m] = "COMPLETED"
           /\ UNCHANGED <<quote, reversed, dispute>>
           /\ \A k \in Missions : status'[k] = IF k = m THEN "CONFIRMED" ELSE status[k]
           /\ debited' = debited \cup Accepted(m)
           /\ \A k \in Missions :
                /\ k # m \/ Accepted(m) = {} => hold'[k] = hold[k]
                /\ hold'[k].quote = hold[k].quote
           /\ Accepted(m) # {} =>
                hold'[m].status = IF hold[m].status = "ACTIVE" THEN "CONSUMED" ELSE hold[m].status
           /\ Held' = Held \ Accepted(m)
<1>1. PICK m \in Missions :
        /\ status[m] = "COMPLETED"
        /\ status' = [status EXCEPT ![m] = "CONFIRMED"]
        /\ Settle(m)
        /\ UNCHANGED <<quote, reversed, dispute>>
  BY DEF ConfirmCommit, Typed, GoodCall, offers
<1>2. /\ debited' = debited \cup Accepted(m)
      /\ hold' = IF Accepted(m) = {} THEN hold
                   ELSE [hold EXCEPT ![m].status = IF @ = "ACTIVE" THEN "CONSUMED" ELSE @]
  BY <1>1, SettleAll
<1>3. \A k \in Missions : status'[k] = IF k = m THEN "CONFIRMED" ELSE status[k]
  BY <1>1 DEF Typed, TypeOK
<1>4. /\ \A k \in Missions : /\ k # m \/ Accepted(m) = {} => hold'[k] = hold[k]
                             /\ hold'[k].quote = hold[k].quote
      /\ Accepted(m) # {} =>
           hold'[m].status = IF hold[m].status = "ACTIVE" THEN "CONSUMED" ELSE hold[m].status
  BY <1>2 DEF Typed, TypeOK
<1>5. Held \subseteq Quotes /\ Held' \subseteq Quotes
  BY DEF Held
<1>6. ASSUME NEW q \in Quotes PROVE q \in Held' <=> q \in Held \ Accepted(m)
  <2>1. CASE Of[q] # m \/ Accepted(m) = {}
    <3>1. hold'[Of[q]] = hold[Of[q]] /\ q \notin Accepted(m)
      BY <1>4, <2>1, MissionAssumption DEF Accepted, QuotesOf
    <3> QED BY <3>1 DEF Held
  <2>2. CASE Of[q] = m /\ Accepted(m) # {}
    <3>1. hold'[m].status # "ACTIVE"
      BY <1>4, <2>2
    <3>2. q \in Held => q \in Accepted(m)
      BY <2>2, HeldAt DEF Money, HoldMatchesQuote
    <3>3. q \notin Held'
      BY <2>2, <3>1 DEF Held
    <3> QED BY <3>2, <3>3
  <2> QED BY <2>1, <2>2
<1> QED BY <1>1, <1>2, <1>3, <1>4, <1>5, <1>6

LEMMA ConfirmReasons ==
  ASSUME Typed, Typed', Money, Reasons, NEW w \in Workers, ConfirmCommit(w)
  PROVE  Reasons'
<1>1. PICK m \in Missions :
        /\ status[m] = "COMPLETED"
        /\ UNCHANGED <<quote, reversed, dispute>>
        /\ \A k \in Missions : status'[k] = IF k = m THEN "CONFIRMED" ELSE status[k]
        /\ debited' = debited \cup Accepted(m)
        /\ \A k \in Missions :
             /\ k # m \/ Accepted(m) = {} => hold'[k] = hold[k]
             /\ hold'[k].quote = hold[k].quote
        /\ Accepted(m) # {} =>
             hold'[m].status = IF hold[m].status = "ACTIVE" THEN "CONSUMED" ELSE hold[m].status
        /\ Held' = Held \ Accepted(m)
  BY ConfirmSteps
<1>2. \A k \in Missions : Accepted(k)' = Accepted(k)
  BY <1>1 DEF Accepted, QuotesOf
<1>3. \A k \in Missions : k # m => Accepted(m) \cap QuotesOf(k) = {}
  BY DEF Accepted, QuotesOf
<1>4. NoHold'
  BY <1>1 DEF Reasons, NoHold
<1>5. \A q \in debited' : q \notin Held'
  BY <1>1 DEF Reasons, MoneyHasReason
<1>6. ASSUME NEW k \in Missions
      PROVE  /\ status'[k] = "CANCELED" => debited' \cap QuotesOf(k) \subseteq reversed'
             /\ hold'[k].status = "RELEASED" => status'[k] = "CANCELED" \/ dispute'[k] \in Decision
             /\ status'[k] = "CONFIRMED" =>
                  Accepted(k)' \subseteq debited' \cup Held' \/ dispute'[k] \in Decision
  <2>1. CASE k = m
    <3>1. status[m] # "CANCELED"
      BY <1>1
    <3>2. hold'[m].status = "RELEASED" => hold[m].status = "RELEASED"
      BY <1>1
    <3> QED BY <1>1, <1>2, <2>1, <3>1, <3>2 DEF Reasons, MoneyHasReason
  <2>2. CASE k # m
    <3>1. debited' \cap QuotesOf(k) = debited \cap QuotesOf(k)
      BY <1>1, <1>3, <2>2
    <3>2. hold'[k] = hold[k] /\ status'[k] = status[k]
      BY <1>1, <2>2
    <3>3. \A q \in Accepted(k) : q \in Held => q \in Held'
      BY <1>1, <1>3, <2>2 DEF Accepted
    <3> QED BY <1>1, <1>2, <3>1, <3>2, <3>3 DEF Reasons, MoneyHasReason
  <2> QED BY <2>1, <2>2
<1>7. MoneyHasReason'
  BY <1>5, <1>6 DEF MoneyHasReason, QuotesOf
<1> QED BY <1>4, <1>7 DEF Reasons

LEMMA ReasonsStep ==
  ASSUME Typed, Typed', Money, Reasons, [Next]_vars
  PROVE  Reasons'
<1>1. ASSUME NEW w \in Workers, NEW m \in Missions,
             QuoteRead(w, m) \/ DiagnosisRead(w, m) \/ ConfirmCheck(w, m)
               \/ OpenRead(w, m) \/ ReviewRead(w, m)
      PROVE  Reasons'
  BY <1>1, QuietReasons DEF QuoteRead, DiagnosisRead, ConfirmCheck, OpenRead, ReviewRead,
       offers, IsAccepted
<1>2. ASSUME NEW w \in Workers, NEW q \in Quotes, NegotiateRead(w, q) \/ RespondRead(w, q)
      PROVE  Reasons'
  BY <1>2, QuietReasons DEF NegotiateRead, RespondRead, offers, IsAccepted
<1>3. ASSUME NEW w \in Workers, Begin(w) PROVE Reasons'
  BY <1>1, <1>2, <1>3, CancelReasons DEF Begin
<1>4. ASSUME NEW w \in Workers, QuoteCheck(w) \/ NegotiateCommit(w) \/ Abort(w) PROVE Reasons'
  BY <1>4, QuietReasons DEF QuoteCheck, NegotiateCommit, Abort, offers, IsAccepted
<1>5. ASSUME NEW w \in Workers, OpenCommit(w) PROVE Reasons'
  <2>1. PICK m \in Missions : dispute[m] = "NONE" /\ dispute' = [dispute EXCEPT ![m] = "OPEN"]
    BY <1>5 DEF OpenCommit, Typed, GoodCall
  <2>2. \A k \in Missions : dispute[k] \in Decision => dispute'[k] \in Decision
    BY <2>1 DEF Decision, Typed, TypeOK
  <2> QED BY <1>5, <2>2, QuietReasons DEF OpenCommit, offers, IsAccepted
<1>6. ASSUME NEW w \in Workers, QuoteCommit(w) \/ ManualCommit(w) \/ RespondReject(w)
      PROVE  Reasons'
  BY <1>6, OffersQuiet, QuietReasons
<1>7. ASSUME NEW w \in Workers, Step(w) PROVE Reasons'
  BY <1>4, <1>5, <1>6, <1>7, AcceptReasons, ConfirmReasons, ReviewReasons DEF Step
<1>8. CASE UNCHANGED vars
  BY <1>8, QuietReasons DEF vars, offers, IsAccepted
<1> QED BY <1>3, <1>7, <1>8 DEF Next

LEMMA ReasonsInvariant == Spec => [](Typed /\ Money /\ Reasons)
<1>1. Typed /\ Typed' /\ Money /\ Reasons /\ [Next]_vars => Reasons'
  BY ReasonsStep
<1> QED BY <1>1, InitReasons, MoneyInvariant, PTL DEF Spec

\* Whatever requests meet: nothing is reserved and paid at once, a canceled
\* mission is refunded, a hold goes back only with a cancellation or a decision,
\* and what was accepted on a confirmed mission is paid or reserved.
THEOREM ReasonsHold == Spec => []MoneyHasReason
<1>1. Typed /\ Money /\ Reasons => MoneyHasReason
  BY DEF Reasons
<1> QED BY <1>1, ReasonsInvariant, PTL

-----------------------------------------------------------------------------
(* What the wallet can still pay.  A quote is engaged while it is reserved *)
(* or paid, except by a debit whose hold had been given back.              *)

Paid    == debited \ reversed
Engaged == (Paid \ Unreserved) \cup Held

LEMMA SetsFinite ==
  ASSUME NEW S \in SUBSET Quotes
  PROVE  IsFiniteSet(S) /\ Total(S) \in Nat
<1>1. IsFiniteSet(S) /\ \A q \in S : Gross[q] \in Nat
  BY FS_Subset, MissionAssumption
<1> QED BY <1>1, SumNat DEF Total

LEMMA TotalSplits ==
  ASSUME NEW S \in SUBSET Quotes, NEW R \in SUBSET S
  PROVE  Total(S) = Total(R) + Total(S \ R)
<1>1. IsFiniteSet(S) /\ \A p \in S : Gross[p] \in Nat
  BY SetsFinite, MissionAssumption
<1> QED BY <1>1, SumSplit DEF Total

\* The debits beyond their holds aside, the wallet pays for what is engaged.
LEMMA EngagedCovers ==
  ASSUME Typed, Reasons
  PROVE  /\ NeverOverdrawn <=> Total(Engaged) <= Opening
         /\ Available <= Opening - Total(Engaged)
         /\ Engaged \subseteq Quotes
<1>1. /\ Unreserved \subseteq Paid /\ Paid \subseteq Quotes
      /\ Held \subseteq Engaged /\ Engaged \subseteq Quotes
  BY DEF Unreserved, Paid, Held, Engaged, Typed, TypeOK
<1>2. Engaged \ Held = Paid \ Unreserved
  BY DEF Engaged, Paid, Reasons, MoneyHasReason
<1>3. Total(Paid) = Total(Unreserved) + Total(Paid \ Unreserved)
  BY <1>1, TotalSplits
<1>4. Total(Engaged) = Total(Held) + Total(Paid \ Unreserved)
  BY <1>1, <1>2, TotalSplits
<1>5. /\ Total(Paid) \in Nat /\ Total(Unreserved) \in Nat /\ Total(Held) \in Nat
      /\ Total(Paid \ Unreserved) \in Nat /\ Total(Engaged) \in Nat /\ Opening \in Nat
  BY <1>1, SetsFinite, MissionAssumption
<1>6. Available = Opening - Total(Paid) - Total(Held)
  BY DEF Available, Balance, Paid
<1>7. Available + Total(Unreserved) >= 0 <=> Total(Engaged) <= Opening
  BY <1>3, <1>4, <1>5, <1>6
<1>8. Available <= Opening - Total(Engaged)
  BY <1>3, <1>4, <1>5, <1>6
<1> QED BY <1>1, <1>7, <1>8 DEF NeverOverdrawn

\* What is no longer engaged is available again.
LEMMA LessEngaged ==
  ASSUME Typed, Reasons, Typed', Reasons', NeverOverdrawn, Engaged' \subseteq Engaged
  PROVE  NeverOverdrawn'
<1>1. Engaged \subseteq Quotes /\ Total(Engaged) <= Opening
  BY EngagedCovers
<1>2. Total(Engaged) = Total(Engaged') + Total(Engaged \ Engaged')
  BY <1>1, TotalSplits
<1>3. /\ Total(Engaged) \in Nat /\ Total(Engaged') \in Nat
      /\ Total(Engaged \ Engaged') \in Nat /\ Opening \in Nat
  BY <1>1, SetsFinite, MissionAssumption
<1>4. Total(Engaged') <= Opening
  BY <1>1, <1>2, <1>3
<1>5. NeverOverdrawn' <=> Total(Engaged') <= Opening
  <2>1. (NeverOverdrawn <=> Total(Engaged) <= Opening)'
    BY EngagedCovers, PTL
  <2> QED BY <2>1 DEF Total
<1> QED BY <1>4, <1>5

\* An acceptance engages no more than what is available.
LEMMA AcceptEngages ==
  ASSUME Typed, Money, Reasons, Typed', Reasons', NeverOverdrawn, NEW w \in Workers, RespondAccept(w)
  PROVE  NeverOverdrawn'
<1>1. PICK q \in Quotes :
        /\ Gross[q] <= Available
        /\ hold[Of[q]].status = "NONE" /\ q \notin debited
        /\ UNCHANGED <<debited, reversed>>
        /\ \A k \in Missions :
             hold'[k] = IF k = Of[q] THEN [status |-> "ACTIVE", quote |-> q] ELSE hold[k]
        /\ Held' = Held \cup {q}
  BY AcceptSteps
<1>2. \A p \in Quotes : p \in Paid => (p \in Unreserved <=> p \in Unreserved')
  BY <1>1, MissionAssumption DEF Paid, Unreserved
<1>3. Paid \subseteq Quotes /\ Paid' = Paid
  BY <1>1 DEF Paid, Typed, TypeOK
<1>4. Engaged' = Engaged \cup {q}
  BY <1>1, <1>2, <1>3 DEF Engaged
<1>5. q \notin Engaged
  BY <1>1 DEF Engaged, Paid, Held
<1>6. Available <= Opening - Total(Engaged) /\ Engaged \subseteq Quotes
  BY EngagedCovers
<1>7. Total(Engaged') = Gross[q] + Total(Engaged)
  <2>1. IsFiniteSet(Engaged) /\ \A p \in Engaged \cup {q} : Gross[p] \in Nat
    BY <1>6, SetsFinite, MissionAssumption
  <2> QED BY <1>4, <1>5, <2>1, SumAdd DEF Total
<1>8. Available \in Int /\ Total(Engaged) \in Nat /\ Gross[q] \in Nat /\ Opening \in Nat
  <2>1. Held \subseteq Quotes /\ debited \ reversed \subseteq Quotes
    BY DEF Held, Typed, TypeOK
  <2> QED BY <1>6, <2>1, SetsFinite, MissionAssumption DEF Available, Balance
<1>9. Total(Engaged') <= Opening
  BY <1>1, <1>6, <1>7, <1>8
<1>10. NeverOverdrawn' <=> Total(Engaged') <= Opening
  <2>1. (NeverOverdrawn <=> Total(Engaged) <= Opening)'
    BY EngagedCovers, PTL
  <2> QED BY <2>1 DEF Total
<1> QED BY <1>9, <1>10

\* A settlement pays a quote that was reserved, or one whose hold was given back.
LEMMA ConfirmEngages ==
  ASSUME Typed, Money, Reasons, Typed', NEW w \in Workers, ConfirmCommit(w)
  PROVE  Engaged' \subseteq Engaged
<1>1. PICK m \in Missions :
        /\ UNCHANGED reversed
        /\ debited' = debited \cup Accepted(m)
        /\ \A k \in Missions : k # m \/ Accepted(m) = {} => hold'[k] = hold[k]
        /\ Accepted(m) # {} =>
             hold'[m].status = IF hold[m].status = "ACTIVE" THEN "CONSUMED" ELSE hold[m].status
        /\ Held' = Held \ Accepted(m)
  BY ConfirmSteps
<1>2. debited' \subseteq Quotes
  BY DEF Typed, TypeOK
<1>3. ASSUME NEW q \in Paid' \ Unreserved' PROVE q \in Engaged
  <2>1. q \in Quotes /\ Of[q] \in Missions /\ q \notin reversed
    BY <1>1, <1>2, MissionAssumption DEF Paid
  <2>2. CASE q \in debited
    <3>1. hold[Of[q]].status = "RELEASED" => hold'[Of[q]].status = "RELEASED"
      BY <1>1, <2>1
    <3> QED BY <1>3, <2>1, <2>2, <3>1 DEF Engaged, Paid, Unreserved
  <2>3. CASE q \notin debited
    <3>1. q \in Accepted(m) /\ Of[q] = m
      BY <1>1, <2>3 DEF Paid, Accepted, QuotesOf
    <3>2. hold[m].quote = q /\ hold[m] \in [status : HoldStatus, quote : Quotes \cup {None}]
      BY <2>1, <2>3, <3>1 DEF Money, HoldMatchesQuote, Accepted, Typed, TypeOK
    <3>3. hold[m].status # "RELEASED"
      BY <1>1, <1>3, <3>1 DEF Paid, Unreserved
    <3>4. hold[m].status # "NONE"
      BY <2>1, <3>2, MissionAssumption DEF Reasons, NoHold
    <3>5. hold[m].status # "CONSUMED"
      BY <2>3, <3>2 DEF Money, ConsumedIsDebited
    <3>6. q \in Held
      BY <2>1, <3>1, <3>2, <3>3, <3>4, <3>5, HeldAt DEF HoldStatus
    <3> QED BY <3>6 DEF Engaged
  <2> QED BY <2>2, <2>3
<1> QED BY <1>1, <1>3 DEF Engaged

\* The other steps engage nothing.
LEMMA OthersEngage ==
  ASSUME Typed, Typed', [Next]_vars, \A w \in Workers : ~RespondAccept(w) /\ ~ConfirmCommit(w)
  PROVE  Engaged' \subseteq Engaged
<1>1. CASE UNCHANGED money
  BY <1>1 DEF money, Engaged, Paid, Held, Unreserved
<1>2. ASSUME NEW m \in Missions, hold' = Release(m), debited' = debited, reversed \subseteq reversed'
      PROVE  Engaged' \subseteq Engaged
  <2>1. Held' \subseteq Held /\ Paid' \subseteq Paid /\ Paid \subseteq Quotes
    BY <1>2, ReleaseSteps DEF Paid, Typed, TypeOK
  <2>2. \A q \in Paid' : q \in Unreserved => q \in Unreserved'
    BY <1>2, <2>1, ReleaseSteps, MissionAssumption DEF Paid, Unreserved
  <2> QED BY <2>1, <2>2 DEF Engaged
<1>3. ASSUME NEW w \in Workers, NEW m \in Missions, Cancel(w, m) PROVE Engaged' \subseteq Engaged
  <2>1. reversed \subseteq reversed'
    BY <1>3 DEF Cancel, ReverseDebitIfAny
  <2> QED BY <1>2, <1>3, <2>1 DEF Cancel
<1>4. ASSUME NEW w \in Workers, ReviewCommit(w) PROVE Engaged' \subseteq Engaged
  <2>1. PICK m \in Missions : (hold' = Release(m) \/ hold' = hold) /\ UNCHANGED <<debited, reversed>>
    BY <1>4 DEF ReviewCommit, Typed, GoodCall
  <2> QED BY <1>1, <1>2, <2>1 DEF money
<1>5. ASSUME NEW w \in Workers, Begin(w), \A m \in Missions : ~Cancel(w, m)
      PROVE  UNCHANGED money
  BY <1>5 DEF Begin, QuoteRead, DiagnosisRead, ConfirmCheck, OpenRead, ReviewRead,
       NegotiateRead, RespondRead
<1>6. ASSUME NEW w \in Workers, Step(w), ~ReviewCommit(w)
      PROVE  UNCHANGED money
  BY <1>6 DEF Step, QuoteCheck, QuoteCommit, ManualCommit, NegotiateCommit, RespondReject,
       OpenCommit, Abort
<1>7. CASE UNCHANGED vars
  BY <1>1, <1>7 DEF vars
<1> QED BY <1>1, <1>3, <1>4, <1>5, <1>6, <1>7 DEF Next

\* However many quotes are accepted, confirmed, canceled and disputed together,
\* and whatever they cost, the missions of a client reserve and debit no more
\* than the wallet holds, except by a debit whose hold a dispute had released.
THEOREM WalletNeverOverdrawn == Spec => []NeverOverdrawn
<1>1. Init => NeverOverdrawn
  <2> SUFFICES ASSUME Init PROVE NeverOverdrawn
    OBVIOUS
  <2>1. Typed /\ Reasons /\ Available >= 0
    BY InitTyped, InitReasons DEF Init
  <2>2. /\ Held \subseteq Quotes /\ debited \ reversed \subseteq Quotes
        /\ Unreserved \subseteq Quotes
    BY <2>1 DEF Held, Unreserved, Typed, TypeOK
  <2>3. Available \in Int /\ Total(Unreserved) \in Nat
    BY <2>2, SetsFinite, MissionAssumption DEF Available, Balance
  <2> QED BY <2>1, <2>3 DEF NeverOverdrawn
<1>2. /\ Typed /\ Money /\ Reasons /\ NeverOverdrawn
      /\ Typed' /\ Reasons' /\ [Next]_vars
      => NeverOverdrawn'
  <2> SUFFICES ASSUME Typed, Money, Reasons, NeverOverdrawn, Typed', Reasons', [Next]_vars
               PROVE  NeverOverdrawn'
    OBVIOUS
  <2>1. ASSUME NEW w \in Workers, RespondAccept(w) PROVE NeverOverdrawn'
    BY <2>1, AcceptEngages
  <2>2. ASSUME NEW w \in Workers, ConfirmCommit(w) PROVE NeverOverdrawn'
    BY <2>2, ConfirmEngages, LessEngaged
  <2>3. ASSUME \A w \in Workers : ~RespondAccept(w) /\ ~ConfirmCommit(w) PROVE NeverOverdrawn'
    BY <2>3, OthersEngage, LessEngaged
  <2> QED BY <2>1, <2>2, <2>3
<1> QED BY <1>1, <1>2, ReasonsInvariant, PTL DEF Spec
=============================================================================
