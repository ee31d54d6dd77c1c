---------------------------- MODULE Topup_proofs ----------------------------
(***************************************************************************)
(* Proofs about Topup, for any set of intents and of workers.              *)
(***************************************************************************)
EXTENDS Topup, TLAPS

(* What a handler has learned so far stays true until it acts on it.  A    *)
(* call on its way to a credit carries a payment that SasPay has collected *)
(* and, once past the controls, the positive net of that payment.          *)
KnowsIntent == {"init.send", "init.wait", "init.store", "verify.ask", "fail.write",
                "confirm.check", "confirm.commit"}
KnowsTx     == {"init.store", "verify.ask", "confirm.read", "confirm.check", "confirm.commit"}
Paying      == {"confirm.read", "confirm.check", "confirm.commit"}
Controlled  == {"confirm.check", "confirm.commit"}

CallsOK ==
  \A w \in Workers :
    /\ call[w].pc \in KnowsIntent => call[w].intent \in Intents
    /\ call[w].pc \in KnowsTx => call[w].tx \in Intents
    /\ call[w].pc \in Paying => /\ payment[call[w].tx].status = "SUCCESS"
                                /\ call[w].net \in {0, payment[call[w].tx].net}
    /\ call[w].pc \in Controlled => call[w].net > 0

SentOK == \A p \in Intents :
  /\ "SUCCESS" \in payment[p].sent => payment[p].status = "SUCCESS"
  /\ payment[p].net \in Nets \cup {0}

Base == TypeOK /\ CallsOK /\ SentOK

LEMMA IdleType == ASSUME TRUE PROVE /\ Idle \in CallSet
                                    /\ Idle.pc = "idle"
  BY DEF Idle, At, CallSet, PCs, Ref, Status

LEMMA InitBase == Init => Base
<1> SUFFICES ASSUME Init PROVE Base
  OBVIOUS
<1>1. TypeOK
  BY IdleType DEF Init, TypeOK, Row, Entry, Payment, Ref, Status
<1>2. CallsOK
  BY IdleType DEF Init, CallsOK, KnowsIntent, KnowsTx, Paying, Controlled
<1>3. SentOK
  BY DEF Init, SentOK
<1> QED BY <1>1, <1>2, <1>3 DEF Base

(* A worker that returns, or moves to a step that needs nothing known,     *)
(* keeps Base.                                                             *)
LEMMA DoneKeepsBase ==
  ASSUME Base, NEW w \in Workers, Done(w), UNCHANGED <<intent, ledger, payment>>
  PROVE  Base'
  BY IdleType DEF Base, TypeOK, CallsOK, SentOK, Done, Goto,
       KnowsIntent, KnowsTx, Paying, Controlled

LEMMA CreateBase == ASSUME Base, NEW i \in Intents, CreateTopupIntent(i) PROVE Base'
  BY DEF Base, TypeOK, CallsOK, SentOK, CreateTopupIntent, Row, Status

LEMMA PaymentEndsBase == ASSUME Base, NEW p \in Intents, PaymentEnds(p) PROVE Base'
<1> USE DEF Base
<1>1. PICK s \in {"SUCCESS", "FAILED", "CANCELLED"} :
        /\ payment' = [payment EXCEPT ![p].status = s, ![p].sent = @ \cup {s}]
  BY TopupAssumption DEF PaymentEnds, Closed
<1>2. payment[p].status # "SUCCESS"
  BY DEF PaymentEnds, Closed
<1>3. payment[p] \in Payment /\ s \in Status
  BY DEF TypeOK, Status, Closed
<1>4. /\ payment' \in [Intents -> Payment]
      /\ payment'[p].status = s
      /\ payment'[p].sent = payment[p].sent \cup {s}
      /\ \A q \in Intents : q # p => payment'[q] = payment[q]
      /\ \A q \in Intents : payment'[q].net = payment[q].net
  BY <1>1, <1>3 DEF TypeOK, Payment
<1>5. TypeOK'
  BY <1>4 DEF TypeOK, PaymentEnds
<1>6. CallsOK'
  BY <1>2, <1>4 DEF CallsOK, PaymentEnds, KnowsTx, Paying
<1>7. SentOK'
  BY <1>2, <1>4 DEF SentOK
<1> QED BY <1>5, <1>6, <1>7

LEMMA BeginBase == ASSUME Base, NEW w \in Workers, Begin(w) PROVE Base'
<1> USE DEF Base
<1>1. ASSUME NEW i \in Intents, InitRead(w, i) PROVE Base'
  BY <1>1 DEF InitRead, Goto, At, TypeOK, CallsOK, SentOK, CallSet, PCs, Ref, Status,
       KnowsIntent, KnowsTx, Paying, Controlled
<1>2. ASSUME NEW i \in Intents, VerifyRead(w, i) PROVE Base'
  <2>1. intent[i].tx \in Intents
    BY <1>2 DEF VerifyRead, TypeOK, Row, Ref
  <2> QED BY <1>2, <2>1 DEF VerifyRead, Goto, At, TypeOK, CallsOK, SentOK, CallSet, PCs, Ref,
       Status, KnowsIntent, KnowsTx, Paying, Controlled
<1>3. ASSUME NEW p \in Intents, NEW s \in Status, Webhook(w, p, s) PROVE Base'
  <2>1. UNCHANGED <<intent, ledger, payment>> /\ payment[p] \in Payment
    BY <1>3 DEF Webhook, TypeOK
  <2>2. PICK r \in Carried(p) :
          IF s = "SUCCESS"
            THEN \E n \in {0, payment[p].net} :
                   Goto(w, [At("confirm.read", r[1], p, n, "NONE") EXCEPT !.named = r[2]])
            ELSE Goto(w, [At("fail.read", r[1], p, 0, s) EXCEPT !.named = r[2]])
    BY <1>3 DEF Webhook
  <2>3. r[1] \in Ref /\ r[2] \in BOOLEAN
    BY DEF Carried, NamedBy, Ref
  <2> DEFINE m == r[1]
             b == r[2]
  <2>4. CASE s = "SUCCESS"
    <3>1. PICK n \in {0, payment[p].net} :
            Goto(w, [At("confirm.read", m, p, n, "NONE") EXCEPT !.named = b])
      BY <2>2, <2>4
    <3>2. payment[p].status = "SUCCESS"
      BY <1>3, <2>4 DEF Webhook, SentOK
    <3> DEFINE x == [pc |-> "confirm.read", intent |-> m, tx |-> p, net |-> n,
                     outcome |-> "NONE", named |-> b]
    <3>3. x \in CallSet
      BY <2>1, <2>3 DEF CallSet, PCs, Ref, Status, Payment
    <3>4. Goto(w, x)
      BY <3>1 DEF At
    <3> QED BY <2>1, <3>2, <3>3, <3>4 DEF Goto, TypeOK, CallsOK, SentOK,
              KnowsIntent, KnowsTx, Paying, Controlled
  <2>5. CASE s # "SUCCESS"
    <3> DEFINE x == [pc |-> "fail.read", intent |-> m, tx |-> p, net |-> 0,
                     outcome |-> s, named |-> b]
    <3>1. Goto(w, x)
      BY <2>2, <2>5 DEF At
    <3>2. x \in CallSet
      BY <2>3 DEF CallSet, PCs, Ref
    <3> QED BY <2>1, <3>1, <3>2 DEF Goto, TypeOK, CallsOK, SentOK,
              KnowsIntent, KnowsTx, Paying, Controlled
  <2> QED BY <2>4, <2>5
<1> QED BY <1>1, <1>2, <1>3 DEF Begin

(* The commit writes the intent with entry k of the ledger, where k is the  *)
(* entry that carries the reference already, or a new one at the end.      *)
Paid(t, k) == [status |-> "SUCCESS", tx |-> t, credited |-> k]

LEMMA CommitEffect ==
  ASSUME Base, NEW w \in Workers, ConfirmCommit(w)
  PROVE  LET c == call[w]
             e == [intent |-> c.intent, tx |-> c.tx, amount |-> c.net]
         IN /\ c.pc = "confirm.commit" /\ UNCHANGED payment /\ Done(w)
            /\ c.intent \in Intents /\ e \in Entry
            /\ \E k \in Nat :
                 /\ intent' = [intent EXCEPT ![c.intent] = Paid(TxAfter(c), k)]
                 /\ ledger' \in Seq(Entry)
                 /\ \/ EntriesOf(c.intent) = {} /\ k = Len(ledger) + 1 /\ ledger' = Append(ledger, e)
                    \/ k \in EntriesOf(c.intent) /\ ledger' = ledger
<1> DEFINE c == call[w]
           e == [intent |-> c.intent, tx |-> c.tx, amount |-> c.net]
<1>1. c.pc = "confirm.commit" /\ UNCHANGED payment /\ Done(w)
  BY DEF ConfirmCommit
<1>2. c.intent \in Intents /\ c.tx \in Intents /\ c.net \in Nat
  BY <1>1 DEF Base, TypeOK, CallsOK, KnowsIntent, KnowsTx, CallSet
<1>3. e \in Entry
  BY <1>2 DEF Entry
<1>4. ledger \in Seq(Entry) /\ Len(ledger) + 1 \in Nat /\ EntriesOf(c.intent) \subseteq Nat
  BY DEF Base, TypeOK, EntriesOf
<1>5. CASE EntriesOf(c.intent) = {}
  <2>1. ledger' = Append(ledger, e) /\ intent' = [intent EXCEPT ![c.intent] = Paid(TxAfter(c), Len(ledger) + 1)]
    BY <1>5 DEF ConfirmCommit, Paid
  <2>2. ledger' \in Seq(Entry)
    <3> HIDE DEF e
    <3> QED BY <1>3, <1>4, <2>1
  <2> QED BY <1>1, <1>2, <1>3, <1>4, <1>5, <2>1, <2>2
<1>6. CASE EntriesOf(c.intent) # {}
  <2>1. PICK k \in EntriesOf(c.intent) : intent' = [intent EXCEPT ![c.intent] = Paid(TxAfter(c), k)]
    BY <1>6 DEF ConfirmCommit, Paid
  <2>2. ledger' = ledger
    BY <1>6 DEF ConfirmCommit
  <2> QED BY <1>1, <1>2, <1>3, <1>4, <2>1, <2>2
<1> QED BY <1>5, <1>6

LEMMA StepBase == ASSUME Base, NEW w \in Workers, Step(w) PROVE Base'
<1> USE DEF Base
<1> DEFINE c == call[w]
<1>1. c \in CallSet
  BY DEF TypeOK
<1>2. CASE InitSend(w)
  <2>1. call[w].pc = "init.send" /\ call[w].intent \in Intents
    BY <1>2 DEF InitSend, CallsOK, KnowsIntent
  <2> DEFINE i == call[w].intent
  <2>2. At("init.wait", i, None, 0, "NONE") \in CallSet
    BY <2>1 DEF At, CallSet, PCs, Ref, Status
  <2>3. CASE payment[i].status # "NONE"
    <3>1. UNCHANGED <<intent, ledger, payment>> /\ Goto(w, At("init.wait", i, None, 0, "NONE"))
      BY <1>2, <2>3 DEF InitSend
    <3> HIDE DEF i
    <3> QED BY <2>1, <2>2, <3>1 DEF i, Goto, At, TypeOK, CallsOK, SentOK,
              KnowsIntent, KnowsTx, Paying, Controlled
  <2>4. CASE payment[i].status = "NONE"
    <3>1. PICK n \in Nets :
            payment' = [payment EXCEPT ![i] = [status |-> "PENDING", sent |-> {}, net |-> n]]
      BY <1>2, <2>4 DEF InitSend
    <3>2. UNCHANGED <<intent, ledger>> /\ Goto(w, At("init.wait", i, None, 0, "NONE"))
      BY <1>2 DEF InitSend
    <3>3. [status |-> "PENDING", sent |-> {}, net |-> n] \in Payment
      BY TopupAssumption DEF Payment, Status
    <3> HIDE DEF i
    <3>4. /\ payment' \in [Intents -> Payment]
          /\ payment'[i].sent = {} /\ payment'[i].net = n
          /\ \A q \in Intents : q # i => payment'[q] = payment[q]
      BY <3>1, <3>3, <2>1 DEF TypeOK, i
    <3>5. TypeOK'
      BY <2>2, <3>2, <3>4 DEF TypeOK, Goto
    <3>6. CallsOK'
      BY <2>1, <2>4, <3>2, <3>4 DEF i, TypeOK, CallsOK, Goto, At, KnowsIntent, KnowsTx, Paying, Controlled
    <3>7. SentOK'
      BY <3>4 DEF SentOK
    <3> QED BY <3>5, <3>6, <3>7
  <2> QED BY <2>3, <2>4
<1>3. CASE InitRefused(w)
  <2>1. call[w].intent \in Ref
    BY <1>1 DEF CallSet
  <2> QED BY <1>3, <2>1 DEF InitRefused, Goto, At, TypeOK, CallsOK, SentOK, CallSet, PCs, Ref,
            Status, Closed, KnowsIntent, KnowsTx, Paying, Controlled
<1>4. CASE InitReply(w)
  <2>1. call[w].intent \in Intents
    BY <1>4 DEF InitReply, CallsOK, KnowsIntent
  <2>2. payment[call[w].intent].status \in Status
    BY <2>1 DEF TypeOK, Payment
  <2>3. At("init.store", c.intent, c.intent, 0, payment[c.intent].status) \in CallSet
    BY <2>1, <2>2 DEF At, CallSet, PCs, Ref
  <2> QED BY <1>4, <2>1, <2>3 DEF InitReply, Goto, At, TypeOK, CallsOK, SentOK,
            KnowsIntent, KnowsTx, Paying, Controlled
<1>5. CASE InitStore(w)
  <2>1. c.intent \in Intents /\ c.tx \in Intents
    BY <1>5 DEF InitStore, CallsOK, KnowsIntent, KnowsTx
  <2>2. intent' \in [Intents -> Row]
    BY <1>5, <2>1 DEF InitStore, TypeOK, Row, Ref
  <2>3. UNCHANGED <<ledger, payment>> /\ \E d \in {"fail.read", "idle"} : \E x \in CallSet :
          x.pc = d /\ call' = [call EXCEPT ![w] = x]
    <3>1. At("fail.read", c.intent, None, 0, c.outcome) \in CallSet
      BY <1>1, <2>1 DEF At, CallSet, PCs, Ref
    <3> QED BY <1>5, <3>1, IdleType DEF InitStore, Goto, Done, At
  <2> QED BY <2>2, <2>3 DEF TypeOK, CallsOK, SentOK, KnowsIntent, KnowsTx, Paying, Controlled
<1>6. CASE VerifyAnswer(w)
  <2>1. c.tx \in Intents /\ c.intent \in Intents
    BY <1>6 DEF VerifyAnswer, CallsOK, KnowsTx, KnowsIntent
  <2>2. payment[c.tx] \in Payment
    BY <2>1 DEF TypeOK
  <2>3. UNCHANGED <<intent, ledger, payment>>
    BY <1>6 DEF VerifyAnswer
  <2>4. CASE payment[c.tx].status = "SUCCESS"
    <3>1. Goto(w, At("confirm.read", c.intent, c.tx, payment[c.tx].net, "NONE"))
      BY <1>6, <2>4 DEF VerifyAnswer, Closed
    <3>2. At("confirm.read", c.intent, c.tx, payment[c.tx].net, "NONE") \in CallSet
      BY <2>1, <2>2 DEF At, CallSet, PCs, Ref, Status, Payment
    <3> QED BY <2>1, <2>3, <2>4, <3>1, <3>2 DEF Goto, At, TypeOK, CallsOK, SentOK,
              KnowsIntent, KnowsTx, Paying, Controlled
  <2>5. CASE payment[c.tx].status \in Closed
    <3>1. Goto(w, At("fail.read", c.intent, None, 0, payment[c.tx].status))
      BY <1>6, <2>5 DEF VerifyAnswer, Closed
    <3>2. At("fail.read", c.intent, None, 0, payment[c.tx].status) \in CallSet
      BY <2>1, <2>2 DEF At, CallSet, PCs, Ref, Payment
    <3> QED BY <2>3, <3>1, <3>2 DEF Goto, At, TypeOK, CallsOK, SentOK,
              KnowsIntent, KnowsTx, Paying, Controlled
  <2>6. CASE payment[c.tx].status \notin Closed \cup {"SUCCESS"}
    <3>1. Done(w)
      BY <1>6, <2>6 DEF VerifyAnswer, Closed
    <3> QED BY <2>3, <3>1, DoneKeepsBase
  <2> QED BY <2>4, <2>5, <2>6
<1>7. CASE FailRead(w)
  <2>1. UNCHANGED <<intent, ledger, payment>>
    BY <1>7 DEF FailRead
  <2>2. ASSUME NEW i \in Target(c), Goto(w, At("fail.write", i, None, 0, c.outcome)) PROVE Base'
    <3>1. i \in Intents
      BY DEF Target
    <3>2. At("fail.write", i, None, 0, c.outcome) \in CallSet
      BY <1>1, <3>1 DEF At, CallSet, PCs, Ref
    <3> HIDE DEF c
    <3> QED BY <2>1, <2>2, <3>1, <3>2 DEF Goto, At, TypeOK, CallsOK, SentOK,
              KnowsIntent, KnowsTx, Paying, Controlled
  <2> QED BY <1>7, <2>1, <2>2, DoneKeepsBase DEF FailRead
<1>8. CASE FailWrite(w)
  <2>1. c.intent \in Intents /\ c.outcome \in Status
    BY <1>1, <1>8 DEF FailWrite, CallsOK, KnowsIntent, CallSet
  <2>2. intent' \in [Intents -> Row]
    BY <1>8, <2>1 DEF FailWrite, TypeOK, Row
  <2> QED BY <1>8, <2>2, IdleType DEF FailWrite, Done, Goto, TypeOK, CallsOK, SentOK,
            KnowsIntent, KnowsTx, Paying, Controlled
<1>9. CASE ConfirmAccept(w)
  <2>1. /\ c.pc = "confirm.read" /\ c.net > 0
        /\ UNCHANGED <<intent, ledger, payment>>
    BY <1>9 DEF ConfirmAccept
  <2>2. PICK i \in Target(c) : Goto(w, [c EXCEPT !.pc = "confirm.check", !.intent = i])
    BY <1>9 DEF ConfirmAccept
  <2>3. i \in Intents
    BY DEF Target
  <2>4. /\ c.tx \in Intents /\ payment[c.tx].status = "SUCCESS"
        /\ c.net \in {0, payment[c.tx].net}
    BY <2>1 DEF CallsOK, KnowsTx, Paying
  <2> DEFINE x == [c EXCEPT !.pc = "confirm.check", !.intent = i]
  <2>5. x \in CallSet /\ x.pc = "confirm.check" /\ x.intent = i /\ x.tx = c.tx /\ x.net = c.net
    BY <1>1, <2>3 DEF CallSet, PCs, Ref
  <2> HIDE DEF x, c
  <2> QED BY <2>1, <2>2, <2>3, <2>4, <2>5 DEF x, Goto, TypeOK, CallsOK, SentOK,
            KnowsIntent, KnowsTx, Paying, Controlled
<1>10. CASE ConfirmRefused(w) \/ ConfirmNothing(w) \/ Abort(w)
  BY <1>10, DoneKeepsBase DEF ConfirmRefused, ConfirmNothing, Abort
<1>11. CASE ConfirmCheck(w)
  <2>1. c.pc = "confirm.check" /\ UNCHANGED <<intent, ledger, payment>>
    BY <1>11 DEF ConfirmCheck
  <2>2. CASE Done(w)
    BY <2>1, <2>2, DoneKeepsBase
  <2>3. CASE Goto(w, [c EXCEPT !.pc = "confirm.commit"])
    <3>1. [c EXCEPT !.pc = "confirm.commit"] \in CallSet
      BY <1>1 DEF CallSet, PCs
    <3> QED BY <1>1, <2>1, <2>3, <3>1 DEF Goto, CallSet, TypeOK, CallsOK, SentOK,
              KnowsIntent, KnowsTx, Paying, Controlled
  <2> QED BY <1>11, <2>2, <2>3 DEF ConfirmCheck
<1>12. CASE ConfirmCommit(w)
  <2>1. /\ c.pc = "confirm.commit" /\ UNCHANGED payment /\ Done(w)
        /\ \E k \in Nat : ledger' \in Seq(Entry) /\ intent' = [intent EXCEPT ![c.intent] = Paid(TxAfter(c), k)]
    BY <1>12, CommitEffect
  <2>2. TxAfter(c) \in Ref
    BY <2>1, <1>1 DEF CallsOK, KnowsTx, KnowsIntent, TxAfter, Ref, TypeOK, Row
  <2>3. \A k \in Nat : Paid(TxAfter(c), k) \in Row
    BY <2>2 DEF Paid, Row, Ref, Status
  <2>4. intent' \in [Intents -> Row]
    BY <2>1, <2>3 DEF TypeOK
  <2> QED BY <2>1, <2>4, IdleType DEF Done, Goto, TypeOK, CallsOK, SentOK,
            KnowsIntent, KnowsTx, Paying, Controlled
<1> QED BY <1>2, <1>3, <1>4, <1>5, <1>6, <1>7, <1>8, <1>9, <1>10, <1>11, <1>12 DEF Step

LEMMA BaseStutter == ASSUME Base, UNCHANGED vars PROVE Base'
  BY DEF Base, TypeOK, CallsOK, SentOK, vars

LEMMA BaseInductive == Base /\ [Next]_vars => Base'
  BY CreateBase, PaymentEndsBase, BeginBase, StepBase, BaseStutter DEF Next

\* Types and what handlers know, in every reachable state of Topup.
THEOREM BaseInvariant == Spec => []Base
  BY InitBase, BaseInductive, PTL DEF Spec

\* The type invariant of Topup holds for any set of intents and of workers.
THEOREM TypeCorrect == Spec => []TypeOK
<1>1. Base => TypeOK
  BY DEF Base
<1> QED BY <1>1, BaseInvariant, PTL

(* Credits.                                                                *)
Credits == CreditedOnce /\ CreditIsPaid

LEMMA InitCredits == Init => Credits
  BY DEF Init, Credits, CreditedOnce, CreditIsPaid

\* Only a commit touches the ledger and the credit a row names.
LEMMA QuietStep ==
  ASSUME Base, [Next]_vars, \A w \in Workers : ~ConfirmCommit(w)
  PROVE  /\ ledger' = ledger
         /\ \A i \in Intents : intent'[i].credited = intent[i].credited
         /\ \A p \in Intents : payment[p].status = "SUCCESS" => payment'[p] = payment[p]
<1> DEFINE Quiet == /\ ledger' = ledger
                    /\ \A i \in Intents : intent'[i].credited = intent[i].credited
                    /\ \A p \in Intents : payment[p].status = "SUCCESS" => payment'[p] = payment[p]
<1>1. CASE UNCHANGED vars
  BY <1>1 DEF vars
<1>2. ASSUME NEW i \in Intents, CreateTopupIntent(i) PROVE Quiet
  BY <1>2 DEF CreateTopupIntent, Base, TypeOK, Row
<1>3. ASSUME NEW i \in Intents, PaymentEnds(i) PROVE Quiet
  BY <1>3 DEF PaymentEnds, Closed, Base, TypeOK, Payment
<1>4. ASSUME NEW w \in Workers, Begin(w) PROVE Quiet
  BY <1>4 DEF Begin, InitRead, VerifyRead, Webhook
<1>5. ASSUME NEW w \in Workers, Step(w) PROVE Quiet
  <2>1. CASE UNCHANGED <<intent, ledger, payment>>
    BY <2>1
  <2>2. CASE InitSend(w)
    BY <2>2 DEF InitSend, Base, TypeOK, Payment
  <2>3. CASE InitStore(w)
    BY <2>3 DEF InitStore, Base, TypeOK, Row
  <2>4. CASE FailWrite(w)
    BY <2>4 DEF FailWrite, Base, TypeOK, Row
  <2> QED BY <1>5, <2>1, <2>2, <2>3, <2>4 DEF Step, InitRefused, InitReply, VerifyAnswer, FailRead,
            ConfirmAccept, ConfirmRefused, ConfirmNothing, ConfirmCheck, Abort
<1> QED BY <1>1, <1>2, <1>3, <1>4, <1>5 DEF Next

LEMMA CreditsInductive == Base /\ Credits /\ [Next]_vars => Credits'
<1> SUFFICES ASSUME Base, Credits, [Next]_vars PROVE Credits'
  OBVIOUS
<1>1. CASE \A w \in Workers : ~ConfirmCommit(w)
  <2>1. ledger \in Seq(Entry)
    BY DEF Base, TypeOK
  <2>2. \A k \in 1..Len(ledger) : ledger[k] \in Entry
    BY <2>1
  <2> QED BY <1>1, <2>2, QuietStep DEF Credits, CreditedOnce, CreditIsPaid, Entry
<1>2. ASSUME NEW w \in Workers, ConfirmCommit(w) PROVE Credits'
  <2> DEFINE c == call[w]
             e == [intent |-> c.intent, tx |-> c.tx, amount |-> c.net]
  <2>1. /\ c.pc = "confirm.commit" /\ c.intent \in Intents /\ e \in Entry
        /\ UNCHANGED payment
    BY <1>2, CommitEffect
  <2>2. PICK k \in Nat :
          /\ intent' = [intent EXCEPT ![c.intent] = Paid(TxAfter(c), k)]
          /\ \/ EntriesOf(c.intent) = {} /\ k = Len(ledger) + 1 /\ ledger' = Append(ledger, e)
             \/ k \in EntriesOf(c.intent) /\ ledger' = ledger
    BY <1>2, CommitEffect
  <2>3. /\ intent'[c.intent].credited = k
        /\ \A i \in Intents : i # c.intent => intent'[i] = intent[i]
    BY <2>1, <2>2 DEF Base, TypeOK, Paid
  <2>4. /\ payment[c.tx].status = "SUCCESS" /\ c.net = payment[c.tx].net /\ c.net > 0
    BY <2>1 DEF Base, TypeOK, CallSet, CallsOK, Paying, Controlled
  <2>5. ledger \in Seq(Entry) /\ Len(ledger) \in Nat /\ \A n \in 1..Len(ledger) : ledger[n].intent \in Intents
    <3>1. ledger \in Seq(Entry)
      BY DEF Base, TypeOK
    <3>2. \A n \in 1..Len(ledger) : ledger[n] \in Entry
      BY <3>1
    <3> QED BY <3>1, <3>2 DEF Entry
  <2>6. CASE EntriesOf(c.intent) = {} /\ k = Len(ledger) + 1 /\ ledger' = Append(ledger, e)
    <3>1. /\ Len(ledger') = Len(ledger) + 1
          /\ ledger'[Len(ledger) + 1] = e
          /\ \A n \in 1..Len(ledger) : ledger'[n] = ledger[n]
      <4> HIDE DEF e
      <4> QED BY <2>1, <2>5, <2>6
    <3>2. \A n \in 1..Len(ledger) : ledger[n].intent # c.intent
      BY <2>6 DEF EntriesOf
    <3>3. CreditedOnce'
      BY <2>3, <2>5, <2>6, <3>1, <3>2 DEF Credits, CreditedOnce
    <3>4. CreditIsPaid'
      BY <2>1, <2>4, <2>5, <3>1 DEF Credits, CreditIsPaid
    <3> QED BY <3>3, <3>4 DEF Credits
  <2>7. CASE k \in EntriesOf(c.intent) /\ ledger' = ledger
    <3>1. k \in 1..Len(ledger) /\ ledger[k].intent = c.intent
      BY <2>7 DEF EntriesOf
    <3>2. intent[c.intent].credited = k
      BY <3>1 DEF Credits, CreditedOnce
    <3> QED BY <2>1, <2>3, <2>5, <2>7, <3>1, <3>2 DEF Credits, CreditedOnce, CreditIsPaid
  <2> QED BY <2>2, <2>6, <2>7
<1> QED BY <1>1, <1>2

LEMMA CreditsInvariant == Spec => [](Base /\ Credits)
<1>1. Init => Base /\ Credits
  BY InitBase, InitCredits
<1>2. Base /\ Credits /\ [Next]_vars => (Base /\ Credits)'
  BY BaseInductive, CreditsInductive
<1> QED BY <1>1, <1>2, PTL DEF Spec

-----------------------------------------------------------------------------
(* A row becomes SUCCESS only with its credit: the handlers that write     *)
(* another status know an outcome of SasPay that is not SUCCESS.           *)
FailingCall(c) == c.pc \in {"fail.read", "fail.write"} => c.outcome # "SUCCESS"

Confirmed ==
  /\ \A w \in Workers : FailingCall(call[w])
  /\ \A i \in Intents : intent[i].status = "SUCCESS" => intent[i].credited # 0

LEMMA FailingKept ==
  ASSUME Base, Confirmed, NEW w \in Workers, NEW c, Goto(w, c), FailingCall(c)
  PROVE  \A v \in Workers : FailingCall(call'[v])
  BY DEF Base, TypeOK, Goto, Confirmed

LEMMA MoveKept ==
  ASSUME Base, Confirmed, NEW w \in Workers, NEW pc, NEW i, NEW t, NEW n, NEW o,
         Goto(w, At(pc, i, t, n, o)), pc \in {"fail.read", "fail.write"} => o # "SUCCESS"
  PROVE  \A v \in Workers : FailingCall(call'[v])
<1>1. FailingCall(At(pc, i, t, n, o))
  BY DEF FailingCall, At
<1> QED BY <1>1, FailingKept

LEMMA ConfirmedInductive == Base /\ Confirmed /\ [Next]_vars => Confirmed'
<1> SUFFICES ASSUME Base, Confirmed, [Next]_vars PROVE Confirmed'
  OBVIOUS
<1> DEFINE Calls == \A v \in Workers : FailingCall(call'[v])
           Rows  == \A i \in Intents : intent'[i].status = "SUCCESS" => intent'[i].credited # 0
<1>1. FailingCall(Idle)
  BY DEF FailingCall, Idle, At
<1>2. ASSUME UNCHANGED intent PROVE Rows
  BY <1>2 DEF Confirmed
<1>3. ASSUME UNCHANGED call PROVE Calls
  BY <1>3 DEF Confirmed
<1>4. ASSUME NEW w \in Workers, Done(w) PROVE Calls
  BY <1>1, <1>4, FailingKept DEF Done
<1>5. ASSUME NEW i \in Intents, CreateTopupIntent(i) PROVE Calls /\ Rows
  BY <1>3, <1>5 DEF CreateTopupIntent, Confirmed, Base, TypeOK, Row
<1>6. ASSUME NEW p \in Intents, PaymentEnds(p) PROVE Calls /\ Rows
  BY <1>2, <1>3, <1>6 DEF PaymentEnds
<1>7. ASSUME NEW w \in Workers, Begin(w) PROVE Calls /\ Rows
  <2>1. UNCHANGED intent
    BY <1>7 DEF Begin, InitRead, VerifyRead, Webhook
  <2>2. ASSUME NEW p \in Intents, NEW s, Webhook(w, p, s) PROVE Calls
    <3>1. PICK x : Goto(w, x) /\ FailingCall(x)
      BY <2>2 DEF Webhook, At, FailingCall
    <3> QED BY <3>1, FailingKept
  <2>3. ASSUME NEW i \in Intents, InitRead(w, i) \/ VerifyRead(w, i) PROVE Calls
    BY <2>3, MoveKept DEF InitRead, VerifyRead
  <2> QED BY <1>2, <1>7, <2>1, <2>2, <2>3 DEF Begin
<1>8. ASSUME NEW w \in Workers, Step(w) PROVE Calls /\ Rows
  <2> DEFINE c == call[w]
  <2>1. CASE InitSend(w) \/ InitRefused(w) \/ InitReply(w) \/ VerifyAnswer(w) \/ ConfirmAccept(w)
             \/ ConfirmRefused(w) \/ ConfirmNothing(w) \/ ConfirmCheck(w) \/ Abort(w)
    <3>1. UNCHANGED intent
      BY <2>1 DEF InitSend, InitRefused, InitReply, VerifyAnswer, ConfirmAccept, ConfirmRefused,
                  ConfirmNothing, ConfirmCheck, Abort
    <3>2. ASSUME ConfirmCheck(w) PROVE Calls
      <4>1. [c EXCEPT !.pc = "confirm.commit"].pc = "confirm.commit"
        BY DEF Base, TypeOK, CallSet
      <4>2. FailingCall([c EXCEPT !.pc = "confirm.commit"])
        BY <4>1 DEF FailingCall
      <4> QED BY <1>4, <3>2, <4>2, FailingKept DEF ConfirmCheck
    <3>3. ASSUME InitSend(w) \/ InitRefused(w) \/ InitReply(w) PROVE Calls
      BY <3>3, MoveKept DEF InitSend, InitRefused, InitReply
    <3>6. ASSUME ConfirmAccept(w) PROVE Calls
      <4>1. PICK i \in Intents : Goto(w, [c EXCEPT !.pc = "confirm.check", !.intent = i])
        BY <3>6 DEF ConfirmAccept, Target
      <4>2. [c EXCEPT !.pc = "confirm.check", !.intent = i].pc = "confirm.check"
        BY DEF Base, TypeOK, CallSet
      <4>3. FailingCall([c EXCEPT !.pc = "confirm.check", !.intent = i])
        BY <4>2 DEF FailingCall
      <4> QED BY <4>1, <4>3, FailingKept
    <3>4. ASSUME VerifyAnswer(w) PROVE Calls
      BY <1>4, <3>4, MoveKept DEF VerifyAnswer, Closed
    <3>5. ASSUME ConfirmRefused(w) \/ ConfirmNothing(w) \/ Abort(w) PROVE Calls
      BY <1>4, <3>5 DEF ConfirmRefused, ConfirmNothing, Abort
    <3> QED BY <1>2, <2>1, <3>1, <3>2, <3>3, <3>4, <3>5, <3>6
  <2>2. CASE InitStore(w)
    <3>1. Rows
      BY <2>2 DEF InitStore, Confirmed, Base, TypeOK, Row
    <3>2. Calls
      BY <1>4, <2>2, MoveKept DEF InitStore, Closed
    <3> QED BY <3>1, <3>2
  <2>3. CASE FailRead(w)
    <3>1. c.outcome # "SUCCESS"
      BY <2>3 DEF FailRead, Confirmed, FailingCall
    <3>2. Calls
      BY <1>4, <2>3, <3>1, MoveKept DEF FailRead
    <3> QED BY <1>2, <2>3, <3>2 DEF FailRead
  <2>4. CASE FailWrite(w)
    <3>1. c.outcome # "SUCCESS"
      BY <2>4 DEF FailWrite, Confirmed, FailingCall
    <3>2. Rows
      BY <2>4, <3>1 DEF FailWrite, Confirmed, Base, TypeOK, Row
    <3> QED BY <1>4, <2>4, <3>2 DEF FailWrite
  <2>5. CASE ConfirmCommit(w)
    <3>1. PICK k \in Nat : /\ intent' = [intent EXCEPT ![c.intent] = Paid(TxAfter(c), k)]
                           /\ k = Len(ledger) + 1 \/ k \in EntriesOf(c.intent)
      BY <2>5, CommitEffect
    <3>2. k # 0
      BY <3>1 DEF EntriesOf, Base, TypeOK
    <3>3. c.intent \in Intents /\ Done(w)
      BY <2>5, CommitEffect
    <3> HIDE DEF c
    <3>4. Rows
      BY <3>1, <3>2, <3>3 DEF Paid, Confirmed, Base, TypeOK
    <3> QED BY <1>4, <3>3, <3>4
  <2> QED BY <1>8, <2>1, <2>2, <2>3, <2>4, <2>5 DEF Step
<1>9. CASE UNCHANGED vars
  BY <1>9, <1>2, <1>3 DEF vars, Confirmed
<1>10. Calls /\ Rows
  BY <1>5, <1>6, <1>7, <1>8, <1>9, <1>2, <1>3 DEF Next, vars
<1> QED BY <1>10 DEF Confirmed, FailingCall

\* A top-up shown as SUCCESS names a credit of its own in the ledger.
THEOREM SuccessHasCredit == Spec => []SuccessIsCredited
<1>1. Init => Confirmed
  BY DEF Init, Confirmed, FailingCall, Idle, At
<1>2. CreditedOnce /\ Confirmed => SuccessIsCredited
  BY DEF CreditedOnce, Confirmed, SuccessIsCredited
<1>3. Credits => CreditedOnce
  BY DEF Credits
<1> QED BY <1>1, <1>2, <1>3, BaseInvariant, CreditsInvariant, ConfirmedInductive, PTL DEF Spec

\* Every intent is credited at most once, whatever races and is retried.
THEOREM AtMostOneCredit == Spec => []CreditedOnce
<1>1. Base /\ Credits => CreditedOnce
  BY DEF Credits
<1> QED BY <1>1, CreditsInvariant, PTL

\* Every credit was paid: SasPay collected the payment, for that net amount.
THEOREM EveryCreditIsPaid == Spec => []CreditIsPaid
<1>1. Base /\ Credits => CreditIsPaid
  BY DEF Credits
<1> QED BY <1>1, CreditsInvariant, PTL

\* No step of any handler rewrites or drops a credit of the ledger.
THEOREM CreditsAreAppendOnly == Spec => LedgerAppendOnly
<1> DEFINE Kept == /\ Len(ledger') \in {Len(ledger), Len(ledger) + 1}
                   /\ \A k \in 1..Len(ledger) : ledger'[k] = ledger[k]
<1>1. Base /\ [Next]_vars => [Kept]_vars
  <2> SUFFICES ASSUME Base, [Next]_vars PROVE Kept
    OBVIOUS
  <2>1. ledger \in Seq(Entry)
    BY DEF Base, TypeOK
  <2>2. CASE \A w \in Workers : ~ConfirmCommit(w)
    BY <2>2, QuietStep
  <2>3. ASSUME NEW w \in Workers, ConfirmCommit(w) PROVE Kept
    <3> DEFINE e == [intent |-> call[w].intent, tx |-> call[w].tx, amount |-> call[w].net]
    <3>1. e \in Entry /\ (ledger' = ledger \/ ledger' = Append(ledger, e))
      BY <2>3, CommitEffect
    <3> HIDE DEF e
    <3> QED BY <2>1, <3>1
  <2> QED BY <2>2, <2>3
<1> QED BY <1>1, BaseInvariant, PTL DEF Spec, LedgerAppendOnly

(* Refinement of PayInContract.                                            *)
LEMMA InitImplements == Init => Contract!Init
  BY DEF Init, Contract!Init

LEMMA StepImplements ==
  ASSUME Base, Credits, [Next]_vars PROVE [Contract!Next]_(Contract!vars)
<1> DEFINE Collected == [p \in Intents |-> IF payment[p].status = "SUCCESS" THEN payment[p].net ELSE 0]
           Same == Collected' = Collected /\ ledger' = ledger
<1>0. Same => UNCHANGED Contract!vars
  BY DEF Contract!vars
<1> USE DEF Base
<1>1. CASE UNCHANGED vars
  BY <1>0, <1>1 DEF vars
<1>2. ASSUME NEW i \in Intents, CreateTopupIntent(i) PROVE Same
  BY <1>2 DEF CreateTopupIntent
<1>3. ASSUME NEW p \in Intents, PaymentEnds(p) PROVE Same \/ Contract!Collect(p)
  <2>1. PICK s \in {"SUCCESS", "FAILED", "CANCELLED"} :
          payment' = [payment EXCEPT ![p].status = s, ![p].sent = @ \cup {s}]
    BY <1>3, TopupAssumption DEF PaymentEnds, Closed
  <2>2. payment[p].status # "SUCCESS" /\ ledger' = ledger
    BY <1>3 DEF PaymentEnds, Closed
  <2>3. /\ payment'[p].status = s /\ payment'[p].net = payment[p].net
        /\ \A q \in Intents : q # p => payment'[q] = payment[q]
    BY <2>1 DEF TypeOK, Payment
  <2>4. Collected' = [Collected EXCEPT ![p] = IF s = "SUCCESS" THEN payment[p].net ELSE 0]
    BY <2>3
  <2>5. Collected[p] = 0 /\ payment[p].net \in Nets \cup {0}
    BY <2>2 DEF SentOK
  <2>6. CASE s = "SUCCESS" /\ payment[p].net # 0
    BY <2>2, <2>4, <2>5, <2>6 DEF Contract!Collect
  <2>7. CASE s # "SUCCESS" \/ payment[p].net = 0
    BY <2>2, <2>4, <2>5, <2>7
  <2> QED BY <2>6, <2>7
<1>4. ASSUME NEW w \in Workers, Begin(w) PROVE Same
  BY <1>4 DEF Begin, InitRead, VerifyRead, Webhook
<1>5. ASSUME NEW w \in Workers, Step(w)
      PROVE  Same \/ \E i, p \in Intents : Contract!Settle(i, p)
  <2>1. CASE UNCHANGED <<ledger, payment>>
    BY <2>1
  <2>2. CASE InitSend(w)
    <3>1. call[w].intent \in Intents
      BY <2>2 DEF InitSend, CallsOK, KnowsIntent
    <3>2. \A q \in Intents : \/ payment'[q] = payment[q]
                             \/ payment[q].status = "NONE" /\ payment'[q].status = "PENDING"
      <4>1. CASE payment[call[w].intent].status = "NONE"
        <5>1. PICK n \in Nets : payment' = [payment EXCEPT
                ![call[w].intent] = [status |-> "PENDING", sent |-> {}, net |-> n]]
          BY <2>2, <4>1 DEF InitSend
        <5> QED BY <3>1, <4>1, <5>1 DEF TypeOK
      <4>2. CASE payment[call[w].intent].status # "NONE"
        BY <2>2, <4>2 DEF InitSend
      <4> QED BY <4>1, <4>2
    <3>3. \A q \in Intents : Collected'[q] = Collected[q]
      BY <3>2
    <3>4. Collected' = Collected
      BY <3>3
    <3> QED BY <2>2, <3>4 DEF InitSend
  <2>3. CASE ConfirmCommit(w)
    <3> DEFINE c == call[w]
               e == [intent |-> c.intent, tx |-> c.tx, amount |-> c.net]
    <3>1. /\ c.pc = "confirm.commit" /\ c.intent \in Intents /\ UNCHANGED payment
          /\ \/ ledger' = ledger
             \/ EntriesOf(c.intent) = {} /\ ledger' = Append(ledger, e)
      BY <2>3, CommitEffect
    <3>2. /\ c.tx \in Intents /\ payment[c.tx].status = "SUCCESS"
          /\ c.net = payment[c.tx].net /\ c.net > 0
      BY <3>1 DEF TypeOK, CallSet, CallsOK, KnowsTx, Paying, Controlled
    <3>3. CASE ledger' = ledger
      BY <3>1, <3>3
    <3>4. CASE EntriesOf(c.intent) = {} /\ ledger' = Append(ledger, e)
      <4>1. \A k \in 1..Len(ledger) : ledger[k].intent # c.intent
        BY <3>4 DEF EntriesOf
      <4>2. Collected[c.tx] = c.net /\ Collected' = Collected
        BY <3>1, <3>2
      <4>3. Contract!Settle(c.intent, c.tx)
        <5> HIDE DEF c, Collected
        <5>1. Collected[c.tx] > 0 /\ ledger' = Append(ledger, [intent |-> c.intent, tx |-> c.tx, amount |-> Collected[c.tx]])
          BY <3>2, <3>4, <4>2
        <5> QED BY <4>1, <4>2, <5>1 DEF Contract!Settle, Collected
      <4> QED BY <3>1, <3>2, <4>3
    <3> QED BY <3>1, <3>3, <3>4
  <2> QED BY <1>5, <2>1, <2>2, <2>3 DEF Step, InitRefused, InitReply, InitStore, VerifyAnswer,
            FailRead, FailWrite, ConfirmAccept, ConfirmRefused, ConfirmNothing, ConfirmCheck, Abort
<1> QED BY <1>0, <1>1, <1>2, <1>3, <1>4, <1>5 DEF Next, Contract!Next

\* Whatever the handlers do, the owner sees the abstract contract: a credit
\* per intent at most, each of a payment that was really collected.
THEOREM TopupImplementsContract == Spec => ImplementsContract
<1>1. Base /\ Credits /\ [Next]_vars => [Contract!Next]_(Contract!vars)
  BY StepImplements
<1> QED BY <1>1, InitImplements, CreditsInvariant, PTL DEF Spec, ImplementsContract, Contract!Spec

-----------------------------------------------------------------------------
(* Where the money of a payment goes.  Whatever a row, a call or a credit  *)
(* says about a payment, it says of an intent the payment belongs to or    *)
(* that an event of the payment named.                                     *)
Home ==
  /\ \A i \in Intents : intent[i].tx # None => i \in NamedBy(intent[i].tx)
  /\ \A w \in Workers : call[w].pc \in KnowsTx =>
       call[w].intent \in {None} \cup NamedBy(call[w].tx)
  /\ \A k \in 1..Len(ledger) : ledger[k].intent \in NamedBy(ledger[k].tx)

(* A call that changes nothing else keeps Home if it is about an intent its *)
(* payment may be for.                                                     *)
LEMMA CallKeepsHome ==
  ASSUME Base, Home, NEW w \in Workers, NEW x, Goto(w, x), UNCHANGED <<intent, ledger>>,
         x.pc \in KnowsTx => x.intent \in {None} \cup NamedBy(x.tx)
  PROVE  Home'
  BY DEF Base, TypeOK, Goto, Home

LEMMA DoneKeepsHome ==
  ASSUME Base, Home, NEW w \in Workers, Done(w), UNCHANGED <<intent, ledger>>
  PROVE  Home'
  BY IdleType, CallKeepsHome DEF Done, KnowsTx

LEMMA BeginHome == ASSUME Base, Home, NEW w \in Workers, Begin(w) PROVE Home'
<1>1. ASSUME NEW i \in Intents, InitRead(w, i) PROVE Home'
  BY <1>1, CallKeepsHome DEF InitRead, At, KnowsTx
<1>2. ASSUME NEW i \in Intents, VerifyRead(w, i) PROVE Home'
  <2>1. i \in NamedBy(intent[i].tx)
    BY <1>2 DEF VerifyRead, Home
  <2> QED BY <1>2, <2>1, CallKeepsHome DEF VerifyRead, At
<1>3. ASSUME NEW p \in Intents, NEW s \in Status, Webhook(w, p, s) PROVE Home'
  <2>1. PICK r \in Carried(p) :
          IF s = "SUCCESS"
            THEN \E n \in {0, payment[p].net} :
                   Goto(w, [At("confirm.read", r[1], p, n, "NONE") EXCEPT !.named = r[2]])
            ELSE Goto(w, [At("fail.read", r[1], p, 0, s) EXCEPT !.named = r[2]])
    BY <1>3 DEF Webhook
  <2>2. r[1] \in {None} \cup NamedBy(p) /\ UNCHANGED <<intent, ledger>>
    BY <1>3 DEF Carried, Webhook
  <2>3. ASSUME NEW pc, NEW n, NEW o, Goto(w, [At(pc, r[1], p, n, o) EXCEPT !.named = r[2]])
        PROVE  Home'
    <3> DEFINE x == [At(pc, r[1], p, n, o) EXCEPT !.named = r[2]]
    <3>1. x.tx = p /\ x.intent = r[1]
      BY DEF At
    <3> HIDE DEF x
    <3> QED BY <2>2, <2>3, <3>1, CallKeepsHome DEF x
  <2> QED BY <2>1, <2>3
<1> QED BY <1>1, <1>2, <1>3 DEF Begin

LEMMA StepHome == ASSUME Base, Home, NEW w \in Workers, Step(w) PROVE Home'
<1> DEFINE c == call[w]
<1>0. /\ c \in CallSet /\ ledger \in Seq(Entry) /\ intent \in [Intents -> Row]
      /\ None \notin Intents
  BY TopupAssumption DEF Base, TypeOK
<1>1. CASE InitSend(w) \/ InitRefused(w)
  BY <1>1, CallKeepsHome DEF InitSend, InitRefused, At, KnowsTx
<1>2. CASE InitReply(w)
  BY <1>2, CallKeepsHome DEF InitReply, At, NamedBy
<1>3. CASE InitStore(w)
  <2>1. c.intent \in Intents /\ c.tx \in Intents /\ c.intent \in NamedBy(c.tx)
    BY <1>0, <1>3 DEF InitStore, Base, CallsOK, KnowsIntent, KnowsTx, Home
  <2>2. /\ intent'[c.intent].tx = c.tx
        /\ \A i \in Intents : i # c.intent => intent'[i] = intent[i]
        /\ UNCHANGED ledger
    BY <1>0, <1>3, <2>1 DEF InitStore, Row
  <2>3. \E x : x.pc \notin KnowsTx /\ call' = [call EXCEPT ![w] = x]
    BY <1>3, IdleType DEF InitStore, Goto, Done, At, KnowsTx
  <2>4. \A i \in Intents : intent'[i].tx # None => i \in NamedBy(intent'[i].tx)
    BY <2>1, <2>2 DEF Home
  <2> HIDE DEF c
  <2> QED BY <2>2, <2>3, <2>4 DEF Home, Base, TypeOK
<1>4. CASE VerifyAnswer(w)
  <2>1. UNCHANGED <<intent, ledger>> /\ c.pc = "verify.ask"
    BY <1>4 DEF VerifyAnswer
  <2>2. c.intent \in {None} \cup NamedBy(c.tx)
    BY <2>1 DEF Home, KnowsTx
  <2>3. CASE Done(w)
    BY <2>1, <2>3, DoneKeepsHome
  <2>4. ASSUME NEW n, Goto(w, At("confirm.read", c.intent, c.tx, n, "NONE")) PROVE Home'
    BY <2>1, <2>2, <2>4, CallKeepsHome DEF At
  <2>5. ASSUME NEW o, Goto(w, At("fail.read", c.intent, None, 0, o)) PROVE Home'
    BY <2>1, <2>5, CallKeepsHome DEF At, KnowsTx
  <2> QED BY <1>4, <2>3, <2>4, <2>5 DEF VerifyAnswer, Closed
<1>5. CASE FailRead(w)
  <2>1. ASSUME NEW i, Goto(w, At("fail.write", i, None, 0, c.outcome)) PROVE Home'
    BY <1>5, <2>1, CallKeepsHome DEF FailRead, At, KnowsTx
  <2> QED BY <1>5, <2>1, DoneKeepsHome DEF FailRead
<1>6. CASE FailWrite(w)
  <2>1. \A i \in Intents : intent'[i].tx = intent[i].tx
    BY <1>0, <1>6 DEF FailWrite, Row
  <2> QED BY <1>6, <2>1, IdleType DEF FailWrite, Done, Goto, Home, KnowsTx, Base, TypeOK
<1>7. CASE ConfirmAccept(w)
  <2>1. PICK i \in Target(c) : Goto(w, [c EXCEPT !.pc = "confirm.check", !.intent = i])
    BY <1>7 DEF ConfirmAccept
  <2>2. c.pc = "confirm.read" /\ UNCHANGED <<intent, ledger>>
    BY <1>7 DEF ConfirmAccept
  <2>3. c.intent \in {None} \cup NamedBy(c.tx) /\ c.tx \in Intents
    BY <2>2 DEF Home, KnowsTx, Base, CallsOK
  <2>4. i \in NamedBy(c.tx)
    BY <1>0, <2>3 DEF Target, Home
  <2> DEFINE x == [c EXCEPT !.pc = "confirm.check", !.intent = i]
  <2>5. x.intent = i /\ x.tx = c.tx
    BY <1>0 DEF CallSet
  <2> HIDE DEF c, x
  <2> QED BY <2>1, <2>2, <2>4, <2>5, CallKeepsHome DEF x
<1>8. CASE ConfirmRefused(w) \/ ConfirmNothing(w) \/ Abort(w)
  BY <1>8, DoneKeepsHome DEF ConfirmRefused, ConfirmNothing, Abort
<1>9. CASE ConfirmCheck(w)
  <2>1. UNCHANGED <<intent, ledger>> /\ c.intent \in {None} \cup NamedBy(c.tx)
    BY <1>9 DEF ConfirmCheck, Home, KnowsTx
  <2> DEFINE x == [c EXCEPT !.pc = "confirm.commit"]
  <2>2. x.intent = c.intent /\ x.tx = c.tx
    BY <1>0 DEF CallSet
  <2>3. Done(w) \/ Goto(w, x)
    BY <1>9 DEF ConfirmCheck
  <2> HIDE DEF c, x
  <2> QED BY <2>1, <2>2, <2>3, DoneKeepsHome, CallKeepsHome
<1>10. CASE ConfirmCommit(w)
  <2> DEFINE e == [intent |-> c.intent, tx |-> c.tx, amount |-> c.net]
  <2>1. /\ c.pc = "confirm.commit" /\ c.intent \in Intents /\ Done(w) /\ e \in Entry
        /\ \E k \in Nat : intent' = [intent EXCEPT ![c.intent] = Paid(TxAfter(c), k)]
        /\ ledger' = ledger \/ ledger' = Append(ledger, e)
    BY <1>10, CommitEffect
  <2>2. c.intent \in NamedBy(c.tx)
    BY <1>0, <2>1 DEF Home, KnowsTx
  <2>3. TxAfter(c) # None => c.intent \in NamedBy(TxAfter(c))
    BY <2>1, <2>2 DEF TxAfter, Home
  <2>4. \A i \in Intents : intent'[i].tx # None => i \in NamedBy(intent'[i].tx)
    <3> HIDE DEF c
    <3> QED BY <1>0, <2>1, <2>3 DEF Home, Paid
  <2>5. \A k \in 1..Len(ledger') : ledger'[k].intent \in NamedBy(ledger'[k].tx)
    <3>1. e.intent \in NamedBy(e.tx)
      BY <2>2
    <3> HIDE DEF e
    <3> QED BY <1>0, <2>1, <3>1 DEF Home
  <2> HIDE DEF c
  <2> QED BY <2>1, <2>4, <2>5, IdleType DEF Done, Goto, Home, KnowsTx, Base, TypeOK
<1> QED BY <1>1, <1>2, <1>3, <1>4, <1>5, <1>6, <1>7, <1>8, <1>9, <1>10 DEF Step

\* Whatever the events of SasPay name, and in whatever order: a credit goes to
\* the intent of its payment or to one an event of the payment named, and a
\* payment whose events name their own intent only is credited once at most.
THEOREM MoneyGoesHome == Spec => []CreditGoesHome
<1>1. Init => Home
  BY IdleType DEF Init, Home, KnowsTx
<1>2. Base /\ Home /\ [Next]_vars => Home'
  <2> SUFFICES ASSUME Base, Home, [Next]_vars PROVE Home'
    OBVIOUS
  <2>1. CASE UNCHANGED vars
    BY <2>1 DEF vars, Home
  <2>2. ASSUME NEW i \in Intents, CreateTopupIntent(i) PROVE Home'
    BY <2>2 DEF CreateTopupIntent, Home, Base, TypeOK, Row
  <2>3. ASSUME NEW i \in Intents, PaymentEnds(i) PROVE Home'
    BY <2>3 DEF PaymentEnds, Home
  <2> QED BY <2>1, <2>2, <2>3, BeginHome, StepHome DEF Next
<1>3. Base /\ Credits /\ Home => CreditGoesHome
  <2> SUFFICES ASSUME Base, Credits, Home PROVE CreditGoesHome
    OBVIOUS
  <2>1. ASSUME NEW j \in 1..Len(ledger), NEW k \in 1..Len(ledger),
               ledger[j].tx = ledger[k].tx, NamedBy(ledger[j].tx) = {ledger[j].tx}
        PROVE  j = k
    <3>1. ledger[j].intent = ledger[k].intent
      BY <2>1 DEF Home
    <3> QED BY <3>1 DEF Credits, CreditedOnce
  <2> QED BY <2>1 DEF CreditGoesHome, Home
<1> QED BY <1>1, <1>2, <1>3, BaseInvariant, CreditsInvariant, PTL DEF Spec

\* Intents, credits and collected money agree, for any intents, handlers, nets
\* and misdirected events.
THEOREM CreditsSound == Spec => []CreditsAreSound
<1>1. CreditedOnce /\ CreditIsPaid /\ SuccessIsCredited => CreditsAreSound
  BY DEF CreditsAreSound
<1> QED BY <1>1, AtMostOneCredit, EveryCreditIsPaid, SuccessHasCredit, PTL
=============================================================================
