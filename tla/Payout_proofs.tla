---------------------------- MODULE Payout_proofs ----------------------------
(***************************************************************************)
(* Proofs about Payout, for any set of requests and of workers.            *)
(***************************************************************************)
EXTENDS Payout, DataTheorems

Settling == {"settle.read", "settle.commit"}
Failing  == {"fail.read", "fail.commit"}

(* A handler that is to debit acts for a payout SasPay has paid.  This is   *)
(* true whatever SasPay answers, as a payout that succeeded never changes. *)
CallsOK ==
  \A w \in Workers :
    LET c == call[w] IN
    /\ c.pc # "idle" => c.request \in Requests
    /\ c.pc \in Settling => payout[c.request] = "SUCCESS"
    /\ c.pc \in Failing => c.outcome \in Closed

Base == TypeOK /\ CallsOK /\ DebitedOncePaid

LEMMA IdleCall == Idle \in CallSet /\ Idle.pc = "idle"
  BY DEF Idle, At, CallSet, PCs, Ref, Status

LEMMA NewCall ==
  ASSUME NEW pc \in PCs, NEW r \in Requests, NEW o \in Status
  PROVE  /\ At(pc, r, o) \in CallSet
         /\ At(pc, r, o).pc = pc /\ At(pc, r, o).request = r /\ At(pc, r, o).outcome = o
  BY DEF At, CallSet, Ref

LEMMA DebitsType == ASSUME TypeOK PROVE \A k \in 1..Len(ledger) : ledger[k] \in Entry /\ ledger[k].request \in Requests
<1>1. \A k \in 1..Len(ledger) : ledger[k] \in Entry
  BY DEF TypeOK
<1> QED BY <1>1 DEF Entry

LEMMA InitBase == Init => Base
<1> SUFFICES ASSUME Init PROVE Base
  OBVIOUS
<1>1. TypeOK
  BY IdleCall DEF Init, TypeOK, Row, Entry, HoldStatus, Status, Ref
<1>2. CallsOK
  BY IdleCall DEF Init, CallsOK, Settling, Failing
<1>3. DebitedOncePaid
  BY DEF Init, DebitedOncePaid
<1> QED BY <1>1, <1>2, <1>3 DEF Base

(* A step that writes no debit keeps Base if the handler it starts or      *)
(* moves knows what CallsOK asks, and no payout is taken back.             *)
LEMMA QuietStep ==
  ASSUME Base, UNCHANGED ledger,
         request' \in [Requests -> Row], hold' \in [Requests -> HoldStatus],
         payout' \in [Requests -> Status],
         \A r \in Requests : payout[r] = "SUCCESS" => payout'[r] = "SUCCESS",
         refused' \subseteq Requests, NEW w \in Workers, NEW c \in CallSet, Goto(w, c) \/ UNCHANGED call,
         c.pc # "idle" => c.request \in Requests,
         c.pc \in Settling => payout'[c.request] = "SUCCESS",
         c.pc \in Failing => c.outcome \in Closed
  PROVE  Base'
<1>1. TypeOK'
  BY DEF Base, TypeOK, Goto
<1>2. CallsOK'
  <2> SUFFICES ASSUME NEW v \in Workers PROVE
        LET d == call'[v] IN
        /\ d.pc # "idle" => d.request \in Requests
        /\ d.pc \in Settling => payout'[d.request] = "SUCCESS"
        /\ d.pc \in Failing => d.outcome \in Closed
    BY DEF CallsOK
  <2>1. CASE v = w /\ Goto(w, c)
    BY <2>1 DEF Base, TypeOK, Goto
  <2>2. CASE v # w \/ UNCHANGED call
    <3>1. call'[v] = call[v]
      BY <2>2 DEF Base, TypeOK, Goto
    <3> QED BY <3>1 DEF Base, CallsOK, Settling
  <2> QED BY <2>1, <2>2
<1>3. DebitedOncePaid'
  <2>1. \A k \in 1..Len(ledger) : ledger[k].request \in Requests
    BY DebitsType DEF Base
  <2> QED BY <2>1 DEF Base, DebitedOncePaid
<1> QED BY <1>1, <1>2, <1>3 DEF Base

LEMMA ServerBase ==
  ASSUME Base, NEW r \in Requests, CreateWithdrawalRequest(r) \/ PayoutEnds(r)
  PROVE  Base'
<1>1. CASE CreateWithdrawalRequest(r)
  BY <1>1 DEF CreateWithdrawalRequest, Base, TypeOK, CallsOK, DebitedOncePaid, Row, Status, HoldStatus
<1>2. CASE PayoutEnds(r)
  <2>1. PICK s \in {"SUCCESS"} \cup Closed : payout' = [payout EXCEPT ![r] = s]
    BY <1>2 DEF PayoutEnds
  <2>2. /\ payout' \in [Requests -> Status]
        /\ \A q \in Requests : payout[q] = "SUCCESS" => payout'[q] = "SUCCESS"
    BY <1>2, <2>1 DEF PayoutEnds, Base, TypeOK, Status
  <2>3. TypeOK'
    BY <1>2, <2>2 DEF PayoutEnds, Base, TypeOK
  <2>4. CallsOK'
    BY <1>2, <2>2 DEF PayoutEnds, Base, CallsOK, Settling
  <2>5. DebitedOncePaid'
    <3>1. \A k \in 1..Len(ledger) : ledger[k].request \in Requests
      BY DebitsType DEF Base
    <3> QED BY <1>2, <2>2, <3>1 DEF PayoutEnds, Base, DebitedOncePaid
  <2> QED BY <2>3, <2>4, <2>5 DEF Base
<1> QED BY <1>1, <1>2

LEMMA BeginBase == ASSUME Base, NEW w \in Workers, Begin(w) PROVE Base'
<1> USE DEF Base
<1>1. PICK r \in Requests : InitRead(w, r) \/ VerifyRead(w, r) \/ Webhook(w, r)
  BY DEF Begin
<1>2. UNCHANGED <<request, hold, ledger, payout, refused>>
  BY <1>1 DEF InitRead, VerifyRead, Webhook
<1>3. ASSUME NEW pc \in {"init.send", "verify.ask"}, Goto(w, At(pc, r, "NONE")) PROVE Base'
  <2>1. pc \in PCs /\ pc \notin Settling \cup Failing /\ "NONE" \in Status
    BY DEF PCs, Settling, Failing, Status
  <2> QED BY <1>2, <1>3, <2>1, NewCall, QuietStep DEF TypeOK
<1>4. CASE Webhook(w, r)
  <2>1. CASE payout[r] = "SUCCESS"
    <3>1. Goto(w, At("settle.read", r, "NONE"))
      BY <1>4, <2>1 DEF Webhook, Settle
    <3>2. "settle.read" \in PCs \ Failing /\ "NONE" \in Status
      BY DEF PCs, Failing, Status
    <3> QED BY <1>2, <2>1, <3>1, <3>2, NewCall, QuietStep DEF TypeOK
  <2>2. CASE payout[r] \in Closed
    <3>1. Goto(w, At("fail.read", r, payout[r]))
      BY <1>4, <2>2 DEF Webhook, Settle, Closed
    <3>2. "fail.read" \in PCs \ Settling /\ payout[r] \in Status
      BY <2>2 DEF PCs, Settling, Status
    <3> QED BY <1>2, <2>2, <3>1, <3>2, NewCall, QuietStep DEF TypeOK
  <2> QED BY <1>4, <2>1, <2>2 DEF Webhook
<1> QED BY <1>1, <1>3, <1>4 DEF InitRead, VerifyRead

(* The end of a handler keeps Base, whatever it changed but the ledger.    *)
LEMMA DoneBase ==
  ASSUME Base, NEW w \in Workers, Done(w), UNCHANGED <<ledger, payout, refused>>,
         request' \in [Requests -> Row], hold' \in [Requests -> HoldStatus]
  PROVE  Base'
  BY IdleCall, QuietStep DEF Done, Base, TypeOK, Settling, Failing

(* A handler that moves on to do something else than settle.               *)
LEMMA MoveBase ==
  ASSUME Base, NEW w \in Workers, NEW r \in Requests, NEW pc \in PCs \ Settling, NEW o \in Status,
         Goto(w, At(pc, r, o)), pc \in Failing => o \in Closed, UNCHANGED <<request, hold, ledger>>,
         payout' \in [Requests -> Status], refused' \subseteq Requests,
         \A q \in Requests : payout[q] = "SUCCESS" => payout'[q] = "SUCCESS"
  PROVE  Base'
<1>1. request' \in [Requests -> Row] /\ hold' \in [Requests -> HoldStatus]
  BY DEF Base, TypeOK
<1>2. /\ At(pc, r, o) \in CallSet /\ At(pc, r, o).request = r
      /\ At(pc, r, o).pc = pc /\ At(pc, r, o).outcome = o
  BY NewCall
<1> QED BY <1>1, <1>2, QuietStep

LEMMA StepBase == ASSUME Base, NEW w \in Workers, Step(w) PROVE Base'
<1> DEFINE c == call[w]
           r == c.request
<1> USE DEF Base
<1>1. c \in CallSet /\ (c.pc # "idle" => r \in Requests)
  BY DEF TypeOK, CallsOK
<1>2. CASE InitSend(w)
  <2>1. r \in Requests /\ "init.wait" \in PCs \ (Settling \cup Failing) /\ "NONE" \in Status
    BY <1>1, <1>2 DEF InitSend, PCs, Settling, Failing, Status
  <2>2. /\ payout' \in [Requests -> Status] /\ refused' \subseteq Requests
        /\ \A q \in Requests : payout[q] = "SUCCESS" => payout'[q] = "SUCCESS"
    BY <1>2, <2>1 DEF InitSend, TypeOK, Status
  <2> QED BY <1>2, <2>1, <2>2, MoveBase DEF InitSend
<1>3. CASE InitRefused(w)
  <2>1. r \in Requests /\ "fail.read" \in PCs \ Settling /\ "FAILED" \in Status \cap Closed
    BY <1>1, <1>3 DEF InitRefused, PCs, Settling, Status, Closed
  <2>2. /\ payout' \in [Requests -> Status] /\ refused' \subseteq Requests
        /\ \A q \in Requests : payout[q] = "SUCCESS" => payout'[q] = "SUCCESS"
    BY <1>3, <2>1 DEF InitRefused, TypeOK
  <2> QED BY <1>3, <2>1, <2>2, MoveBase DEF InitRefused
<1>4. CASE InitReply(w)
  <2>1. r \in Requests /\ "init.store" \in PCs \ (Settling \cup Failing) /\ "NONE" \in Status
    BY <1>1, <1>4 DEF InitReply, PCs, Settling, Failing, Status
  <2> QED BY <1>4, <2>1, MoveBase DEF InitReply, TypeOK
<1>5. CASE InitStore(w)
  <2>1. r \in Requests
    BY <1>1, <1>5 DEF InitStore
  <2>2. request' \in [Requests -> Row]
    BY <1>5, <2>1 DEF InitStore, TypeOK, Row, Ref
  <2> QED BY <1>5, <2>2, DoneBase DEF InitStore, TypeOK
<1>6. CASE VerifyAnswer(w)
  <2>1. r \in Requests /\ UNCHANGED <<request, hold, ledger, payout, refused>>
    BY <1>1, <1>6 DEF VerifyAnswer
  <2>2. CASE payout[r] = "SUCCESS"
    <3>1. Goto(w, At("settle.read", r, "NONE"))
      BY <1>6, <2>2 DEF VerifyAnswer, Settle
    <3>2. "settle.read" \in PCs \ Failing /\ "NONE" \in Status
      BY DEF PCs, Failing, Status
    <3> QED BY <2>1, <2>2, <3>1, <3>2, NewCall, QuietStep DEF TypeOK
  <2>3. CASE payout[r] \in Closed
    <3>1. Goto(w, At("fail.read", r, payout[r]))
      BY <1>6, <2>3 DEF VerifyAnswer, Settle, Closed
    <3>2. "fail.read" \in PCs \ Settling /\ payout[r] \in Status
      BY <2>3 DEF PCs, Settling, Status
    <3> QED BY <2>1, <2>3, <3>1, <3>2, MoveBase DEF TypeOK
  <2>4. CASE payout[r] \notin Closed \cup {"SUCCESS"}
    BY <1>6, <2>1, <2>4, DoneBase DEF VerifyAnswer, TypeOK
  <2> QED BY <2>2, <2>3, <2>4
<1>7. CASE SettleRead(w)
  <2>1. r \in Requests /\ payout[r] = "SUCCESS" /\ UNCHANGED <<request, hold, ledger, payout, refused>>
    BY <1>1, <1>7 DEF SettleRead, CallsOK, Settling
  <2>2. "settle.commit" \in PCs \ Failing /\ "NONE" \in Status
    BY DEF PCs, Failing, Status
  <2>3. At("settle.commit", r, "NONE") \in CallSet /\ Goto(w, At("settle.commit", r, "NONE"))
    BY <1>7, <2>1, <2>2, NewCall DEF SettleRead
  <2>4. /\ At("settle.commit", r, "NONE").pc = "settle.commit"
        /\ At("settle.commit", r, "NONE").request = r
    BY DEF At
  <2>5. /\ request' \in [Requests -> Row] /\ hold' \in [Requests -> HoldStatus]
        /\ payout' \in [Requests -> Status] /\ refused' \subseteq Requests
    BY <2>1 DEF TypeOK
  <2> QED BY <2>1, <2>2, <2>3, <2>4, <2>5, QuietStep
<1>8. CASE SettleCommit(w)
  <2> DEFINE e == [request |-> r, amount |-> Amount[r]]
  <2>1. r \in Requests /\ payout[r] = "SUCCESS" /\ UNCHANGED <<payout, refused>>
    BY <1>1, <1>8 DEF SettleCommit, CallsOK, Settling
  <2>2. e \in Entry
    BY <2>1, PayoutAssumption DEF Entry
  <2>3. ledger \in Seq(Entry)
    BY DEF TypeOK
  <2>4. ledger' \in Seq(Entry)
    <3>1. ledger' = ledger \/ ledger' = Append(ledger, e)
      BY <1>8 DEF SettleCommit
    <3> HIDE DEF e
    <3> QED BY <2>2, <2>3, <3>1
  <2>5. TypeOK'
    <3>1. request' \in [Requests -> Row] /\ hold' \in [Requests -> HoldStatus]
      BY <1>8, <2>1 DEF SettleCommit, TypeOK, Row, Ref, Status, HoldStatus
    <3>2. call' \in [Workers -> CallSet]
      BY <1>8, IdleCall DEF SettleCommit, TypeOK, Done, Goto
    <3> QED BY <2>1, <2>4, <3>1, <3>2 DEF TypeOK
  <2>6. CallsOK'
    BY <1>8, <2>1, IdleCall DEF SettleCommit, TypeOK, CallsOK, Done, Goto, Settling, Failing
  <2>7. DebitedOncePaid'
    <3>1. CASE r \in Debited
      BY <1>8, <2>1, <3>1, DebitsType DEF SettleCommit, DebitedOncePaid
    <3>2. CASE r \notin Debited
      <4>1. \A k \in 1..Len(ledger) : ledger[k].request # r
        BY <3>2 DEF Debited
      <4>2. ledger' = Append(ledger, e)
        BY <1>8, <3>2 DEF SettleCommit
      <4>3. /\ Len(ledger) \in Nat /\ Len(ledger') = Len(ledger) + 1
            /\ ledger'[Len(ledger) + 1] = e
            /\ \A k \in 1..Len(ledger) : ledger'[k] = ledger[k]
        <5> HIDE DEF e
        <5> QED BY <2>2, <2>3, <4>2
      <4>4. e.request = r /\ e.amount = Amount[r]
        OBVIOUS
      <4> HIDE DEF e, r, c
      <4> QED BY <2>1, <4>1, <4>3, <4>4, DebitsType DEF DebitedOncePaid
    <3> QED BY <3>1, <3>2
  <2> QED BY <2>5, <2>6, <2>7
<1>9. CASE FailRead(w)
  <2>1. r \in Requests /\ c.outcome \in Closed /\ UNCHANGED <<request, hold, ledger, payout, refused>>
    BY <1>1, <1>9 DEF FailRead, CallsOK, Failing
  <2>2. CASE Done(w)
    BY <2>1, <2>2, DoneBase DEF TypeOK
  <2>3. CASE Goto(w, [c EXCEPT !.pc = "fail.commit"])
    <3>1. [c EXCEPT !.pc = "fail.commit"] = At("fail.commit", r, c.outcome)
      BY <1>1 DEF At, CallSet
    <3>2. "fail.commit" \in PCs \ Settling /\ c.outcome \in Status
      BY <2>1 DEF PCs, Settling, Status
    <3> QED BY <2>1, <2>3, <3>1, <3>2, MoveBase DEF TypeOK
  <2> QED BY <1>9, <2>2, <2>3 DEF FailRead
<1>10. CASE FailCommit(w)
  <2>1. r \in Requests /\ c.outcome \in Closed
    BY <1>1, <1>10 DEF FailCommit, CallsOK, Failing
  <2>2. request' \in [Requests -> Row] /\ hold' \in [Requests -> HoldStatus]
    BY <1>10, <2>1 DEF FailCommit, TypeOK, Row, Status, HoldStatus
  <2> QED BY <1>10, <2>2, DoneBase DEF FailCommit
<1>11. CASE SettleNothing(w) \/ Abort(w)
  BY <1>11, DoneBase DEF SettleNothing, Abort, TypeOK
<1> QED BY <1>2, <1>3, <1>4, <1>5, <1>6, <1>7, <1>8, <1>9, <1>10, <1>11 DEF Step

LEMMA BaseInductive == Base /\ [Next]_vars => Base'
<1> SUFFICES ASSUME Base, [Next]_vars PROVE Base'
  OBVIOUS
<1>1. CASE UNCHANGED vars
  BY <1>1 DEF vars, Base, TypeOK, CallsOK, DebitedOncePaid
<1> QED BY <1>1, ServerBase, BeginBase, StepBase DEF Next

LEMMA BaseInvariant == Spec => []Base
  BY InitBase, BaseInductive, PTL DEF Spec

\* Every reachable state is well typed.
THEOREM TypeCorrect == Spec => []TypeOK
<1>1. Base => TypeOK
  BY DEF Base
<1> QED BY <1>1, BaseInvariant, PTL

\* A withdrawal is debited at most once, for the net amount asked, and only if
\* SasPay has paid it out, whatever SasPay answers to retries.
THEOREM OneDebitOfPaid == Spec => []DebitedOncePaid
<1>1. Base => DebitedOncePaid
  BY DEF Base
<1> QED BY <1>1, BaseInvariant, PTL

-----------------------------------------------------------------------------
(* SasPay may pay a request and refuse another call with its key, so that  *)
(* success and failure meet on one request, in either order.  What stays   *)
(* true of every request, and what a handler that settles it knows.        *)
Opened  == {"PENDING", "SUCCESS"} \cup Closed            \* accepted by SasPay
Lost(r) == payout[r] \in Closed \/ r \in refused          \* SasPay has said no

\* What FundsMatchStatus says of one request.
Match(r) ==
  LET s == request[r].status IN
  /\ hold[r] = "NONE" <=> s = "NONE"
  /\ hold[r] = "ACTIVE" <=> s = "PENDING"
  /\ hold[r] = "CONSUMED" \/ s = "SUCCESS" => r \in Debited
  /\ r \in Debited => \/ hold[r] = "CONSUMED" /\ s = "SUCCESS"
                      \/ r \in refused /\ s \notin {"NONE", "PENDING"}

RowOK(r) ==
  /\ request[r].tx # None => request[r].tx = r /\ payout[r] \in Opened
  /\ request[r].status \in Closed => Lost(r)
  /\ hold[r] = "RELEASED" => Lost(r)
  /\ payout[r] # "NONE" => request[r].status # "NONE"
  /\ Match(r)

Knows(w) ==
  LET c == call[w] IN
  /\ c.pc # "idle" => request[c.request].status # "NONE"
  /\ c.pc \in {"init.wait", "init.store"} => payout[c.request] \in Opened
  /\ c.pc \in Failing => Lost(c.request)

Agree == (\A r \in Requests : RowOK(r)) /\ (\A w \in Workers : Knows(w))

LEMMA AgreeMatches == ASSUME Agree PROVE FundsMatchStatus
  BY DEF Agree, RowOK, Match, FundsMatchStatus

LEMMA InitAgree == Init => Agree
<1> SUFFICES ASSUME Init PROVE Agree
  OBVIOUS
<1>1. Debited = {}
  BY DEF Init, Debited
<1> QED BY <1>1, IdleCall DEF Init, Agree, RowOK, Match, Knows, Closed, Failing

(* A step keeps Agree if it keeps every request in order, takes back        *)
(* nothing that SasPay said, and starts or moves a handler that knows.     *)
LEMMA KeepAgree ==
  ASSUME Base, Agree, \A r \in Requests : RowOK(r)',
         \A r \in Requests : /\ request[r].status # "NONE" => request'[r].status # "NONE"
                             /\ payout[r] \in Opened => payout'[r] \in Opened
                             /\ Lost(r) => Lost(r)',
         NEW w, NEW c \in CallSet, Goto(w, c) \/ UNCHANGED call,
         c.pc # "idle" => c.request \in Requests /\ request'[c.request].status # "NONE",
         c.pc \in {"init.wait", "init.store"} => payout'[c.request] \in Opened,
         c.pc \in Failing => Lost(c.request)'
  PROVE  Agree'
<1>1. ASSUME NEW v \in Workers PROVE Knows(v)'
  <2>1. CASE v = w /\ Goto(w, c)
    <3>1. call'[v] = c
      BY <2>1 DEF Base, TypeOK, Goto
    <3> QED BY <3>1 DEF Knows, Lost
  <2>2. CASE v # w \/ UNCHANGED call
    <3>1. call'[v] = call[v] /\ Knows(v)
      BY <2>2 DEF Base, TypeOK, Goto, Agree
    <3>2. call[v].pc # "idle" => call[v].request \in Requests
      BY DEF Base, CallsOK
    <3> QED BY <3>1, <3>2 DEF Knows, Failing, Lost
  <2> QED BY <2>1, <2>2
<1> QED BY <1>1 DEF Agree

(* Steps that write no row, hold or debit.                                 *)
LEMMA QuietAgree ==
  ASSUME Base, Agree, UNCHANGED <<request, hold, ledger>>, refused \subseteq refused',
         \A r \in Requests : /\ payout[r] \in Opened => payout'[r] \in Opened
                             /\ payout[r] \in Closed => payout'[r] = payout[r]
                             /\ payout'[r] # "NONE" => request[r].status # "NONE",
         NEW w, NEW c \in CallSet, Goto(w, c) \/ UNCHANGED call,
         c.pc # "idle" => c.request \in Requests /\ request[c.request].status # "NONE",
         c.pc \in {"init.wait", "init.store"} => payout'[c.request] \in Opened,
         c.pc \in Failing => Lost(c.request)'
  PROVE  Agree'
<1>1. Debited' = Debited
  BY DEF Debited
<1>2. ASSUME NEW r \in Requests PROVE RowOK(r)' /\ (Lost(r) => Lost(r)')
  <2>1. RowOK(r)
    BY DEF Agree
  <2>2. Lost(r) => Lost(r)'
    BY DEF Lost
  <2>3. Match(r)'
    BY <1>1, <2>1 DEF RowOK, Match
  <2> QED BY <2>1, <2>2, <2>3 DEF RowOK
<1> QED BY <1>2, KeepAgree

LEMMA ServerAgree ==
  ASSUME Base, Agree, NEW r \in Requests, CreateWithdrawalRequest(r) \/ PayoutEnds(r)
  PROVE  Agree'
<1>1. CASE CreateWithdrawalRequest(r)
  <2>1. /\ request'[r].status = "PENDING" /\ request'[r].tx = request[r].tx /\ hold'[r] = "ACTIVE"
        /\ \A q \in Requests : q # r => request'[q] = request[q] /\ hold'[q] = hold[q]
        /\ UNCHANGED <<ledger, payout, refused, call>> /\ request[r].status = "NONE"
    BY <1>1 DEF CreateWithdrawalRequest, Base, TypeOK, Row
  <2>2. Debited' = Debited
    BY <2>1 DEF Debited
  <2>3. ASSUME NEW q \in Requests PROVE RowOK(q)' /\ (Lost(q) => Lost(q)')
    <3>1. RowOK(q) /\ (Lost(q)' <=> Lost(q))
      BY <2>1 DEF Agree, Lost
    <3>2. CASE q # r
      BY <2>1, <2>2, <3>1, <3>2 DEF RowOK, Match
    <3>3. CASE q = r
      <4>1. r \notin Debited
        BY <2>1, <3>1, <3>3 DEF RowOK, Match
      <4> QED BY <2>1, <2>2, <3>1, <3>3, <4>1 DEF RowOK, Match, Closed
    <3> QED BY <3>2, <3>3
  <2>4. /\ \A q \in Requests : request[q].status # "NONE" => request'[q].status # "NONE"
        /\ \A q \in Requests : payout[q] \in Opened => payout'[q] \in Opened
    BY <2>1
  <2> QED BY <2>1, <2>3, <2>4, IdleCall, KeepAgree DEF Failing
<1>2. CASE PayoutEnds(r)
  <2>1. PICK s \in {"SUCCESS"} \cup Closed : payout' = [payout EXCEPT ![r] = s]
    BY <1>2 DEF PayoutEnds
  <2>2. /\ payout[r] = "PENDING" /\ payout'[r] = s
        /\ \A q \in Requests : q # r => payout'[q] = payout[q]
        /\ UNCHANGED <<request, hold, ledger, refused, call>>
    BY <1>2, <2>1 DEF PayoutEnds, Base, TypeOK
  <2>3. \A q \in Requests : /\ payout[q] \in Opened => payout'[q] \in Opened
                            /\ payout[q] \in Closed => payout'[q] = payout[q]
                            /\ payout'[q] # "NONE" => request[q].status # "NONE"
    BY <2>2 DEF Opened, Closed, Agree, RowOK
  <2> QED BY <2>2, <2>3, IdleCall, QuietAgree DEF Failing
<1> QED BY <1>1, <1>2

(* A handler that only moves.                                              *)
LEMMA MoveAgree ==
  ASSUME Base, Agree, UNCHANGED <<request, hold, ledger, payout, refused>>,
         NEW w \in Workers, NEW r \in Requests, request[r].status # "NONE",
         NEW pc \in PCs, NEW o \in Status, Goto(w, At(pc, r, o)),
         pc \in {"init.wait", "init.store"} => payout[r] \in Opened,
         pc \in Failing => Lost(r)
  PROVE  Agree'
<1>1. \A q \in Requests : payout[q] # "NONE" => request[q].status # "NONE"
  BY DEF Agree, RowOK
<1>2. Lost(r)' <=> Lost(r)
  BY DEF Lost
<1> QED BY <1>1, <1>2, NewCall, QuietAgree

(* The answer about a payout starts the settlement it calls for.           *)
LEMMA SettleAgree ==
  ASSUME Base, Agree, NEW w \in Workers, NEW r \in Requests, request[r].status # "NONE",
         payout[r] \in {"SUCCESS"} \cup Closed, Settle(w, r, payout[r]),
         UNCHANGED <<request, hold, ledger, payout, refused>>
  PROVE  Agree'
<1>1. CASE payout[r] = "SUCCESS"
  <2>1. Goto(w, At("settle.read", r, "NONE"))
    BY <1>1 DEF Settle
  <2>2. "settle.read" \in PCs \ ({"init.wait", "init.store"} \cup Failing) /\ "NONE" \in Status
    BY DEF PCs, Failing, Status
  <2> QED BY <2>1, <2>2, MoveAgree
<1>2. CASE payout[r] \in Closed
  <2>1. Goto(w, At("fail.read", r, payout[r]))
    BY <1>2 DEF Settle, Closed
  <2>2. /\ "fail.read" \in PCs \ {"init.wait", "init.store"}
        /\ payout[r] \in Status /\ Lost(r)
    BY <1>2 DEF PCs, Status, Lost
  <2> QED BY <2>1, <2>2, MoveAgree
<1> QED BY <1>1, <1>2

LEMMA BeginAgree == ASSUME Base, Agree, NEW w \in Workers, Begin(w) PROVE Agree'
<1>1. PICK r \in Requests : InitRead(w, r) \/ VerifyRead(w, r) \/ Webhook(w, r)
  BY DEF Begin
<1>2. UNCHANGED <<request, hold, ledger, payout, refused>>
  BY <1>1 DEF InitRead, VerifyRead, Webhook
<1>3. request[r].status # "NONE"
  BY <1>1 DEF InitRead, VerifyRead, Webhook, Closed, Agree, RowOK
<1>4. ASSUME NEW pc \in {"init.send", "verify.ask"}, Goto(w, At(pc, r, "NONE")) PROVE Agree'
  <2>1. pc \in PCs \ ({"init.wait", "init.store"} \cup Failing) /\ "NONE" \in Status
    BY DEF PCs, Failing, Status
  <2> QED BY <1>2, <1>3, <1>4, <2>1, MoveAgree
<1>5. CASE Webhook(w, r)
  BY <1>2, <1>3, <1>5, SettleAgree DEF Webhook
<1> QED BY <1>1, <1>4, <1>5 DEF InitRead, VerifyRead

LEMMA IdleAgree ==
  ASSUME Base, Agree, NEW w \in Workers, Done(w),
         UNCHANGED <<request, hold, ledger, payout, refused>>
  PROVE  Agree'
<1>1. \A q \in Requests : payout[q] # "NONE" => request[q].status # "NONE"
  BY DEF Agree, RowOK
<1> QED BY <1>1, IdleCall, QuietAgree DEF Done, Failing

(* The end of a handler that has written request r.                        *)
LEMMA EndAgree ==
  ASSUME Base, Agree, NEW w \in Workers, Done(w), UNCHANGED <<payout, refused>>, NEW r \in Requests,
         \A q \in Requests \ {r} : /\ request'[q] = request[q] /\ hold'[q] = hold[q]
                                   /\ q \in Debited' <=> q \in Debited,
         RowOK(r)', request'[r].status # "NONE"
  PROVE  Agree'
<1>1. ASSUME NEW q \in Requests
      PROVE  /\ RowOK(q)' /\ (Lost(q) => Lost(q)')
             /\ request[q].status # "NONE" => request'[q].status # "NONE"
  <2>1. RowOK(q) /\ (Lost(q)' <=> Lost(q))
    BY DEF Agree, Lost
  <2> QED BY <2>1 DEF RowOK, Match
<1> QED BY <1>1, IdleCall, KeepAgree DEF Done, Failing

LEMMA DebitAdded ==
  ASSUME Base, NEW w \in Workers, SettleCommit(w)
  PROVE  Debited' = Debited \cup {call[w].request}
<1> DEFINE r == call[w].request
           e == [request |-> r, amount |-> Amount[r]]
<1>1. r \in Requests
  BY DEF SettleCommit, Base, CallsOK
<1>2. CASE r \in Debited
  BY <1>2 DEF SettleCommit, Debited
<1>3. CASE r \notin Debited
  <2>1. ledger' = Append(ledger, e)
    BY <1>3 DEF SettleCommit
  <2>2. ledger \in Seq(Entry) /\ e \in Entry
    BY <1>1, PayoutAssumption DEF Base, TypeOK, Entry
  <2>3. /\ Len(ledger) \in Nat /\ Len(ledger') = Len(ledger) + 1
        /\ ledger'[Len(ledger) + 1] = e
        /\ \A k \in 1..Len(ledger) : ledger'[k] = ledger[k]
    <3> HIDE DEF e
    <3> QED BY <2>1, <2>2
  <2>4. e.request = r
    OBVIOUS
  <2> HIDE DEF e, r
  <2>5. Debited' = Debited \cup {r}
    BY <2>3, <2>4 DEF Debited
  <2> QED BY <2>5 DEF r
<1> QED BY <1>2, <1>3

LEMMA SettleCommitAgree == ASSUME Base, Agree, NEW w \in Workers, SettleCommit(w) PROVE Agree'
<1>0. PICK r \in Requests : call[w].request = r
  BY DEF SettleCommit, Base, CallsOK
<1>1. /\ r \in Requests /\ payout[r] = "SUCCESS" /\ request[r].status # "NONE"
      /\ Done(w) /\ UNCHANGED <<payout, refused>>
  BY <1>0 DEF SettleCommit, Base, CallsOK, Settling, Agree, Knows
<1>2. RowOK(r) /\ request[r].status \in Status /\ hold[r] \in HoldStatus
  BY <1>1 DEF Agree, Base, TypeOK, Row
<1>3. /\ request'[r].status = "SUCCESS" /\ request'[r].tx = r
      /\ hold'[r] = IF hold[r] = "ACTIVE" THEN "CONSUMED" ELSE hold[r]
      /\ \A q \in Requests \ {r} : request'[q] = request[q] /\ hold'[q] = hold[q]
  BY <1>0, <1>1 DEF SettleCommit, Base, TypeOK
<1>4. Debited' = Debited \cup {r}
  BY <1>0, DebitAdded
<1>5. payout[r] \in Opened /\ payout[r] \notin Closed
  BY <1>1 DEF Opened, Closed
<1>6. hold'[r] = "CONSUMED" \/ r \in refused
  <2>1. CASE request[r].status \in Closed
    BY <1>2, <1>5, <2>1 DEF RowOK, Lost
  <2>2. CASE hold[r] = "RELEASED"
    BY <1>2, <1>5, <2>2 DEF RowOK, Lost
  <2>3. CASE hold[r] \in {"ACTIVE", "CONSUMED"}
    BY <1>3, <2>3
  <2>4. hold[r] # "NONE"
    BY <1>1, <1>2 DEF RowOK, Match
  <2> QED BY <1>2, <2>2, <2>3, <2>4 DEF HoldStatus
<1>7. RowOK(r)'
  <2>1. hold'[r] \notin {"NONE", "ACTIVE"}
    BY <1>1, <1>2, <1>3 DEF RowOK, Match
  <2>2. Match(r)'
    BY <1>1, <1>3, <1>4, <1>6, <2>1 DEF Match
  <2>3. hold'[r] = "RELEASED" => Lost(r)'
    BY <1>1, <1>6 DEF Lost
  <2> QED BY <1>1, <1>3, <1>5, <2>2, <2>3 DEF RowOK, Closed
<1>8. \A q \in Requests \ {r} : q \in Debited' <=> q \in Debited
  BY <1>4
<1> QED BY <1>1, <1>3, <1>7, <1>8, EndAgree

LEMMA FailCommitAgree == ASSUME Base, Agree, NEW w \in Workers, FailCommit(w) PROVE Agree'
<1> DEFINE o == call[w].outcome
<1>0. PICK r \in Requests : call[w].request = r
  BY DEF FailCommit, Base, CallsOK
<1>1. /\ r \in Requests /\ Lost(r) /\ o \in Closed
      /\ request[r].status # "NONE" /\ Done(w) /\ UNCHANGED <<ledger, payout, refused>>
  BY <1>0 DEF FailCommit, Base, CallsOK, Failing, Agree, Knows
<1>2. RowOK(r) /\ hold[r] \in HoldStatus
  BY <1>1 DEF Agree, Base, TypeOK
<1>3. /\ request'[r].status = o /\ request'[r].tx = request[r].tx
      /\ hold'[r] = IF hold[r] = "ACTIVE" THEN "RELEASED" ELSE hold[r]
      /\ \A q \in Requests \ {r} : request'[q] = request[q] /\ hold'[q] = hold[q]
  BY <1>0, <1>1 DEF FailCommit, Base, TypeOK, Row
<1>4. Debited' = Debited /\ (Lost(r)' <=> Lost(r))
  BY <1>1 DEF Debited, Lost
<1>5. r \in Debited => r \in refused
  <2>1. r \in Debited => payout[r] = "SUCCESS"
    BY DebitsType DEF Base, DebitedOncePaid, Debited
  <2> QED BY <1>1, <2>1 DEF Lost, Closed
<1>6. RowOK(r)'
  <2>1. hold'[r] \notin {"NONE", "ACTIVE"}
    BY <1>1, <1>2, <1>3 DEF RowOK, Match
  <2>2. o \notin {"NONE", "PENDING", "SUCCESS"}
    BY <1>1 DEF Closed
  <2>3. hold'[r] = "CONSUMED" => r \in Debited
    BY <1>2, <1>3 DEF RowOK, Match
  <2>4. Match(r)'
    BY <1>1, <1>3, <1>4, <1>5, <2>1, <2>2, <2>3 DEF Match
  <2> QED BY <1>1, <1>2, <1>3, <1>4, <2>2, <2>4 DEF RowOK
<1>7. request'[r].status # "NONE"
  BY <1>1, <1>3 DEF Closed
<1> QED BY <1>1, <1>3, <1>4, <1>6, <1>7, EndAgree

LEMMA StepAgree ==
  ASSUME Base, Agree, NEW w \in Workers, Step(w)
  PROVE  Agree'
<1> DEFINE c == call[w]
           r == c.request
<1>1. /\ c \in CallSet /\ Knows(w)
      /\ c.pc # "idle" => r \in Requests /\ request[r].status # "NONE"
  BY DEF Base, TypeOK, CallsOK, Agree, Knows
<1>2. CASE InitSend(w)
  <2>1. r \in Requests /\ "init.wait" \in PCs \ Failing /\ "NONE" \in Status
    BY <1>1, <1>2 DEF InitSend, PCs, Failing, Status
  <2>2. /\ \A q \in Requests : q # r => payout'[q] = payout[q]
        /\ payout'[r] = IF payout[r] = "NONE" THEN "PENDING" ELSE payout[r]
        /\ payout[r] \in Status
        /\ UNCHANGED <<request, hold, ledger, refused>> /\ Goto(w, At("init.wait", r, "NONE"))
    BY <1>2, <2>1 DEF InitSend, Base, TypeOK
  <2>3. payout'[r] \in Opened
    BY <2>2 DEF Opened, Status
  <2>4. \A q \in Requests : /\ payout[q] \in Opened => payout'[q] \in Opened
                            /\ payout[q] \in Closed => payout'[q] = payout[q]
                            /\ payout'[q] # "NONE" => request[q].status # "NONE"
    BY <1>1, <1>2, <2>2, <2>3 DEF Closed, Agree, RowOK, InitSend
  <2> QED BY <1>1, <1>2, <2>1, <2>2, <2>3, <2>4, NewCall, QuietAgree DEF InitSend
<1>3. CASE InitRefused(w)
  <2>1. PICK q \in Requests : q = r
    BY <1>1, <1>3 DEF InitRefused
  <2>2. "fail.read" \in PCs \ {"init.wait", "init.store"} /\ "FAILED" \in Status
    BY DEF PCs, Status, Closed
  <2>3. /\ refused \subseteq refused' /\ q \in refused' /\ request[q].status # "NONE"
        /\ UNCHANGED <<request, hold, ledger, payout>> /\ Goto(w, At("fail.read", q, "FAILED"))
    BY <1>1, <1>3, <2>1 DEF InitRefused
  <2>4. \A x \in Requests : payout'[x] # "NONE" => request[x].status # "NONE"
    BY <2>3 DEF Agree, RowOK
  <2>5. Lost(q)'
    BY <2>3 DEF Lost
  <2> QED BY <2>2, <2>3, <2>4, <2>5, NewCall, QuietAgree
<1>4. CASE InitReply(w)
  <2>1. "init.store" \in PCs \ Failing /\ "NONE" \in Status /\ payout[r] \in Opened
    BY <1>1, <1>4 DEF InitReply, PCs, Failing, Status, Knows
  <2> QED BY <1>1, <1>4, <2>1, MoveAgree DEF InitReply
<1>5. CASE InitStore(w)
  <2>0. PICK q \in Requests : q = r
    BY <1>1, <1>5 DEF InitStore
  <2>1. payout[q] \in Opened /\ request[q].status # "NONE" /\ RowOK(q)
    BY <1>1, <1>5, <2>0 DEF InitStore, Knows, Agree
  <2>2. /\ request'[q].status = request[q].status /\ request'[q].tx = q
        /\ \A x \in Requests \ {q} : request'[x] = request[x]
        /\ Done(w) /\ UNCHANGED <<hold, ledger, payout, refused>>
    BY <1>5, <2>0 DEF InitStore, Base, TypeOK, Row
  <2>3. Debited' = Debited /\ (Lost(q)' <=> Lost(q))
    BY <2>2 DEF Debited, Lost
  <2>4. RowOK(q)'
    BY <2>1, <2>2, <2>3 DEF RowOK, Match
  <2> QED BY <2>1, <2>2, <2>3, <2>4, EndAgree
<1>6. CASE VerifyAnswer(w)
  <2>1. r \in Requests /\ request[r].status # "NONE" /\ UNCHANGED <<request, hold, ledger, payout, refused>>
    BY <1>1, <1>6 DEF VerifyAnswer
  <2>2. (Settle(w, r, payout[r]) /\ payout[r] \in {"SUCCESS"} \cup Closed) \/ Done(w)
    BY <1>6 DEF VerifyAnswer
  <2> QED BY <2>1, <2>2, SettleAgree, IdleAgree
<1>7. CASE SettleRead(w)
  <2>1. "settle.commit" \in PCs \ (Failing \cup {"init.wait", "init.store"}) /\ "NONE" \in Status
    BY DEF PCs, Failing, Status
  <2> QED BY <1>1, <1>7, <2>1, MoveAgree DEF SettleRead
<1>8. CASE FailRead(w)
  <2>1. /\ c.outcome \in Status /\ Lost(r) /\ r \in Requests
        /\ UNCHANGED <<request, hold, ledger, payout, refused>>
    BY <1>1, <1>8 DEF FailRead, Failing, Base, CallsOK, Status, Knows
  <2>2. ASSUME Goto(w, [c EXCEPT !.pc = "fail.commit"]) PROVE Agree'
    <3>1. [c EXCEPT !.pc = "fail.commit"] = At("fail.commit", r, c.outcome)
      BY <1>1 DEF At, CallSet
    <3>2. "fail.commit" \in PCs \ {"init.wait", "init.store"}
      BY DEF PCs
    <3>3. request[r].status # "NONE"
      BY <1>1, <1>8 DEF FailRead
    <3> QED BY <2>1, <2>2, <3>1, <3>2, <3>3, MoveAgree
  <2> QED BY <1>8, <2>1, <2>2, IdleAgree DEF FailRead
<1>9. CASE SettleNothing(w) \/ Abort(w)
  BY <1>9, IdleAgree DEF SettleNothing, Abort
<1> QED BY <1>2, <1>3, <1>4, <1>5, <1>6, <1>7, <1>8, <1>9, SettleCommitAgree, FailCommitAgree DEF Step

LEMMA StutterAgree == ASSUME Agree, UNCHANGED vars PROVE Agree'
<1>1. Debited' = Debited
  BY DEF vars, Debited
<1> QED BY <1>1 DEF vars, Agree, RowOK, Match, Knows, Lost

LEMMA AgreeInvariant == Spec => [](Base /\ Agree)
<1>1. Init => Base /\ Agree
  BY InitBase, InitAgree
<1>2. Base /\ Agree /\ [Next]_vars => (Base /\ Agree)'
  <2> SUFFICES ASSUME Base, Agree, [Next]_vars PROVE Base' /\ Agree'
    OBVIOUS
  <2>1. CASE UNCHANGED vars
    BY <2>1, BaseInductive, StutterAgree
  <2>2. ASSUME NEW r \in Requests, CreateWithdrawalRequest(r) \/ PayoutEnds(r) PROVE Agree'
    BY <2>2, ServerAgree
  <2>3. ASSUME NEW w \in Workers, Begin(w) \/ Step(w) PROVE Agree'
    BY <2>3, BeginAgree, StepAgree
  <2> QED BY <2>1, <2>2, <2>3, BaseInductive DEF Next
<1> QED BY <1>1, <1>2, PTL DEF Spec

\* Status, hold and debit of a withdrawal agree whatever races and is repeated:
\* they differ only for a request that SasPay has both paid and refused.
THEOREM FundsAgree == Spec => []FundsMatchStatus
<1>1. Base /\ Agree => FundsMatchStatus
  BY AgreeMatches
<1> QED BY <1>1, AgreeInvariant, PTL

\* Money that SasPay has paid out stays frozen in the wallet or debited from
\* it, unless SasPay refused another call with the key of the request.
THEOREM PaidOutIsCovered == Spec => []MoneyOutIsCovered
<1>1. Base /\ Agree => MoneyOutIsCovered
  <2> SUFFICES ASSUME Base, Agree, NEW r \in Requests, payout[r] = "SUCCESS", r \notin refused
               PROVE  hold[r] \in {"ACTIVE", "CONSUMED"}
    BY DEF MoneyOutIsCovered
  <2>1. RowOK(r) /\ ~Lost(r) /\ hold[r] \in HoldStatus
    BY DEF Agree, Lost, Closed, Base, TypeOK
  <2>2. hold[r] # "NONE" /\ hold[r] # "RELEASED"
    BY <2>1 DEF RowOK, Match
  <2> QED BY <2>1, <2>2 DEF HoldStatus
<1> QED BY <1>1, AgreeInvariant, PTL

\* Debits and payouts answer for each other, whatever SasPay answers: no debit
\* without a payout, and paid money is returned only after a refusal.
THEOREM PayoutsAnswered == Spec => []PayoutsMatchDebits
<1>1. DebitedOncePaid /\ MoneyOutIsCovered => PayoutsMatchDebits
  BY DEF PayoutsMatchDebits
<1> QED BY <1>1, OneDebitOfPaid, PaidOutIsCovered, PTL

-----------------------------------------------------------------------------
(* Refinement of Wallet.                                                   *)

LEMMA InitWallet == Init => Funds!Init
  BY DEF Init, Funds!Init, Held, Returned, Debited

LEMMA StepWallet ==
  ASSUME Base, Agree, [Next]_vars
  PROVE  [Funds!Next]_(Funds!vars)
<1> DEFINE Kept == Held' = Held /\ Returned' = Returned /\ Debited' = Debited
           Same == Kept /\ refused' = refused
<1>1. Same => UNCHANGED Funds!vars
  BY DEF Funds!vars
<1>2. ASSUME UNCHANGED <<hold, ledger>> PROVE Kept
  BY <1>2 DEF Held, Returned, Debited
<1>3. ASSUME UNCHANGED vars PROVE Same
  BY <1>2, <1>3 DEF vars
<1>4. ASSUME NEW r \in Requests, CreateWithdrawalRequest(r) PROVE Funds!Reserve(r)
  <2>1. request[r].status = "NONE" /\ RowOK(r)
    BY <1>4 DEF CreateWithdrawalRequest, Agree
  <2>2. r \notin Held \cup Returned \cup Debited
    BY <2>1 DEF RowOK, Match, Held, Returned
  <2>3. Held' = Held \cup {r} /\ Returned' = Returned /\ Debited' = Debited
    BY <1>4, <2>2 DEF CreateWithdrawalRequest, Held, Returned, Debited, Base, TypeOK
  <2>4. Amount[r] <= Opening - Total(Debited) - Total(Held) /\ refused' = refused
    BY <1>4 DEF CreateWithdrawalRequest, Available
  <2> QED BY <2>2, <2>3, <2>4 DEF Funds!Reserve, Funds!Available
<1>5. ASSUME NEW r \in Requests, PayoutEnds(r) PROVE Same
  BY <1>2, <1>5 DEF PayoutEnds
<1>6. ASSUME NEW w \in Workers, Begin(w) PROVE Same
  BY <1>2, <1>6 DEF Begin, InitRead, VerifyRead, Webhook
<1>7. ASSUME NEW w \in Workers, SettleCommit(w)
      PROVE  Same \/ \E r \in Requests : Funds!Spend(r) \/ Funds!SpendLate(r)
  <2> DEFINE r == call[w].request
  <2>1. /\ r \in Requests /\ payout[r] = "SUCCESS" /\ request[r].status # "NONE"
        /\ refused' = refused
    BY <1>7 DEF SettleCommit, Base, CallsOK, Settling, Agree, Knows
  <2>2. RowOK(r) /\ hold[r] \in HoldStatus
    BY <2>1 DEF Agree, Base, TypeOK
  <2>3. Debited' = Debited \cup {r}
    BY <1>7, DebitAdded
  <2>4. CASE hold[r] = "ACTIVE"
    <3>1. r \notin Debited
      BY <2>2, <2>4 DEF RowOK, Match
    <3>2. Held' = Held \ {r} /\ Returned' = Returned /\ r \in Held
      BY <1>7, <2>1, <2>4 DEF SettleCommit, Held, Returned, Base, TypeOK
    <3> HIDE DEF r
    <3> QED BY <2>1, <2>3, <3>1, <3>2 DEF Funds!Spend
  <2>5. CASE hold[r] # "ACTIVE"
    <3>1. Held' = Held /\ Returned' = Returned
      BY <1>7, <2>1, <2>5 DEF SettleCommit, Held, Returned, Base, TypeOK
    <3>2. CASE r \in Debited
      BY <2>1, <2>3, <3>1, <3>2
    <3>3. CASE r \notin Debited
      <4>1. hold[r] = "RELEASED"
        BY <2>1, <2>2, <2>5, <3>3 DEF RowOK, Match, HoldStatus
      <4>2. r \in Returned /\ r \in refused
        BY <2>1, <2>2, <4>1 DEF RowOK, Lost, Closed, Returned
      <4> HIDE DEF r
      <4> QED BY <2>1, <2>3, <3>1, <3>3, <4>2 DEF Funds!SpendLate
    <3> QED BY <3>2, <3>3
  <2> QED BY <2>4, <2>5
<1>8. ASSUME NEW w \in Workers, FailCommit(w)
      PROVE  Same \/ \E r \in Requests : Funds!Release(r)
  <2> DEFINE r == call[w].request
  <2>1. r \in Requests /\ Debited' = Debited /\ refused' = refused
    BY <1>8 DEF FailCommit, Base, CallsOK, Failing, Debited
  <2>2. CASE hold[r] = "ACTIVE"
    <3>1. r \in Held /\ Held' = Held \ {r} /\ Returned' = Returned \cup {r}
      BY <1>8, <2>1, <2>2 DEF FailCommit, Held, Returned, Base, TypeOK
    <3> HIDE DEF r
    <3> QED BY <2>1, <3>1 DEF Funds!Release
  <2>3. CASE hold[r] # "ACTIVE"
    BY <1>2, <1>8, <2>1, <2>3 DEF FailCommit, Base, TypeOK
  <2> QED BY <2>2, <2>3
<1>9. ASSUME NEW w \in Workers, InitRefused(w)
      PROVE  \E r \in Requests : Funds!Dispute(r)
  <2>1. call[w].request \in Requests /\ refused' = refused \cup {call[w].request} /\ Kept
    BY <1>2, <1>9 DEF InitRefused, Base, CallsOK
  <2> QED BY <2>1 DEF Funds!Dispute
<1>10. ASSUME NEW w \in Workers, Step(w), ~SettleCommit(w), ~FailCommit(w), ~InitRefused(w)
       PROVE  Same
  BY <1>2, <1>10 DEF Step, InitSend, InitReply, InitStore, VerifyAnswer,
       SettleRead, SettleNothing, FailRead, Abort
<1> HIDE DEF Same
<1>11. ASSUME NEW r \in Requests, \/ Funds!Reserve(r) \/ Funds!Spend(r) \/ Funds!Release(r)
                                  \/ Funds!Dispute(r) \/ Funds!SpendLate(r)
       PROVE  Funds!Next
  BY <1>11 DEF Funds!Next
<1>12. ASSUME NEW w \in Workers, Begin(w) \/ Step(w) PROVE Same \/ Funds!Next
  BY <1>6, <1>7, <1>8, <1>9, <1>10, <1>11, <1>12
<1>13. ASSUME NEW r \in Requests, CreateWithdrawalRequest(r) \/ PayoutEnds(r)
       PROVE  Same \/ Funds!Next
  BY <1>4, <1>5, <1>11, <1>13
<1>14. ASSUME Next PROVE Same \/ Funds!Next
  BY <1>12, <1>13, <1>14 DEF Next
<1>15. Same \/ Funds!Next
  BY <1>3, <1>14
<1>16. (UNCHANGED Funds!vars) \/ Funds!Next
  BY <1>1, <1>15
<1> QED BY <1>16

\* The handlers implement the wallet: what is reserved was available, is spent
\* once or given back, and nothing is spent that was not reserved; what was
\* given back is spent only if SasPay has refused a call for it and paid it.
THEOREM PayoutImplementsWallet == Spec => ImplementsWallet
<1>1. Base /\ Agree /\ [Next]_vars => [Funds!Next]_(Funds!vars)
  BY StepWallet
<1> QED BY <1>1, InitWallet, AgreeInvariant, PTL DEF Spec, ImplementsWallet, Funds!Spec

-----------------------------------------------------------------------------
(* What the wallet promises, its implementation inherits.                  *)

\* Reservations R, refunds B and expenses S are finite, R apart from the
\* others, and the wallet holds R and what of S was not given back.
Covered(R, B, S) ==
  /\ R \subseteq Requests /\ IsFiniteSet(R)
  /\ S \subseteq Requests /\ IsFiniteSet(S)
  /\ R \cap S = {} /\ R \cap B = {}
  /\ Total(S) + Total(R) <= Opening + Total(S \cap B)

LEMMA TotalNat ==
  ASSUME NEW S \in SUBSET Requests, IsFiniteSet(S)
  PROVE  Total(S) \in Nat
  BY SumNat, PayoutAssumption DEF Total

LEMMA TotalMoves ==
  ASSUME NEW S \in SUBSET Requests, IsFiniteSet(S), NEW r \in Requests
  PROVE  /\ IsFiniteSet(S \cup {r}) /\ IsFiniteSet(S \ {r})
         /\ r \notin S => Total(S \cup {r}) = Amount[r] + Total(S)
         /\ r \in S => Total(S) = Amount[r] + Total(S \ {r})
<1>1. IsFiniteSet(S \cup {r}) /\ IsFiniteSet(S \ {r})
  BY FS_AddElement, FS_RemoveElement
<1>2. \A x \in S \cup {r} : Amount[x] \in Nat
  BY PayoutAssumption
<1> QED BY <1>1, <1>2, SumAdd, SumRemove DEF Total

LEMMA WalletStep ==
  ASSUME Covered(Held, Returned, Debited), [Funds!Next]_(Funds!vars)
  PROVE  Covered(Held, Returned, Debited)'
<1> DEFINE R == Held  B == Returned  S == Debited  L == S \cap B
<1>1. /\ Total(R) \in Nat /\ Total(S) \in Nat /\ Opening \in Nat
      /\ L \in SUBSET Requests /\ IsFiniteSet(L) /\ Total(L) \in Nat
  <2>1. L \in SUBSET Requests /\ IsFiniteSet(L)
    BY FS_Intersection DEF Covered
  <2> QED BY <2>1, TotalNat, PayoutAssumption DEF Covered
<1>2. CASE UNCHANGED Funds!vars
  BY <1>2 DEF Funds!vars, Covered
<1>3. ASSUME NEW r \in Requests, Funds!Reserve(r) PROVE Covered(R', B', S')
  <2>1. /\ r \notin R \cup B \cup S /\ R' = R \cup {r} /\ S' = S /\ B' = B
        /\ Amount[r] <= Opening - Total(S) - Total(R)
    BY <1>3 DEF Funds!Reserve, Funds!Available
  <2>2. IsFiniteSet(R \cup {r}) /\ Total(R \cup {r}) = Amount[r] + Total(R)
    BY <2>1, TotalMoves DEF Covered
  <2>3. Amount[r] \in Nat
    BY PayoutAssumption
  <2>4. Total(S) + Total(R \cup {r}) <= Opening + Total(L)
    BY <1>1, <2>1, <2>2, <2>3
  <2>5. (R \cup {r}) \cap S = {} /\ (R \cup {r}) \cap B = {}
    BY <2>1 DEF Covered
  <2> QED BY <2>1, <2>2, <2>4, <2>5 DEF Covered
<1>4. ASSUME NEW r \in Requests, Funds!Spend(r) PROVE Covered(R', B', S')
  <2>1. r \in R /\ r \notin S /\ r \notin B /\ R' = R \ {r} /\ S' = S \cup {r} /\ B' = B
    BY <1>4 DEF Funds!Spend, Covered
  <2>2. /\ IsFiniteSet(R \ {r}) /\ Total(R) = Amount[r] + Total(R \ {r})
        /\ IsFiniteSet(S \cup {r}) /\ Total(S \cup {r}) = Amount[r] + Total(S)
    BY <2>1, TotalMoves DEF Covered
  <2>3. Amount[r] \in Nat /\ Total(R \ {r}) \in Nat
    BY <2>2, TotalNat, PayoutAssumption DEF Covered
  <2>4. Total(S \cup {r}) + Total(R \ {r}) = Total(S) + Total(R)
    BY <1>1, <2>2, <2>3
  <2>5. (S \cup {r}) \cap B = L
    BY <2>1
  <2>6. Total(S \cup {r}) + Total(R \ {r}) <= Opening + Total((S \cup {r}) \cap B)
    BY <2>4, <2>5 DEF Covered
  <2>7. /\ R \ {r} \subseteq Requests /\ S \cup {r} \subseteq Requests
        /\ (R \ {r}) \cap (S \cup {r}) = {} /\ (R \ {r}) \cap B = {}
    BY <2>1 DEF Covered
  <2> QED BY <2>1, <2>2, <2>6, <2>7 DEF Covered
<1>5. ASSUME NEW r \in Requests, Funds!Release(r) PROVE Covered(R', B', S')
  <2>1. r \in R /\ r \notin S /\ R' = R \ {r} /\ S' = S /\ B' = B \cup {r}
    BY <1>5 DEF Funds!Release, Covered
  <2>2. IsFiniteSet(R \ {r}) /\ Total(R) = Amount[r] + Total(R \ {r})
    BY <2>1, TotalMoves DEF Covered
  <2>3. Amount[r] \in Nat /\ Total(R \ {r}) \in Nat
    BY <2>2, TotalNat, PayoutAssumption DEF Covered
  <2>4. S \cap (B \cup {r}) = L
    BY <2>1
  <2>5. Total(S) + Total(R \ {r}) <= Opening + Total(L)
    BY <1>1, <2>2, <2>3 DEF Covered
  <2>6. Total(S) + Total(R \ {r}) <= Opening + Total(S \cap (B \cup {r}))
    BY <2>4, <2>5
  <2>7. R \ {r} \subseteq Requests /\ (R \ {r}) \cap S = {} /\ (R \ {r}) \cap (B \cup {r}) = {}
    BY <2>1 DEF Covered
  <2> QED BY <2>1, <2>2, <2>6, <2>7 DEF Covered
<1>6. ASSUME NEW r \in Requests, Funds!SpendLate(r) PROVE Covered(R', B', S')
  <2>1. r \in B /\ r \notin S /\ r \notin R /\ R' = R /\ S' = S \cup {r} /\ B' = B
    BY <1>6 DEF Funds!SpendLate, Covered
  <2>2. IsFiniteSet(S \cup {r}) /\ Total(S \cup {r}) = Amount[r] + Total(S)
    BY <2>1, TotalMoves DEF Covered
  <2>3. Total(L \cup {r}) = Amount[r] + Total(L)
    BY <1>1, <2>1, TotalMoves
  <2>4. (S \cup {r}) \cap B = L \cup {r} /\ Amount[r] \in Nat
    BY <2>1, PayoutAssumption
  <2>5. Total(S \cup {r}) + Total(R) <= Opening + Total(L \cup {r})
    BY <1>1, <2>2, <2>3, <2>4 DEF Covered
  <2>6. Total(S \cup {r}) + Total(R) <= Opening + Total((S \cup {r}) \cap B)
    BY <2>4, <2>5
  <2>7. S \cup {r} \subseteq Requests /\ R \cap (S \cup {r}) = {}
    BY <2>1 DEF Covered
  <2> QED BY <2>1, <2>2, <2>6, <2>7 DEF Covered
<1>7. ASSUME NEW r \in Requests, Funds!Dispute(r) PROVE Covered(R', B', S')
  BY <1>7 DEF Funds!Dispute, Covered
<1>8. Covered(R', B', S') => Covered(Held, Returned, Debited)'
  BY DEF Covered, Total
<1> QED BY <1>2, <1>3, <1>4, <1>5, <1>6, <1>7, <1>8 DEF Funds!Next

\* The abstract wallet is never overdrawn.
LEMMA WalletNeverOverdrawn == Funds!Spec => []Funds!NeverOverdrawn
<1>1. Funds!Init => Covered(Held, Returned, Debited)
  <2> SUFFICES ASSUME Funds!Init PROVE Covered(Held, Returned, Debited)
    OBVIOUS
  <2>1. Held = {} /\ Returned = {} /\ Debited = {}
    BY DEF Funds!Init
  <2>2. Total({}) = 0 /\ IsFiniteSet({})
    BY SumOfEmpty, FS_EmptySet DEF Total
  <2> QED BY <2>1, <2>2, PayoutAssumption DEF Covered
<1>2. Covered(Held, Returned, Debited) => Funds!NeverOverdrawn
  <2> SUFFICES ASSUME Covered(Held, Returned, Debited) PROVE Funds!NeverOverdrawn
    OBVIOUS
  <2>1. Debited \cap Returned \in SUBSET Requests /\ IsFiniteSet(Debited \cap Returned)
    BY FS_Intersection DEF Covered
  <2>2. Total(Held) \in Nat /\ Total(Debited) \in Nat /\ Total(Debited \cap Returned) \in Nat
    BY <2>1, TotalNat DEF Covered
  <2> QED BY <2>2, PayoutAssumption DEF Covered, Funds!NeverOverdrawn, Funds!Available
<1> QED BY <1>1, <1>2, WalletStep, PTL DEF Funds!Spec

\* Nor is the wallet of the client, by whatever withdrawals are created, settled
\* and released together, but for debits of holds that were given back because
\* SasPay refused a call of a withdrawal that it paid nevertheless.
THEOREM PayoutNeverOverdrawn == Spec => []NeverOverdrawn
<1>1. Funds!NeverOverdrawn => NeverOverdrawn
  BY DEF Funds!NeverOverdrawn, Funds!Available, NeverOverdrawn, Available
<1> QED BY <1>1, PayoutImplementsWallet, WalletNeverOverdrawn, PTL DEF ImplementsWallet
=============================================================================
