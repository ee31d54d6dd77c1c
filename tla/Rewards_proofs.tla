-------------------------- MODULE Rewards_proofs --------------------------
(***************************************************************************)
(* Theorems about Rewards, for any missions, commissions, tiers and number *)
(* of concurrent requests.                                                 *)
(***************************************************************************)
EXTENDS Rewards, DataTheorems

-----------------------------------------------------------------------------
(* The operators.                                                          *)

\* The highest threshold reached exists, so TierFor returns it.
LEMMA TierForReached ==
  ASSUME NEW x \in Nat
  PROVE  TierFor(x) \in Tiers \cup {0}
<1> DEFINE Below == {t \in Tiers \cup {0} : t <= x}
           Dist  == {x - t : t \in Below}
<1>1. Tiers \subseteq Nat
  BY RewardsAssumption
<1>2. 0 \in Below /\ Below \subseteq Nat
  <2>1. 0 \in Below
    OBVIOUS
  <2>2. \A t \in Below : t \in Nat
    BY <1>1
  <2> QED BY <2>1, <2>2
<1>3. Dist \subseteq Nat /\ Dist # {}
  BY <1>2
<1>4. \E d \in Dist : \A e \in Dist : ~ (<<e, d>> \in OpToRel(<, Nat))
  <2> HIDE DEF Dist
  <2> QED BY <1>3, NatLessThanWellFounded, WFMin
<1>5. PICK d \in Dist : \A e \in Dist : ~ (<<e, d>> \in OpToRel(<, Nat))
  BY <1>4
<1>6. \A e \in Dist : d <= e
  <2> SUFFICES ASSUME NEW e \in Dist, ~ (d <= e) PROVE FALSE
    OBVIOUS
  <2>1. d \in Nat /\ e \in Nat /\ e < d
    BY <1>3
  <2>2. <<e, d>> \in OpToRel(<, Nat)
    BY <2>1 DEF OpToRel
  <2> QED BY <2>2, <1>5
<1>7. PICK t \in Below : d = x - t
  OBVIOUS
<1>8. \A u \in Below : u <= t
  <2> SUFFICES ASSUME NEW u \in Below PROVE u <= t
    OBVIOUS
  <2>1. x - u \in Dist
    OBVIOUS
  <2>2. d <= x - u
    BY <2>1, <1>6
  <2> QED BY <2>2, <1>7, <1>2
<1>9. t \in Tiers \cup {0} /\ t <= x /\ \A u \in Tiers : u <= x => u <= t
  BY <1>8
<1> QED BY <1>9 DEF TierFor

LEMMA CreditsForNat ==
  ASSUME NEW x \in Nat
  PROVE  CreditsFor(x) \in Nat
<1>1. x \div Tranche \in Nat
  BY RewardsAssumption
<1> HIDE DEF CreditsFor
<1>2. \A a, b \in Nat : a * b \in Nat
  OBVIOUS
<1> QED BY <1>1, <1>2, RewardsAssumption DEF CreditsFor

\* More margin never means fewer credits.
LEMMA CreditsForMonotone ==
  ASSUME NEW x \in Nat, NEW y \in Nat, x <= y
  PROVE  CreditsFor(x) <= CreditsFor(y)
<1> DEFINE p == x \div Tranche
           q == y \div Tranche
<1>1. p \in Nat /\ q \in Nat /\ Tranche \in Nat \ {0} /\ PerTranche \in Nat
  BY RewardsAssumption
<1>2. x = Tranche * p + (x % Tranche) /\ y = Tranche * q + (y % Tranche)
  BY <1>1
<1>3. x % Tranche \in 0 .. (Tranche - 1) /\ y % Tranche \in 0 .. (Tranche - 1)
  BY <1>1
<1>4. p <= q
  <2> SUFFICES ASSUME q + 1 <= p PROVE FALSE
    BY <1>1
  <2> HIDE DEF p, q
  <2>1. \A a, b, c \in Nat : a <= b => c * a <= c * b
    OBVIOUS
  <2>2. Tranche * (q + 1) <= Tranche * p
    BY <2>1, <1>1
  <2>3. Tranche * (q + 1) = Tranche * q + Tranche
    BY <1>1
  <2>4. \A a \in Nat : Tranche * a \in Nat
    BY <1>1
  <2> QED BY <2>2, <2>3, <2>4, <1>1, <1>2, <1>3
<1>5. p * PerTranche <= q * PerTranche
  <2> HIDE DEF p, q
  <2>1. \A a, b, c \in Nat : a <= b => a * c <= b * c
    OBVIOUS
  <2> QED BY <2>1, <1>1, <1>4
<1> QED BY <1>5 DEF CreditsFor

-----------------------------------------------------------------------------
(* Types.                                                                  *)

LEMMA NoRowTyped == NoRow \in Row
  BY DEF NoRow, Row

LEMMA AnnouncementsTyped ==
  ASSUME NEW b \in Row, NEW a \in Row
  PROVE  Announcements(b, a) \subseteq Message
<1>1. CreditsFor(a.margin) \in Nat /\ b.earned \in Nat
  BY CreditsForNat DEF Row
<1>2. \A c \in Int : c > 0 => <<1, c>> \in Message
  BY DEF Message
<1>3. \A t \in Nat : <<2, t>> \in Message /\ <<3, t>> \in Message
  BY DEF Message
<1>4. Tiers \subseteq Nat /\ Natures \subseteq Nat
  BY RewardsAssumption
<1>5. NatureFor(a.margin) \subseteq Nat
  BY <1>4 DEF NatureFor
<1> HIDE DEF CreditsFor, NatureFor
<1>6. CreditsFor(a.margin) - b.earned \in Int
  BY <1>1
<1> QED BY <1>2, <1>3, <1>4, <1>5, <1>6 DEF Announcements

\* A step of the count of m that leaves the rows alone but for the work of m.
LEMMA WorkTyped ==
  ASSUME TypeOK, NEW m \in Missions, NEW w \in WorkSet, work' = [work EXCEPT ![m] = w]
  PROVE  work' \in [Missions -> WorkSet]
  BY DEF TypeOK

LEMMA GotoTyped ==
  ASSUME TypeOK, NEW m \in Missions, Goto(m, "commit") \/ Goto(m, "check") \/ Goto(m, "flag")
           \/ Goto(m, "before") \/ Goto(m, "after") \/ Goto(m, "done")
  PROVE  work' \in [Missions -> WorkSet]
  BY DEF TypeOK, Goto, WorkSet

LEMMA CountTyped ==
  ASSUME TypeOK, NEW m \in Missions, Count(m)
  PROVE  TypeOK'
<1>a. Margin[m] \in Nat /\ row \in Row /\ work[m] \in WorkSet
  BY RewardsAssumption DEF TypeOK
<1>1. CASE Stamp(m)
  BY <1>1, GotoTyped DEF Stamp, TypeOK
<1>2. CASE Confirm(m)
  BY <1>2, GotoTyped DEF Confirm, TypeOK
<1>3. CASE CheckFraud(m)
  BY <1>3, GotoTyped DEF CheckFraud, TypeOK
<1>4. CASE OpenFraudFlag(m)
  BY <1>4, GotoTyped DEF OpenFraudFlag, TypeOK
<1>5. CASE ReadBefore(m)
  <2>1. work' \in [Missions -> WorkSet]
    BY <1>5, <1>a DEF ReadBefore, TypeOK, WorkSet
  <2> QED BY <1>5, <2>1 DEF ReadBefore, TypeOK
<1>6. CASE Upsert(m)
  <2>1. CreditsFor(Margin[m]) \in Nat /\ TierFor(Margin[m]) \in Tiers \cup {0}
    BY <1>a, CreditsForNat, TierForReached
  <2>2. NatureFor(Margin[m]) \in SUBSET Natures
    BY DEF NatureFor
  <2>3. row' \in Row
    BY <1>6, <1>a, <2>1, <2>2 DEF Upsert, Row
  <2>4. work' \in [Missions -> WorkSet]
    BY <1>6, GotoTyped DEF Upsert
  <2> QED BY <1>6, <2>3, <2>4 DEF Upsert, TypeOK
<1>7. CASE ReadAfter(m)
  <2>1. work' \in [Missions -> WorkSet]
    BY <1>7, <1>a DEF ReadAfter, TypeOK, WorkSet
  <2> QED BY <1>7, <2>1 DEF ReadAfter, TypeOK
<1>8. CASE Persist(m)
  <2>1. work[m].before \in Row /\ work[m].after \in Row
    BY <1>a DEF WorkSet
  <2>2. work[m].after.margin \in Nat
    BY <2>1 DEF Row
  <2>3. /\ CreditsFor(work[m].after.margin) \in Nat
        /\ TierFor(work[m].after.margin) \in Tiers \cup {0}
    BY <2>2, CreditsForNat, TierForReached
  <2>4. NatureFor(work[m].after.margin) \in SUBSET Natures
    BY DEF NatureFor
  <2>5. row' \in Row
    BY <1>8, <1>a, <2>1, <2>3, <2>4 DEF Persist, Row
  <2>6. Announcements(work[m].before, work[m].after) \subseteq Message
    BY <2>1, AnnouncementsTyped
  <2>7. At("notify", NoRow, NoRow, Announcements(work[m].before, work[m].after)) \in WorkSet
    BY <2>6, NoRowTyped DEF At, WorkSet
  <2>8. work' \in [Missions -> WorkSet]
    BY <1>8, <2>7, WorkTyped DEF Persist
  <2> QED BY <1>8, <2>5, <2>8 DEF Persist, TypeOK
<1>9. CASE Notify(m)
  <2>1. CASE work[m].left = {}
    BY <1>9, <2>1, GotoTyped DEF Notify, TypeOK
  <2>2. CASE work[m].left # {}
    <3>1. PICK x \in work[m].left :
            /\ work' = [work EXCEPT ![m].left = @ \ {x}]
            /\ inbox' = inbox \/ inbox' = inbox \cup {<<m, x>>}
      BY <1>9, <2>2 DEF Notify
    <3>2. work[m].left \subseteq Message
      BY <1>a DEF WorkSet
    <3>3. work' \in [Missions -> WorkSet]
      BY <3>1, <3>2, <1>a DEF TypeOK, WorkSet
    <3>4. inbox' \subseteq Missions \X Message
      BY <3>1, <3>2 DEF TypeOK
    <3> QED BY <1>9, <3>3, <3>4 DEF Notify, TypeOK
  <2> QED BY <2>1, <2>2
<1>10. ASSUME NEW d \in {"VALIDATED", "REJECTED"}, ResolveFraudFlag(m, d) PROVE TypeOK'
  <2>1. NotCounted \in Message
    BY DEF Message, NotCounted
  <2>2. inbox' \subseteq Missions \X Message
    BY <1>10, <2>1 DEF ResolveFraudFlag, TypeOK
  <2>3. work' \in [Missions -> WorkSet]
    BY <1>10, GotoTyped DEF ResolveFraudFlag, TypeOK
  <2> QED BY <1>10, <2>2, <2>3 DEF ResolveFraudFlag, TypeOK
<1> QED BY <1>1, <1>2, <1>3, <1>4, <1>5, <1>6, <1>7, <1>8, <1>9, <1>10 DEF Count

LEMMA AskTyped ==
  ASSUME TypeOK, NEW r \in Requests, Ask(r)
  PROVE  TypeOK'
<1>a. row \in Row /\ claim[r] \in ClaimSet
  BY DEF TypeOK
<1>b. Idle \in ClaimSet
  BY DEF Idle, Seen, ClaimSet
<1>1. CASE ClaimRead(r)
  <2>1. Seen("credits", row.earned, row.claimed, {}) \in ClaimSet
    BY <1>a DEF Seen, ClaimSet, Row
  <2> QED BY <1>1, <2>1 DEF ClaimRead, TypeOK
<1>2. CASE ClaimCommit(r)
  <2>1. claim[r].earned \in Nat /\ claim[r].claimed \in Nat
    BY <1>a DEF ClaimSet
  <2>2. CreditsAvailable(claim[r]) \in Nat
    BY <2>1 DEF CreditsAvailable
  <2>3. row' \in Row
    BY <1>2, <1>a, <2>1 DEF ClaimCommit, Row
  <2> QED BY <1>2, <1>b, <2>2, <2>3 DEF ClaimCommit, Rest, TypeOK
<1>3. CASE NatureCommit(r)
  <2>1. row' \in Row
    BY <1>3, <1>a DEF NatureCommit, Row, ClaimSet
  <2> QED BY <1>3, <1>b, <2>1 DEF NatureCommit, Rest, TypeOK
<1>4. ASSUME NEW t \in Natures, NatureRead(r, t) PROVE TypeOK'
  <2>1. Seen("nature", 0, 0, row.asked \cup {t}) \in ClaimSet
    BY <1>a DEF Seen, ClaimSet, Row
  <2> QED BY <1>4, <2>1 DEF NatureRead, TypeOK
<1> QED BY <1>1, <1>2, <1>3, <1>4 DEF Ask

\* Every variable of Rewards keeps its type.
THEOREM TypeCorrect == Spec => []TypeOK
<1>1. Init => TypeOK
  BY NoRowTyped, RewardsAssumption
  DEF Init, TypeOK, At, Idle, Seen, WorkSet, ClaimSet
<1>2. TypeOK /\ [Next]_vars => TypeOK'
  <2> SUFFICES ASSUME TypeOK, [Next]_vars PROVE TypeOK'
    OBVIOUS
  <2>1. CASE Tick
    BY <2>1, RewardsAssumption DEF Tick, TypeOK
  <2>2. CASE UNCHANGED vars
    BY <2>2 DEF vars, TypeOK
  <2> QED BY <2>1, <2>2, CountTyped, AskTyped DEF Next
<1> QED BY <1>1, <1>2, PTL DEF Spec

-----------------------------------------------------------------------------
(* A flagged mission waits for its decision.                               *)

\* Where the count of a mission stands against its flag.
Stage(m) ==
  /\ work[m].pc \in {"idle", "commit", "check", "flag"} => flag[m] = "NONE" /\ m \notin counted
  /\ work[m].pc \in {"before", "upsert"} => flag[m] \in {"NONE", "VALIDATED"} /\ m \notin counted
  /\ flag[m] \in {"OPEN", "REJECTED"} => m \notin counted /\ work[m].pc = "done"

Stages == \A m \in Missions : Stage(m)

LEMMA GotoMoves ==
  ASSUME TypeOK, NEW m \in Missions, NEW pc, Goto(m, pc)
  PROVE  work'[m].pc = pc /\ \A n \in Missions \ {m} : work'[n] = work[n]
<1>1. work[m] \in WorkSet
  BY DEF TypeOK
<1>2. work'[m] = [work[m] EXCEPT !.pc = pc]
  BY DEF Goto, TypeOK
<1>3. work'[m].pc = pc
  BY <1>1, <1>2 DEF WorkSet
<1> QED BY <1>3 DEF Goto, TypeOK

LEMMA NotifyMoves ==
  ASSUME TypeOK, NEW m \in Missions, Notify(m)
  PROVE  /\ work'[m].pc \in {"notify", "done"}
         /\ \A n \in Missions \ {m} : work'[n] = work[n]
<1>1. CASE work[m].left = {}
  BY <1>1, GotoMoves DEF Notify
<1>2. CASE work[m].left # {}
  <2>1. PICK x \in work[m].left : work' = [work EXCEPT ![m].left = @ \ {x}]
    BY <1>2 DEF Notify
  <2>2. work'[m] = [work[m] EXCEPT !.left = @ \ {x}] /\ work[m] \in WorkSet
    BY <2>1 DEF TypeOK
  <2>3. work'[m].pc = work[m].pc /\ work[m].pc = "notify"
    BY <2>2 DEF WorkSet, Notify
  <2> QED BY <2>1, <2>3 DEF TypeOK
<1> QED BY <1>1, <1>2

LEMMA CountStages ==
  ASSUME TypeOK, Stages, NEW m \in Missions, Count(m)
  PROVE  Stages'
<1>1. \A n \in Missions \ {m} : flag'[n] = flag[n] /\ work'[n] = work[n]
                                /\ (n \in counted' <=> n \in counted)
  BY DEF Count, Stamp, Confirm, CheckFraud, OpenFraudFlag, ReadBefore, Upsert, ReadAfter,
         Persist, Notify, ResolveFraudFlag, Goto, TypeOK
<1>2. Stage(m) /\ flag[m] \in {"NONE", "OPEN", "VALIDATED", "REJECTED"} /\ work[m] \in WorkSet
  BY DEF Stages, TypeOK
<1>3a. CASE Stamp(m) \/ Confirm(m)
  <2>1. /\ work[m].pc \in {"idle", "commit"} /\ flag' = flag /\ counted' = counted
        /\ work'[m].pc \in {"commit", "check", "done"}
    BY <1>3a, GotoMoves DEF Stamp, Confirm
  <2>2. Stage(m)'
    BY <1>2, <2>1 DEF Stage
  <2> QED BY <1>1, <2>2 DEF Stages, Stage
<1>3b. CASE CheckFraud(m)
  <2>1. /\ work[m].pc = "check" /\ flag' = flag /\ counted' = counted
        /\ work'[m].pc \in {"flag", "before"}
    BY <1>3b, GotoMoves DEF CheckFraud
  <2>2. Stage(m)'
    BY <1>2, <2>1 DEF Stage
  <2> QED BY <1>1, <2>2 DEF Stages, Stage
<1>3c. CASE OpenFraudFlag(m)
  <2>1. /\ work[m].pc = "flag" /\ counted' = counted
        /\ work'[m].pc = "done" /\ flag'[m] = IF flag[m] = "NONE" THEN "OPEN" ELSE flag[m]
    BY <1>3c DEF OpenFraudFlag, Goto, TypeOK
  <2>2. Stage(m)'
    BY <1>2, <2>1 DEF Stage
  <2> QED BY <1>1, <2>2 DEF Stages, Stage
<1>4a. CASE ReadBefore(m)
  <2>1. /\ work[m].pc = "before" /\ flag' = flag /\ counted' = counted
        /\ work'[m].pc = "upsert"
    BY <1>4a DEF ReadBefore, Goto, TypeOK
  <2>2. Stage(m)'
    BY <1>2, <2>1 DEF Stage
  <2> QED BY <1>1, <2>2 DEF Stages, Stage
<1>4b. CASE Upsert(m)
  <2>1. /\ work[m].pc = "upsert" /\ flag' = flag
        /\ work'[m].pc = "after"
    BY <1>4b DEF Upsert, Goto, TypeOK
  <2>2. Stage(m)'
    BY <1>2, <2>1 DEF Stage
  <2> QED BY <1>1, <2>2 DEF Stages, Stage
<1>4c. CASE ReadAfter(m)
  <2>1. /\ work[m].pc = "after" /\ flag' = flag /\ counted' = counted
        /\ work'[m].pc = "persist"
    BY <1>4c DEF ReadAfter, Goto, TypeOK
  <2>2. Stage(m)'
    BY <1>2, <2>1 DEF Stage
  <2> QED BY <1>1, <2>2 DEF Stages, Stage
<1>5. CASE Persist(m)
  <2>1. work'[m].pc = "notify" /\ flag' = flag /\ counted' = counted /\ work[m].pc = "persist"
    BY <1>5 DEF Persist, At, TypeOK
  <2>2. Stage(m)'
    BY <1>2, <2>1 DEF Stage
  <2> QED BY <1>1, <2>2 DEF Stages, Stage
<1>6. CASE Notify(m)
  <2>1. /\ work'[m].pc \in {"notify", "done"} /\ work[m].pc = "notify"
        /\ flag' = flag /\ counted' = counted
    BY <1>6, NotifyMoves DEF Notify
  <2>2. Stage(m)'
    BY <1>2, <2>1 DEF Stage
  <2> QED BY <1>1, <2>2 DEF Stages, Stage
<1>7. ASSUME NEW d \in {"VALIDATED", "REJECTED"}, ResolveFraudFlag(m, d) PROVE Stages'
  <2>1. Stage(m)'
    BY <1>2, <1>7 DEF Stage, ResolveFraudFlag, Goto, TypeOK
  <2> QED BY <1>1, <2>1 DEF Stages, Stage
<1> QED BY <1>3a, <1>3b, <1>3c, <1>4a, <1>4b, <1>4c, <1>5, <1>6, <1>7 DEF Count

LEMMA StagesHold == Spec => [](TypeOK /\ Stages)
<1>1. Init => Stages
  BY DEF Init, Stages, Stage, At
<1>2. TypeOK /\ Stages /\ [Next]_vars => Stages'
  <2> SUFFICES ASSUME TypeOK, Stages, [Next]_vars PROVE Stages'
    OBVIOUS
  <2>1. CASE Tick
    BY <2>1 DEF Tick, Stages, Stage
  <2>2. CASE UNCHANGED vars
    BY <2>2 DEF vars, Stages, Stage
  <2>3. ASSUME NEW r \in Requests, Ask(r) PROVE Stages'
    BY <2>3 DEF Ask, ClaimRead, ClaimCommit, NatureRead, NatureCommit, Stages, Stage
  <2> QED BY <2>1, <2>2, <2>3, CountStages DEF Next
<1> QED BY <1>1, <1>2, TypeCorrect, PTL DEF Spec

\* A mission counts after the decision on its flag, never if rejected.
THEOREM FlagDecides == Spec => []FlaggedWaits
<1>1. TypeOK /\ Stages => FlaggedWaits
  BY DEF Stages, Stage, FlaggedWaits
<1> QED BY <1>1, StagesHold, PTL

-----------------------------------------------------------------------------
(* The money.                                                              *)

\* What is read and not yet written back is within the bound as well: the
\* margin never decreases, so a stale reading allows less, never more.
Money ==
  /\ ClaimedIsPaid
  /\ row.earned <= CreditsFor(row.margin)
  /\ row.claimed <= CreditsFor(row.margin)
  /\ \A m \in Missions : work[m].pc = "persist" => work[m].after.margin <= row.margin
  /\ \A r \in Requests : claim[r].pc = "credits" => claim[r].earned <= CreditsFor(row.margin)

\* The rows that matter to Money are kept.
LEMMA MoneyKept ==
  ASSUME TypeOK, Money, TypeOK', row' = row, paid' = paid,
         \A m \in Missions : work'[m].pc = "persist" =>
            work'[m].after.margin = row.margin \/ work'[m] = work[m],
         \A r \in Requests : claim'[r].pc = "credits" =>
            claim'[r].earned = row.earned \/ claim'[r] = claim[r]
  PROVE  Money'
<1>1. row.margin \in Nat
  BY DEF TypeOK, Row
<1> QED BY <1>1 DEF Money, ClaimedIsPaid

\* The margin grows and the rest of the row stays within the bound.
LEMMA MoneyGrows ==
  ASSUME TypeOK, Money, TypeOK', row'.margin >= row.margin,
         row'.earned <= CreditsFor(row'.margin), row'.claimed = row.claimed, paid' = paid,
         \A m \in Missions : work'[m].pc = "persist" => work'[m] = work[m],
         claim' = claim
  PROVE  Money'
<1>1. /\ row.margin \in Nat /\ row'.margin \in Nat /\ row.claimed \in Nat
      /\ \A m \in Missions : work[m].after.margin \in Nat
      /\ \A r \in Requests : claim[r].earned \in Nat
  BY DEF TypeOK, Row, WorkSet, ClaimSet
<1>2. CreditsFor(row.margin) <= CreditsFor(row'.margin)
  BY <1>1, CreditsForMonotone
<1>3. CreditsFor(row.margin) \in Nat /\ CreditsFor(row'.margin) \in Nat
  BY <1>1, CreditsForNat
<1>4. row'.claimed <= CreditsFor(row'.margin)
  BY <1>1, <1>2, <1>3 DEF Money
<1>5. \A m \in Missions : work'[m].pc = "persist" => work'[m].after.margin <= row'.margin
  BY <1>1 DEF Money
<1>6. \A r \in Requests : claim'[r].pc = "credits" => claim'[r].earned <= CreditsFor(row'.margin)
  BY <1>1, <1>2, <1>3 DEF Money
<1> QED BY <1>4, <1>5, <1>6 DEF Money, ClaimedIsPaid

LEMMA CountMoney ==
  ASSUME TypeOK, Money, TypeOK', NEW m \in Missions, Count(m)
  PROVE  Money'
<1>a. row \in Row /\ row.margin \in Nat /\ Margin[m] \in Nat \ {0} /\ work[m] \in WorkSet
  BY RewardsAssumption DEF TypeOK, Row
<1>1. CASE Upsert(m)
  <2>1. \A n \in Missions : work'[n].pc = "persist" => work'[n] = work[n]
    BY <1>1 DEF Upsert, Goto, TypeOK
  <2>2. CASE row.margin = 0
    <3>1. CreditsFor(0) = 0
      <4>1. 0 \div Tranche = 0
        BY RewardsAssumption
      <4>2. 0 * PerTranche = 0
        BY RewardsAssumption
      <4> QED BY <4>1, <4>2 DEF CreditsFor
    <3>2. row.claimed = 0
      BY <2>2, <3>1 DEF Money, TypeOK, Row
    <3>3. row'.margin = Margin[m] /\ row'.earned = CreditsFor(Margin[m]) /\ row'.claimed = 0
      BY <1>1, <2>2 DEF Upsert
    <3>4. CreditsFor(Margin[m]) \in Nat
      BY <1>a, CreditsForNat
    <3>5. row'.earned <= CreditsFor(row'.margin)
      BY <3>3, <3>4
    <3>6. row'.margin >= row.margin
      BY <3>3, <2>2, <1>a
    <3> QED BY <1>1, <2>1, <3>2, <3>3, <3>5, <3>6, MoneyGrows DEF Upsert
  <2>3. CASE row.margin # 0
    <3>1. /\ row'.margin = row.margin + Margin[m]
          /\ row'.earned = row.earned /\ row'.claimed = row.claimed
      BY <1>1, <2>3, <1>a DEF Upsert, Row
    <3>2. row'.margin >= row.margin /\ row'.margin \in Nat
      BY <3>1, <1>a
    <3>3. CreditsFor(row.margin) <= CreditsFor(row'.margin)
      BY <3>2, <1>a, CreditsForMonotone
    <3>4. CreditsFor(row.margin) \in Nat /\ CreditsFor(row'.margin) \in Nat /\ row.earned \in Nat
      BY <3>2, <1>a, CreditsForNat DEF Row
    <3>5. row'.earned <= CreditsFor(row'.margin)
      BY <3>1, <3>3, <3>4 DEF Money
    <3> QED BY <1>1, <2>1, <3>1, <3>2, <3>5, MoneyGrows DEF Upsert
  <2> QED BY <2>2, <2>3
<1>2. CASE Persist(m)
  <2>1. work[m].after.margin \in Nat /\ work[m].after.margin <= row.margin
    BY <1>2, <1>a DEF Persist, Money, WorkSet, Row
  <2>2. /\ row'.margin = row.margin /\ row'.claimed = row.claimed
        /\ row'.earned = CreditsFor(work[m].after.margin)
    BY <1>2, <1>a DEF Persist, Row
  <2>3. row'.earned <= CreditsFor(row'.margin)
    BY <2>1, <2>2, <1>a, CreditsForMonotone
  <2>4. \A n \in Missions : work'[n].pc = "persist" => work'[n] = work[n]
    BY <1>2 DEF Persist, At, TypeOK
  <2>5. row'.margin >= row.margin
    BY <2>2, <1>a
  <2> QED BY <1>2, <2>2, <2>3, <2>4, <2>5, MoneyGrows DEF Persist
<1>3. CASE ReadAfter(m)
  <2>1. \A n \in Missions : work'[n].pc = "persist" =>
          work'[n].after.margin = row.margin \/ work'[n] = work[n]
    <3>1. work'[m] = [work[m] EXCEPT !.pc = "persist", !.after = row]
      BY <1>3 DEF ReadAfter, TypeOK
    <3>2. work'[m].after = row
      BY <3>1, <1>a DEF WorkSet
    <3> QED BY <1>3, <3>2 DEF ReadAfter, TypeOK
  <2> QED BY <1>3, <2>1, MoneyKept DEF ReadAfter
<1>4. CASE Notify(m)
  <2>1. \A n \in Missions : work'[n].pc = "persist" => work'[n] = work[n]
    BY <1>4, NotifyMoves
  <2> QED BY <1>4, <2>1, MoneyKept DEF Notify
<1>5. CASE Stamp(m) \/ Confirm(m) \/ CheckFraud(m) \/ OpenFraudFlag(m) \/ ReadBefore(m)
           \/ \E d \in {"VALIDATED", "REJECTED"} : ResolveFraudFlag(m, d)
  <2>1. work'[m].pc # "persist" /\ \A n \in Missions \ {m} : work'[n] = work[n]
    <3>1. CASE ReadBefore(m)
      BY <1>a, <3>1 DEF ReadBefore, TypeOK, WorkSet
    <3>2. CASE Stamp(m) \/ Confirm(m) \/ OpenFraudFlag(m)
      BY <3>2, GotoMoves DEF Stamp, Confirm, OpenFraudFlag
    <3>3. CASE CheckFraud(m)
      BY <3>3, GotoMoves DEF CheckFraud
    <3>4. ASSUME NEW d \in {"VALIDATED", "REJECTED"}, ResolveFraudFlag(m, d)
          PROVE  work'[m].pc # "persist" /\ \A n \in Missions \ {m} : work'[n] = work[n]
      BY <3>4, GotoMoves DEF ResolveFraudFlag
    <3> QED BY <1>5, <3>1, <3>2, <3>3, <3>4
  <2>2. row' = row /\ paid' = paid /\ claim' = claim
    BY <1>5 DEF Stamp, Confirm, CheckFraud, OpenFraudFlag, ReadBefore, ResolveFraudFlag
  <2> QED BY <2>1, <2>2, MoneyKept
<1> QED BY <1>1, <1>2, <1>3, <1>4, <1>5 DEF Count

LEMMA AskMoney ==
  ASSUME TypeOK, Money, TypeOK', NEW r \in Requests, Ask(r)
  PROVE  Money'
<1>a. row \in Row /\ claim[r] \in ClaimSet
  BY DEF TypeOK
<1>1. CASE ClaimRead(r)
  <2>1. \A q \in Requests : claim'[q].pc = "credits" =>
          claim'[q].earned = row.earned \/ claim'[q] = claim[q]
    BY <1>1 DEF ClaimRead, Seen, TypeOK
  <2>2. row' = row /\ paid' = paid /\ work' = work
    BY <1>1 DEF ClaimRead
  <2> QED BY <2>1, <2>2, MoneyKept
<1>2. ASSUME NEW t \in Natures, NatureRead(r, t) PROVE Money'
  <2>1. \A q \in Requests : claim'[q].pc = "credits" => claim'[q] = claim[q]
    BY <1>2 DEF NatureRead, Seen, TypeOK
  <2>2. row' = row /\ paid' = paid /\ work' = work
    BY <1>2 DEF NatureRead
  <2> QED BY <2>1, <2>2, MoneyKept
<1>3. CASE NatureCommit(r)
  <2>1. row'.margin = row.margin /\ row'.earned = row.earned /\ row'.claimed = row.claimed
    BY <1>3, <1>a DEF NatureCommit, Row
  <2>2. \A q \in Requests : claim'[q].pc = "credits" => claim'[q] = claim[q]
    BY <1>3 DEF NatureCommit, Rest, Idle, Seen, TypeOK
  <2>3. work' = work /\ paid' = paid
    BY <1>3 DEF NatureCommit
  <2> QED BY <2>1, <2>2, <2>3 DEF Money, ClaimedIsPaid
<1>4. CASE ClaimCommit(r)
  <2>1. \A q \in Requests : claim'[q].pc = "credits" => claim'[q] = claim[q]
    BY <1>4 DEF ClaimCommit, Rest, Idle, Seen, TypeOK
  <2>2. CASE paid = 0 /\ row.earned = claim[r].earned /\ row.claimed = claim[r].claimed
    <3>1. /\ row'.margin = row.margin /\ row'.earned = row.earned /\ row'.claimed = row.earned
          /\ paid' = CreditsAvailable(claim[r])
      BY <1>4, <2>2, <1>a DEF ClaimCommit, Row
    <3>2. claim[r].claimed = 0 /\ claim[r].earned \in Nat
      BY <2>2, <1>a DEF Money, ClaimedIsPaid, ClaimSet
    <3>3. paid' = row.earned
      BY <2>2, <3>1, <3>2 DEF CreditsAvailable
    <3> QED BY <1>4, <2>1, <3>1, <3>3 DEF ClaimCommit, Money, ClaimedIsPaid
  <2>3. CASE ~ (paid = 0 /\ row.earned = claim[r].earned /\ row.claimed = claim[r].claimed)
    <3>1. row' = row /\ paid' = paid /\ work' = work
      BY <1>4, <2>3 DEF ClaimCommit
    <3> QED BY <2>1, <3>1, MoneyKept
  <2> QED BY <2>2, <2>3
<1> QED BY <1>1, <1>2, <1>3, <1>4 DEF Ask

LEMMA MoneyHolds == Spec => [](TypeOK /\ Money)
<1>1. Init => Money
  <2>1. CreditsFor(0) \in Nat
    BY CreditsForNat
  <2> QED BY <2>1 DEF Init, Money, ClaimedIsPaid, NoRow, At, Idle, Seen
<1>2. TypeOK /\ TypeOK' /\ Money /\ [Next]_vars => Money'
  <2> SUFFICES ASSUME TypeOK, TypeOK', Money, [Next]_vars PROVE Money'
    OBVIOUS
  <2>1. CASE Tick
    BY <2>1, MoneyKept DEF Tick
  <2>2. CASE UNCHANGED vars
    BY <2>2, MoneyKept DEF vars
  <2> QED BY <2>1, <2>2, CountMoney, AskMoney DEF Next
<1> QED BY <1>1, <1>2, TypeCorrect, PTL DEF Spec

-----------------------------------------------------------------------------
(* The margin.                                                             *)

\* The missions counted are finitely many, without any bound on Missions.
Summed == IsFiniteSet(counted) /\ MarginIsSum

\* Steps other than the increment keep the margin and the missions counted.
LEMMA MarginKept ==
  ASSUME TypeOK, [Next]_vars, ~ \E m \in Missions : Upsert(m)
  PROVE  row'.margin = row.margin /\ counted' = counted
<1>1. row \in Row
  BY DEF TypeOK
<1>2. ASSUME NEW m \in Missions, Count(m) PROVE row'.margin = row.margin /\ counted' = counted
  <2>1. CASE Persist(m)
    BY <1>1, <2>1 DEF Persist, Row
  <2>2. ASSUME NEW d \in {"VALIDATED", "REJECTED"}, ResolveFraudFlag(m, d)
        PROVE  row' = row /\ counted' = counted
    BY <2>2 DEF ResolveFraudFlag
  <2> QED BY <1>2, <2>1, <2>2 DEF Count, Stamp, Confirm, CheckFraud, OpenFraudFlag,
        ReadBefore, ReadAfter, Notify
<1>3. ASSUME NEW r \in Requests, Ask(r) PROVE row'.margin = row.margin /\ counted' = counted
  BY <1>1, <1>3 DEF Ask, ClaimRead, ClaimCommit, NatureRead, NatureCommit, Row
<1> QED BY <1>2, <1>3 DEF Next, Tick, vars

LEMMA UpsertSums ==
  ASSUME TypeOK, Stages, Summed, NEW m \in Missions, Upsert(m)
  PROVE  Summed'
<1>1. m \notin counted /\ counted \subseteq Missions /\ counted' = counted \cup {m}
  BY DEF Upsert, Stages, Stage, TypeOK
<1>2. /\ IsFiniteSet(counted')
      /\ SumFunctionOnSet(Margin, counted') = Margin[m] + row.margin
  <2>1. \A x \in counted \cup {m} : Margin[x] \in Nat
    BY <1>1, RewardsAssumption
  <2> QED BY <1>1, <2>1, SumAdd, FS_AddElement DEF Summed, MarginIsSum
<1>3. row'.margin = Margin[m] + row.margin
  <2>1. Margin[m] \in Nat /\ row.margin \in Nat /\ row \in Row
    BY RewardsAssumption DEF TypeOK, Row
  <2>2. CASE row.margin = 0
    BY <2>1, <2>2 DEF Upsert
  <2>3. CASE row.margin # 0
    BY <2>1, <2>3 DEF Upsert, Row
  <2> QED BY <2>2, <2>3
<1> QED BY <1>2, <1>3 DEF Summed, MarginIsSum

\* The cumulative margin is the sum of the commissions of the missions counted,
\* each once, however their counts race.
THEOREM MarginSums == Spec => []MarginIsSum
<1>1. Init => Summed
  BY SumOfEmpty, FS_EmptySet DEF Init, NoRow, Summed, MarginIsSum
<1>2. TypeOK /\ Stages /\ Summed /\ [Next]_vars => Summed'
  <2> SUFFICES ASSUME TypeOK, Stages, Summed, [Next]_vars PROVE Summed'
    OBVIOUS
  <2>1. CASE \E m \in Missions : Upsert(m)
    BY <2>1, UpsertSums
  <2>2. CASE ~ \E m \in Missions : Upsert(m)
    BY <2>2, MarginKept DEF Summed, MarginIsSum
  <2> QED BY <2>1, <2>2
<1>3. Summed => MarginIsSum
  BY DEF Summed
<1> QED BY <1>1, <1>2, <1>3, StagesHold, PTL DEF Spec

-----------------------------------------------------------------------------

\* What was paid is what the row says was claimed.
THEOREM PaidAsClaimed == Spec => []ClaimedIsPaid
<1>1. Money => ClaimedIsPaid
  BY DEF Money
<1> QED BY <1>1, MoneyHolds, PTL

\* The programme never costs more than the credit of the margin.
THEOREM CostBounded == Spec => []CreditsBounded
<1>1. TypeOK /\ Money => CreditsBounded
  BY DEF Money, ClaimedIsPaid, CreditsBounded
<1> QED BY <1>1, MoneyHolds, PTL
=============================================================================
