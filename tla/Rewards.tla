------------------------------ MODULE Rewards ------------------------------
(***************************************************************************)
(* The loyalty programme, for one client (rows of other clients are never  *)
(* touched): the ClientRewardProgress row, the fraud flags of the client's *)
(* missions, the CLIENT_REWARD_CREDIT entry of the ledger, the             *)
(* notifications.                                                          *)
(*                                                                         *)
(*   onMissionConfirmed (openFraudFlag, accumulateMargin), claimCredits,   *)
(*   claimNatureReward, resolveFraudFlag                                   *)
(*                                                                         *)
(* accumulateMargin is not a transaction: it reads the row, increments the *)
(* margin, reads the row again, writes what it derives from that reading,  *)
(* then notifies; it is cut at each of these.  A process that dies is one  *)
(* that takes no further step.                                             *)
(*                                                                         *)
(* A tier is named by the margin it takes, 0 for none.  currentNatureTier, *)
(* written together with natureReached, the notice of a nature claimed,    *)
(* which follows its commit, and the e-mail, push and stream copies of a   *)
(* notification are left out.                                              *)
(***************************************************************************)
EXTENDS Integers, FiniteSets, Functions

CONSTANTS
  Missions,
  Requests,    \* concurrent requests of the client
  None,
  Margin,      \* Margin[m]: the commission on the accepted quote of m
  Technician,  \* Technician[m], None when the mission has none
  Countable,   \* missions paid the minimum, with an accepted quote
  Tranche, PerTranche,
  Tiers, Natures,
  Window,      \* the 48 hours
  MaxTime      \* bound on the clock

ASSUME RewardsAssumption ==
  /\ None \notin Missions
  /\ Margin \in [Missions -> Nat \ {0}]
  /\ Countable \subseteq Missions
  /\ Tranche \in Nat \ {0} /\ PerTranche \in Nat
  /\ Tiers \subseteq Nat \ {0} /\ Natures \subseteq Nat \ {0}
  /\ Window \in Nat /\ MaxTime \in Nat

VARIABLES
  now,
  stamp,      \* Demande.updatedAt of the confirmation, None before it
  flag,       \* RewardFraudFlag.decision, "OPEN" before it, "NONE" without a flag
  row,        \* ClientRewardProgress, margin 0 while there is none
  paid,       \* amount of the client's CLIENT_REWARD_CREDIT entry, 0 without one
  inbox,      \* notifications stored
  work,       \* the confirmation of each mission and the count that follows
  claim,      \* what each request of the client is doing
  counted     \* missions whose margin was added (history)

vars == <<now, stamp, flag, row, paid, inbox, work, claim, counted>>

Row == [margin : Nat, earned : Nat, claimed : Nat, tier : Tiers \cup {0},
        reached : SUBSET Natures, asked : SUBSET Natures]

NoRow == [margin |-> 0, earned |-> 0, claimed |-> 0, tier |-> 0, reached |-> {}, asked |-> {}]

\* Credits, a tier, a nature, and a mission that does not count.
Message == (1 .. 4) \X Nat
NotCounted == <<4, 0>>

WorkSet == [pc : {"idle", "commit", "check", "flag", "before", "upsert", "after",
                  "persist", "notify", "done"},
            before : Row, after : Row, left : SUBSET Message]

ClaimSet == [pc : {"idle", "credits", "nature"}, earned : Nat, claimed : Nat,
             asked : SUBSET Natures]

At(pc, b, a, l) == [pc |-> pc, before |-> b, after |-> a, left |-> l]
Seen(pc, e, c, s) == [pc |-> pc, earned |-> e, claimed |-> c, asked |-> s]
Idle == Seen("idle", 0, 0, {})

CreditsFor(x) == (x \div Tranche) * PerTranche
TierFor(x)    == CHOOSE t \in Tiers \cup {0} :
                   t <= x /\ \A u \in Tiers : u <= x => u <= t
NatureFor(x)  == {t \in Natures : t <= x}
CreditsAvailable(r) == IF r.earned > r.claimed THEN r.earned - r.claimed ELSE 0

\* Credits first, then the badges, then the rewards in kind, by threshold.
\* The tiers already reached are the current one only.
Announcements(b, a) ==
  LET credit == CreditsFor(a.margin) - b.earned IN
     (IF credit > 0 THEN {<<1, credit>>} ELSE {})
       \cup {<<2, t>> : t \in {u \in Tiers : u <= a.margin} \ {b.tier}}
       \cup {<<3, t>> : t \in NatureFor(a.margin) \ b.reached}

First(x, S) == \A y \in S : x[1] < y[1] \/ (x[1] = y[1] /\ x[2] <= y[2])

Init ==
  /\ now = 0
  /\ stamp = [m \in Missions |-> None]
  /\ flag = [m \in Missions |-> "NONE"]
  /\ row = NoRow
  /\ paid = 0
  /\ inbox = {}
  /\ work = [m \in Missions |-> At("idle", NoRow, NoRow, {})]
  /\ claim = [r \in Requests |-> Idle]
  /\ counted = {}

Tick ==
  /\ now < MaxTime
  /\ now' = now + 1
  /\ UNCHANGED <<stamp, flag, row, paid, inbox, work, claim, counted>>

Goto(m, pc) == work' = [work EXCEPT ![m].pc = pc]

-----------------------------------------------------------------------------
(* A mission is confirmed, then counted or flagged.                        *)

\* updateStatus stamps the row before its transaction commits.
Stamp(m) ==
  /\ work[m].pc = "idle"
  /\ stamp' = [stamp EXCEPT ![m] = now]
  /\ Goto(m, "commit")
  /\ UNCHANGED <<now, flag, row, paid, inbox, claim, counted>>

Confirm(m) ==
  /\ work[m].pc = "commit"
  /\ Goto(m, IF m \in Countable THEN "check" ELSE "done")
  /\ UNCHANGED <<now, stamp, flag, row, paid, inbox, claim, counted>>

\* The latest confirmation before that of m, among those committed.
Earlier(m)  == {p \in Missions \ {m} : /\ work[p].pc \notin {"idle", "commit"}
                                       /\ stamp[p] < stamp[m]}
Previous(m) == {p \in Earlier(m) : \A q \in Earlier(m) : stamp[q] <= stamp[p]}

Suspicious(m, p) ==
  /\ Technician[m] # None
  /\ Technician[m] = Technician[p]
  /\ stamp[m] - stamp[p] < Window

CheckFraud(m) ==
  /\ work[m].pc = "check"
  /\ \/ \E p \in Previous(m) : Goto(m, IF Suspicious(m, p) THEN "flag" ELSE "before")
     \/ Previous(m) = {} /\ Goto(m, "before")
  /\ UNCHANGED <<now, stamp, flag, row, paid, inbox, claim, counted>>

OpenFraudFlag(m) ==
  /\ work[m].pc = "flag"
  /\ flag' = [flag EXCEPT ![m] = IF @ = "NONE" THEN "OPEN" ELSE @]
  /\ Goto(m, "done")
  /\ UNCHANGED <<now, stamp, row, paid, inbox, claim, counted>>

ReadBefore(m) ==
  /\ work[m].pc = "before"
  /\ work' = [work EXCEPT ![m].pc = "upsert", ![m].before = row]
  /\ UNCHANGED <<now, stamp, flag, row, paid, inbox, claim, counted>>

\* Mutant: the sum is computed from the first reading.
UpsertComputed(m) ==
  /\ work[m].pc = "upsert"
  /\ row' = [row EXCEPT !.margin = work[m].before.margin + Margin[m]]
  /\ counted' = counted \cup {m}
  /\ Goto(m, "after")
  /\ UNCHANGED <<now, stamp, flag, paid, inbox, claim>>

\* The increment is made by the database; the first mission creates the row.
Upsert(m) ==
  /\ work[m].pc = "upsert"
  /\ row' = IF row.margin = 0
              THEN [margin |-> Margin[m], earned |-> CreditsFor(Margin[m]), claimed |-> 0,
                    tier |-> TierFor(Margin[m]), reached |-> NatureFor(Margin[m]), asked |-> {}]
              ELSE [row EXCEPT !.margin = @ + Margin[m]]
  /\ counted' = counted \cup {m}
  /\ Goto(m, "after")
  /\ UNCHANGED <<now, stamp, flag, paid, inbox, claim>>

ReadAfter(m) ==
  /\ work[m].pc = "after"
  /\ work' = [work EXCEPT ![m].pc = "persist", ![m].after = row]
  /\ UNCHANGED <<now, stamp, flag, row, paid, inbox, claim, counted>>

\* Mutant: the credits newly earned are added instead of derived.
PersistIncrements(m) ==
  LET w == work[m] IN
  /\ w.pc = "persist"
  /\ row' = [row EXCEPT !.earned = @ + CreditsFor(w.after.margin) - w.before.earned]
  /\ work' = [work EXCEPT ![m] = At("notify", NoRow, NoRow, Announcements(w.before, w.after))]
  /\ UNCHANGED <<now, stamp, flag, paid, inbox, claim, counted>>

\* Absolute values, derived from the second reading.
Persist(m) ==
  LET w == work[m] IN
  /\ w.pc = "persist"
  /\ row' = [row EXCEPT
       !.earned = CreditsFor(w.after.margin),
       !.tier = TierFor(w.after.margin),
       !.reached = w.before.reached \cup w.after.reached \cup NatureFor(w.after.margin)]
  /\ work' = [work EXCEPT ![m] = At("notify", NoRow, NoRow, Announcements(w.before, w.after))]
  /\ UNCHANGED <<now, stamp, flag, paid, inbox, claim, counted>>

\* A notification that cannot be stored is given up.
Notify(m) ==
  LET w == work[m] IN
  /\ w.pc = "notify"
  /\ IF w.left = {}
       THEN Goto(m, "done") /\ UNCHANGED inbox
       ELSE \E x \in w.left :
              /\ First(x, w.left)
              /\ work' = [work EXCEPT ![m].left = @ \ {x}]
              /\ inbox' = inbox \/ inbox' = inbox \cup {<<m, x>>}
  /\ UNCHANGED <<now, stamp, flag, row, paid, claim, counted>>

\* Mutant: a flag that was decided may be decided again.
ResolveFraudFlagAgain(m, decision) ==
  /\ flag[m] # "NONE"
  /\ flag' = [flag EXCEPT ![m] = decision]
  /\ Goto(m, IF decision = "VALIDATED" THEN "before" ELSE "done")
  /\ UNCHANGED <<now, stamp, row, paid, inbox, claim, counted>>

\* An administrator decides; a validated mission is counted after all, and of
\* a rejected one the client is told, if the notification can be stored.
ResolveFraudFlag(m, decision) ==
  /\ flag[m] = "OPEN"
  /\ flag' = [flag EXCEPT ![m] = decision]
  /\ Goto(m, IF decision = "VALIDATED" THEN "before" ELSE "done")
  /\ \/ UNCHANGED inbox
     \/ decision = "REJECTED" /\ inbox' = inbox \cup {<<m, NotCounted>>}
  /\ UNCHANGED <<now, stamp, row, paid, claim, counted>>

-----------------------------------------------------------------------------
(* Requests of the client.                                                 *)

Rest(r) == claim' = [claim EXCEPT ![r] = Idle]

ClaimRead(r) ==
  /\ claim[r].pc = "idle"
  /\ CreditsAvailable(row) > 0
  /\ claim' = [claim EXCEPT ![r] = Seen("credits", row.earned, row.claimed, {})]
  /\ UNCHANGED <<now, stamp, flag, row, paid, inbox, work, counted>>

\* Mutant: the duplicate reference is absorbed and the claim goes on.
ClaimCommitAbsorbed(r) ==
  LET s == claim[r] IN
  /\ s.pc = "credits"
  /\ IF row.earned = s.earned /\ row.claimed = s.claimed
       THEN /\ paid' = IF paid = 0 THEN CreditsAvailable(s) ELSE paid
            /\ row' = [row EXCEPT !.claimed = s.earned]
       ELSE UNCHANGED <<paid, row>>
  /\ Rest(r)
  /\ UNCHANGED <<now, stamp, flag, inbox, work, counted>>

\* The entry and the claim, in one transaction.  The reference of the entry
\* is the same for every claim of a client: PostgreSQL aborts the transaction
\* of a second one.
ClaimCommit(r) ==
  LET s == claim[r] IN
  /\ s.pc = "credits"
  /\ IF paid = 0 /\ row.earned = s.earned /\ row.claimed = s.claimed
       THEN /\ paid' = CreditsAvailable(s)
            /\ row' = [row EXCEPT !.claimed = s.earned]
       ELSE UNCHANGED <<paid, row>>
  /\ Rest(r)
  /\ UNCHANGED <<now, stamp, flag, inbox, work, counted>>

NatureRead(r, t) ==
  /\ claim[r].pc = "idle"
  /\ t \in row.reached \ row.asked
  /\ claim' = [claim EXCEPT ![r] = Seen("nature", 0, 0, row.asked \cup {t})]
  /\ UNCHANGED <<now, stamp, flag, row, paid, inbox, work, counted>>

\* The whole list is written back, whatever was added since it was read.
NatureCommit(r) ==
  /\ claim[r].pc = "nature"
  /\ row' = [row EXCEPT !.asked = claim[r].asked]
  /\ Rest(r)
  /\ UNCHANGED <<now, stamp, flag, paid, inbox, work, counted>>

-----------------------------------------------------------------------------
Count(m) ==
  \/ Stamp(m) \/ Confirm(m) \/ CheckFraud(m) \/ OpenFraudFlag(m)
  \/ ReadBefore(m) \/ Upsert(m) \/ ReadAfter(m) \/ Persist(m) \/ Notify(m)
  \/ \E d \in {"VALIDATED", "REJECTED"} : ResolveFraudFlag(m, d)

Ask(r) ==
  \/ ClaimRead(r) \/ ClaimCommit(r) \/ NatureCommit(r)
  \/ \E t \in Natures : NatureRead(r, t)

Next == Tick \/ (\E m \in Missions : Count(m)) \/ (\E r \in Requests : Ask(r))

Spec == Init /\ [][Next]_vars

-----------------------------------------------------------------------------
(* Properties.                                                             *)

\* Every variable keeps its type (prisma/schema.prisma, models
\* ClientRewardProgress and RewardFraudFlag).
TypeOK ==
  /\ now \in 0 .. MaxTime
  /\ stamp \in [Missions -> 0 .. MaxTime \cup {None}]
  /\ flag \in [Missions -> {"NONE", "OPEN", "VALIDATED", "REJECTED"}]
  /\ row \in Row
  /\ paid \in Nat
  /\ inbox \subseteq Missions \X Message
  /\ work \in [Missions -> WorkSet]
  /\ claim \in [Requests -> ClaimSet]
  /\ counted \subseteq Missions

\* Whatever confirmations and decisions race, the cumulative margin is the sum
\* of the commissions of the missions counted, each once (accumulateMargin:
\* "deux confirmations strictement simultanées ne peuvent pas s'écraser").
MarginIsSum == row.margin = SumFunctionOnSet(Margin, counted)

\* The cost of the programme stays within the credit the margin gives, for the
\* credits shown and for the money paid, also when stale readings are written
\* back (rewards.config.ts, "borné par construction").
CreditsBounded ==
  /\ row.earned <= CreditsFor(row.margin)
  /\ paid <= CreditsFor(row.margin)
  /\ row.claimed <= CreditsFor(row.margin)

\* The ledger and the row agree on what was paid, whatever claims race
\* (claimCredits).
ClaimedIsPaid == paid = row.claimed

\* A mission that was flagged counts only once an administrator has validated
\* it, and a rejected one never does, however many of them decide
\* (openFraudFlag, resolveFraudFlag).
FlaggedWaits ==
  \A m \in Missions :
    flag[m] \in {"OPEN", "REJECTED"} => m \notin counted /\ work[m].pc = "done"
=============================================================================
