# Relio backend: a TLA+ model

Relio (Repairdom) is a NestJS server over PostgreSQL (Prisma). A client tops up
a wallet, describes a breakdown (a *demande*, here a mission), receives quotes,
accepts one, and confirms the work; users withdraw money; the provider SasPay
collects and pays out. The ledger `FinancialTransaction` is the only source of
truth for balances: *available = ledger − ACTIVE holds*, never stored. Around
the money stand the catalogue of repairs, the anonymous drafts, the accounts,
the loyalty programme, and the notifications.

This directory models what several requests, webhooks, timers, retries and
restarts can do to that state, checks it with TLC on small instances, and proves
the main results with TLAPS for every number of rows, requests and handlers.

## Inventory

| Component | State | Operations | Interacts with | Correct when |
|---|---|---|---|---|
| Top-up (`saspay-topup.service`, `financial.service` 1695-2141) | `TopupIntent`, `CLIENT_TOPUP` entries | create, initialise, verify, webhook, confirm, fail, cancel | SasPay, ledger, webhook | an intent is credited at most once, with the net SasPay collected, and what was collected is credited in the end |
| Payout (`saspay-payout.service`, `financial.service` 2154-2425) | `WithdrawalRequest`, `FundsHold`, `WITHDRAWAL` entries | create, initialise, verify, webhook, settle success, settle failure | SasPay, ledger, webhook | status, hold and debit agree; never overdrawn; money paid out is never given back |
| Webhook (`saspay-webhook.*`) | none of its own | dispatch of `transaction.*` events | top-up, payout | any order and any number of deliveries has the effect of one |
| Missions (`demandes.service`) | `Demande.status`, events | create, cancel, confirm | funds, disputes, quotes, catalogue, drafts | canceled is refunded, confirmed is paid once |
| Quotes and negotiation (`collaboration.service`) | `Quote`, diagnostic, negotiation mark, chat | create, catalogue diagnostic, negotiate, answer | missions, funds, catalogue | one accepted quote, backed by one hold |
| Disputes (`disputes.service`) | `DemandeDispute` | open, review | missions, funds | a dispute suspends the confirmation (it does not always, see *Findings*) |
| Money core (`financial.service` 154-432, 1554-1600) | ledger, holds | record, hold, settle, release, reverse, balances | all of the above | append-only, unique references, per-user lock |
| Catalogue (`admin/catalog.service`) | domains, brands, models, problems, diagnostics, interventions, tariffs, their journal, families, cities, zones | create, update, switch, delete, seed, lists, scales | requests, quotes | what is offered is accepted, nothing referred to is lost, prices are ordered and the journal is true |
| Drafts (`demande-draft.service`, throttle guard) | `DemandeDraft`, a map of running conversions, the hits of an address | create and purge, patch, read, convert | missions, storage | a token becomes one mission, and a quota holds |
| Accounts (`auth.service`) | `User`, reset attempts, cookies | register, log in, verify, reset, picture; deletion by an administrator | e-mail, storage, missions | no session outlives its password |
| Reminders (`verification-reminder.scheduler`) | `User`, a flag in memory | hourly sweep | e-mail | whoever waits is reminded, and mails are counted |
| Rewards (`rewards.service`) | progress of a client, fraud flags, `CLIENT_REWARD_CREDIT` entries | confirm, decide on a flag, claim | missions, ledger, notifications | a mission counts once, credits stay within the margin |
| Notifications, push, realtime | rows, the registry of SSE streams in memory, push endpoints | store, publish, push, subscribe, ping, evict | all of the above | no signal is missed, dead streams leave |
| Relio funds (`financial.service` 1408-1540) | `RelioWithdrawal` | withdraw, list | ledger | never more than the commissions acquired |
| Fees (`fee-calculator`, `financial-fees`, `saspay-fees`) | none | pure functions | money core | rounding, reconciliation of two scales |
| Reviews, catalogue v2, tracking, storage, e-mail, admin views, back-office agent, configuration | rows and external calls | mostly create, read, update | — | — |

What is hard here:

* **Interleaving.** Each HTTP request and each webhook delivery is its own
  promise chain; two of them meet between any two `await`s. PostgreSQL runs at
  READ COMMITTED, so a value read before a lock may be stale under it, and most
  handlers outside the money paths take no lock and no transaction at all.
* **The provider.** SasPay may accept a request whose answer never arrives,
  refuse a retry of the same idempotency key, announce a failure and then a
  success, repeat an event or never send it. The webhook always answers 200,
  also when its handler failed, so a lost effect is not delivered again.
* **Crashes** between the call to SasPay and the storage of its identifier,
  between the two transactions of a conversion, between a commit and its event.
* **Partial failure.** An exception thrown inside a transaction also takes back
  the status that was meant to record the failure; a mail, a push or an upload
  fails on its own.
* **State in memory.** The map of conversions, the hits of an address, the flag
  of the scheduler and the registry of streams vanish with the process.

This commit is in the middle of a refactoring: the migration
`20261031040000_remove_technician_and_dispatch` has dropped the technician of a
mission while services still select it. Handlers are modelled as written and as
the repository's tests exercise them, and the settlement is called without a
technician. No handler moves a mission to ACCEPTED, SCHEDULED, IN_PROGRESS or
COMPLETED any more; such rows exist, so missions start at any of these stages.

## Modules

| Module | What it is |
|---|---|
| `PayInContract` | abstract: SasPay collects once per payment, the ledger credits an intent at most once with what was collected |
| `Topup`, `MCTopup`, `Topup_proofs` | the top-up handlers; instances; theorems |
| `Wallet` | abstract: funds are reserved, then spent once or given back, and never exceed the credits |
| `Payout`, `MCPayout`, `Payout_proofs` | the withdrawal handlers of one user; instances; theorems |
| `Mission`, `MCMission`, `Mission_proofs` | missions, quotes, holds, debits and disputes of one client; instances; theorems |
| `Rewards`, `MCRewards`, `Rewards_proofs` | the loyalty programme of one client; instance; theorems |
| `Sessions`, `MCSessions` | sessions, password reset, picture and deletion of one account; instance |
| `Verification`, `MCVerification` | the verification of one account and the sweeps of the reminder scheduler; instances |
| `Catalogue`, `MCCatalogue` | the catalogue, the requests and quotes that refer to it, the public lists and scales; instance |
| `Admin_proofs` | theorems about `Catalogue` and `Sessions`, which share no state |
| `Intake`, `MCIntake`, `Intake_proofs` | drafts, their conversion, the quota and the files of a request; instance; theorems |
| `Delivery`, `MCDelivery` | notifications, events, web push and the registry of streams; instance |
| `Contact_proofs` | theorems about `Delivery` and `Verification`, which share no state |
| `DataTheorems` | what the other proofs need of sums over finite sets, of lists filtered one by one and of least elements |

The modules meet where the code does: `Intake` creates the request whose device
`Catalogue` checks and whose life `Mission` follows; `Mission`'s confirmation is
what starts a count in `Rewards`; `Delivery` carries what quotes, disputes and
rewards announce. They share no variable, since the services they model meet
in rows that one of them writes and the other only reads.

Operators marked *Mutant* stand beside the definition they vary: they are
plausible mistakes in that code, each of which makes a property fail.

### How state and actions correspond to the code

A **worker** (`call[w]`, `req[q]`) is one running handler: its program counter
and the local variables it has read. A handler is cut at every `await` on an
external service and between two statements of which the second trusts the
first. In the money paths, from `lockUserFunds` (`pg_advisory_xact_lock` per
user) to COMMIT only writers that wait for the same lock are met, so that part
is one step. A handler may stop for good at any cut.

*Topup.* `intent` is the `TopupIntent` row (status, `saspayTransactionId`,
`ledgerTransactionId`), `ledger` the `CLIENT_TOPUP` entries in creation order,
`payment` what SasPay knows and which final events it has emitted. The
idempotency key sent to SasPay is the intent's, so a payment is named by the
intent that opened it; two handlers of one intent reach the same payment. A net
amount of 0 stands for any payload the accounting controls refuse. `InitSend`,
`InitRefused`, `InitReply` and `InitStore` are the four points of
`initializeTopupPayment`; `VerifyRead` and `VerifyAnswer` those of
`verifyTopupPayment`; `Webhook` is `handleEvent`, for any emitted event, any
number of times, in any order. An event carries the payment id, the internal
reference, or both (`Carried`), and may come without amounts; `Crossed` says
which payments have events that name another intent (`NamedBy`).
`FailRead`/`FailWrite` are `failTopupIntent` and `cancelTopupIntent`, which read
and write without a transaction. `Confirm*` is `confirmTopupFromSasPay`: the
read and the controls; the search for another intent that used the payment
(`AlreadyUsed`), before the lock and only if the event carries the payment id
(`named`); and the locked rest. `Abort` ends a handler at any cut: a
retryable provider error, the 15 s timeout, a refused guard, a crash. Nothing in
memory survives it; committed writes do. `confirmTopupIntent` has no caller and
is left out.

*Payout.* The same cuts. `CreateWithdrawalRequest` is one step, as the balance
is read under the lock. `SettleRead`/`SettleCommit` and
`FailRead`/`FailCommit` cut the two settle transactions where they take the
lock: the status is not read again after it. The webhook finds a request by its
stored payout id only (`Known`). SasPay may refuse a call for good at any time
(`InitRefused`), also one whose key has opened a payout already: a retry with
another number, network or customer is a `409`, and access may be withdrawn
between two calls. `refused` remembers which requests have met a refusal.

*Mission.* `Held` are the quotes whose hold is ACTIVE; `Available` is the
client's balance. `Cancel` is one step, because its guarded `updateMany` locks
the mission row and every writer of the hold waits for it; `reversed` are the
debits it has given back. `RespondRead`/`RespondAccept` are the read of the
mission and the transaction that accepts, which does not look at the mission
again: an acceptance may come late. `ConfirmCheck` (the dispute) and
`ConfirmCommit` (claim and settlement) are two, because the insert of a dispute
takes no lock that conflicts; `ReviewRead`/`ReviewCommit` likewise. The quotes a
new quote replaces are those pending when `updateMany` ran, perhaps some that
came before COMMIT. The branch of `holdClientAtAcceptance` that returns an
existing hold is kept though a mission with a hold never gets there.
`debitClientAtAcceptance`, `reserveFunds`, `releaseHold` and `consumeHold` have
no callers.

*Rewards.* `row` is `ClientRewardProgress`, `paid` the client's one
`CLIENT_REWARD_CREDIT` entry, `work[m]` the confirmation of mission `m` and the
count that follows. `accumulateMargin` is no transaction and is cut at each of
its statements: `ReadBefore`, `Upsert` (the increment), `ReadAfter`, `Persist`
(what is derived from that reading), `Notify`. `CheckFraud` looks for an earlier
confirmed mission with the same technician; the technician is still selected by
the service though the schema has dropped it. A tier is named by the margin it
takes. `ResolveFraudFlag` and the commits of the two claims are conditional
writes and so one step each.

*Sessions.* `user` is the row, `attempts` the reset attempts of the last hour,
`sessions` the cookies ever signed with the version they carry and the password
that opened them. `ForgotCount`, `ForgotRecord`, `ForgotIssue`, `MailLink` are
the four awaits of `requestPasswordReset`; `ResetRead`/`ResetCommit`,
`AvatarUpload`/`AvatarPoint`/`AvatarRemove` and
`DeleteCount`/`DeleteErase`/`DeleteDeactivate` the others; `Dependencies` is
what the deletion counts. `verifyToken` (`Accepted`) compares the version of the
cookie with that of the row.

*Verification.* One account from its registration; the clock counts days, since
the windows of the scheduler are two hours around a day and the gap it requires
is 20 hours. `SweepBegin` raises the flag `running`, `SweepSelect` runs the
query (`Selected`), then each account takes `SweepCheck`, `SweepRenew`,
`SweepMail` and `SweepCount`; `Fault` is the database or the mailer failing at
any of them. A sweep begins on every day: the timer fires each hour, and a mail
is given up after ten seconds.

*Catalogue.* The tables are one forest of rows, each of a kind (`Kind`,
`Parent`, `Line`); `label` is the name where only the application checks it and
the slug where an index does (`Indexed`). Each request makes one call, in two
steps: what it reads and checks, then what it writes. `Manage` is the table of
routes of `CatalogController`; `Blocked` what `deleteOrDeactivate` counts, table
by table (`Counted` for cities, where users count too); `Vanish` what the
foreign keys' cascade and set-null remove. A deleted tariff may be created
again, with a new id and a journal of its own. `Accepts` is `resolveDevice` and
`resolveDemandeGeo` on the identifiers of a body (`NamedPlace` a place given as
text, `ChosenPlace` one chosen by its identifiers), `Bodies` the bodies.
`Public*` are the public lists, `DiagnosticScale` and `ProblemScale` the
aggregates, `Suggested`/`Fits` the two sides of a technician's choice. The seed
writes row by row and may stop anywhere. `torn` remembers the rows written
although what the handler had checked no longer held: the code takes no lock
there, and the properties say what holds of all other rows.

*Intake.* `draft[t]` is the row of a token, `demande[q]` what request `q`
created, `conversions` the map in memory that serialises the conversions of one
token, `hits` the guard's list for one address. `CreateCommit` and `MarkCommit`
are the two transactions of a conversion; `CreateCollides` a reference drawn
twice, retried `MaxAttempts` times; `InsertFails` a draft that is not created
after its purge has been; a direct creation may commit and lose its answer.
`Crash` empties the map and the hits. `torn` are the requests that were created
and whose client was told of a failure, and the conversions that began after
another one had marked the draft they had read.

*Delivery.* One process. `subs` is the registry in insertion order, `stream`
the connections seen from the client, `notice` a thing worth telling with the
progress of its handler: `Store` (the business transaction and its row),
`Announce` (event and decision to push), `ListDevices`, `SendNotification` once
per endpoint. A client may have several mission streams waiting for their
check at once. `StreamTechnician` listens to the available missions and to its
user's channel; nothing is published on the former, so it hears what a user's
stream hears. An administrator may be party of a mission too (an account that
was promoted). `Bury` stands for the fifty newer notifications that push one out
of the list (`take: 50`); `ListDevices` may find no keys of the push configured
or fail to read the list. The client's screens, `EventSource` and its fetches are
external: it fetches when it hears an event and when a stream opens. `Crash`
loses the registry, the streams and the handlers that were running.

## Runs

| Run | Instance | Shows |
|---|---|---|
| `topup_concurrent` | 2 intents, 2 handlers, events of one payment may name the other intent | the books of the top-ups are sound, credits go home, the contract is implemented |
| `topup_live` | 1 intent, 2 handlers, fair | what SasPay collected is credited in the end |
| `payout_concurrent` | 2 requests the wallet cannot both pay, 2 handlers, refusals at any time, fair | status, hold and debit agree; debits and payouts answer for each other; wallet implemented; paid out is debited in the end |
| `mission_concurrent` | 2 missions, 3 quotes, 2 requests at a time | holds are backed by acceptances and consumed by debits; one payment per mission; money has a reason to be where it is; never overdrawn but by a debit whose hold a dispute had released |
| `mission_dispute` | the same | **violation**: a mission is confirmed while its dispute is open |
| `rewards` | 2 missions of one technician, 2 requests, 1 tick | margin is the sum of what was counted, credits within the margin, row and ledger agree, flags wait |
| `sessions` | 2 requests, 2 passwords, 3 pictures, 1 link, 1 demande | no session of an old password, the picture exists |
| `verification` | 1 window, 2 requests, 1 failure, fair | once an account is selected: mails are counted, sweeps go on |
| `verification_windows` | the 3 windows of the source | **violation**: nobody is ever reminded |
| `catalogue` | 13 rows, 5 openings, 3 calls | tariffs, journal and scales tell the truth; the forest and the requests fit; offers are accepted; nothing is lost |
| `intake` | 1 token, 4 calls, 1 restart | one request per token, success spends the token, a live map, files kept, quota kept, traces kept |
| `delivery` | 1 account, quota 1, 2 streams, 2 devices, 1 notice, fair | registry and connections agree, notices reach, nothing missed, dead streams leave |

### Findings

* `verification_windows`: the selection of `verification-reminder.scheduler.ts`
  146 puts the conditions of the windows under `AND`, so an account would have to
  be in three disjoint windows with three different counts of reminders at once.
  `verification` therefore says nothing of the configuration that runs: with one
  window, which the code never has, it shows how a reminder is sent and counted
  once an account is selected.
* `mission_dispute`: the comment of the confirmation
  (`demandes.service.ts` 462-465) calls a dispute opened meanwhile impossible,
  because the check is inside the transaction. `openDispute`
  (`disputes.service.ts` 94) has read the mission before, and its insert waits
  only for a key lock, which the confirmation's update does not take away. The
  dispute stands OPEN on a mission that is paid.

**Bounds.** Two intents, requests or missions are needed for what they compete
for (one payment, one balance), and two handlers for a race; no handler waits
for a third, and a race needs one stale read and one write. Two amounts, 3 and
2, against credits of 4: each fits alone and both together do not. Quotes are
bounded by `Quotes` (rows that exist or may be created); two on one mission are
the least that can be accepted together. Retries, refusals and deliveries of
SasPay repeat without bound. In `rewards` the margins 2 and 2 cross the tranche,
the nature at 2 and the tier at 4, and the window of 2 makes the second
confirmation suspect. In `sessions` three pictures let two uploads each remove
one that came before. `verification` has time for a link to die (`Ttl = 1`,
`MaxTime = 2`) and for a failure in any step. `catalogue` has three calls
because a stale check needs a reader, a writer that overtakes it, and a third
that relies on the result; five openings stand for a complete catalogue, a seed
that stopped halfway, two interventions of which one has no tariff, a catalogue
without problems, and a city with a zone; the amounts are `min`, `reference` and
`service` (a fee outside the order), so that an order, an aggregate of missing
prices and a tariff of a fee alone occur. `intake` needs two conversions, a
patch and a creation, one restart, and quotas of 1 and 2 calls in a window of 2
ticks, which four calls reach. `delivery` has one stream more than the quota,
and a second device behind one that fails. Clocks (`MaxTime`), links, pictures,
restarts and failures are bounded in the guards by the constants named after
them.

**Deadlock** is not checked where the system may rest: when every payment has
ended, every call has been made, or the bounded clock has stopped.

**Fairness.** *Money:* every started handler ends (`WF` on `Step`), as each
provider call has a timeout (`SASPAY_REQUEST_TIMEOUT_MS`, 15 s) and each
transaction ends. The client keeps asking for verification of what is not
SUCCESS (the result page polls), and the server does not cut short every one of
these calls: strong fairness on each step of the verification of one intent or
request, by some worker. No fairness is assumed of SasPay or of the webhook,
which may never deliver anything. *Reminders:* the clock runs, the timer fires
(`setInterval`), a sweep goes on; nothing obliges a client to open a link, nor a
request to end. *Delivery:* the timer of the module pings as long as the process
runs, so that a ping comes to each connection that was destroyed unnoticed, and
Node reports a request that is over to the listeners it has. Nothing obliges a
ping to be refused by a connection that is alive.

## Proofs

`Topup_proofs` proves, from `TopupAssumption` alone (any sets of intents and
workers, any nets, any misdirected events):

* `TypeCorrect`, `CreditsSound`, `CreditsAreAppendOnly`: by the inductive
  invariant `Base /\ Credits`. That an intent is credited once is not
  inductive, since a worker at `confirm.commit` carries a net it read earlier:
  `CallsOK` says that such a worker's net is that of a payment that has
  succeeded, and `SentOK` which payments can have been announced; a succeeded
  payment never changes again. By `Confirmed`, a handler that writes a status
  other than SUCCESS carries an outcome of SasPay that is not SUCCESS.
* `TopupImplementsContract`: every step of `Topup` is a `Collect`, a `Settle` or a
  stutter of `PayInContract`.
* `MoneyGoesHome`, for any `Crossed`: a credit is paid by the payment of its own
  intent or by one whose event named it. The invariant adds that what a call
  carries, and what a row has stored as its payment, is named so too; hence a
  payment whose events name its own intent alone has one intent to credit, which
  `AtMostOneCredit` credits once.

`Payout_proofs` proves, from `PayoutAssumption` (any sets of requests and
workers, any amounts, any credits):

* `TypeCorrect` and `OneDebitOfPaid`: by the inductive invariant `Base`, that is
  `TypeOK`, `DebitedOncePaid` and `CallsOK` (a worker about to settle has seen
  SUCCESS, and SUCCESS is final at SasPay).
* `FundsAgree` and `PayoutsAnswered`: by `Base /\ Agree`. The two settle
  transactions trust a status read before their lock. `Agree` adds what keeps
  them apart unless SasPay has both refused and paid a request: a worker about to
  fail one carries a final outcome of SasPay or the request is in `refused`. For
  such requests it keeps what remains true: frozen exactly while PENDING, debited
  if shown as SUCCESS.
* `PayoutImplementsWallet`: each step is a `Reserve`, `Spend`, `Release`,
  `Dispute`, `SpendLate` or stutter of `Wallet`; `SpendLate`, a debit of what was
  given back, is for disputed claims only.
* `PayoutNeverOverdrawn` is inherited: that `Wallet` is overdrawn by nothing but
  what was spent late is an invariant of `Wallet` alone (a lemma, where the sums
  are moved by `SumAdd` and `SumRemove`), and every behaviour of the handlers is
  one of `Wallet`.

`Mission_proofs` proves, from `MissionAssumption` (any missions, quotes, prices
and number of concurrent requests), `HoldsBacked` and `MissionPaidOnce`, by the
inductive invariant `Typed /\ Money`. It adds that a mission has one accepted
quote at most and that only this one is debited (`AcceptedOnce`, the partial
unique index), and what a request cut before its commit works on (`GoodCall`).
Neither depends on the balance, so there the sums stay unexpanded.

`ReasonsHold` and `WalletNeverOverdrawn` hold for the same, with any number of
concurrent requests. The first adds to `Typed /\ Money` what a release and a
confirmation leave behind, and that a late acceptance does not disturb it. The
second follows what each step does to three sums, of the holds, of the debits and
of the debits without a hold (`SumSplit`): an acceptance has found the price
available, a settlement turns a hold into a debit of the same quote, and a debit
after a release is counted apart.

`Rewards_proofs` proves, for any missions, requests, margins, tiers and
tranches: `FlagDecides` (the place where a mission stands in its count
determines whether its flag lets it through), `PaidAsClaimed` (a conditional
write moves row and ledger together), and `CostBounded`: what a handler has read
is never above what the margin gives now, as the margin only grows and
`CreditsFor` is monotone, which is proved from the division by hand.

`Admin_proofs` proves, about `Sessions`, for any requests and passwords:
`SessionsTyped`; `NoStaleSession` (the version of every cookie, signed or about
to be, is at most the row's, and equal only if its password is the row's);
`PictureStays` (an upload that is about to remove a picture removes one that no
row shows and none is about to show).

About `Catalogue` it proves, for any forest of rows, prices, openings and calls
(`RowsAssumption`, `PricesAssumption`, `OpeningsAssumption`), `CatalogueTyped`,
`CatalogueTariffsTell`, `CatalogueFits` and `KeepsOnPurpose`.
The handlers are many but write in few ways. Each step is first reduced to one
of three: a call that only reads (`Reading`), the creation of a customer's request
(`Demanded`), or `Settled /\ Written`, where `Written` names the kinds of write: a
row made, relabelled, anchored anew, switched or deleted, a tariff changed, a
quote made. The facts below are then proved once per kind of write:

* `Inv` joins `TypeOK`, `CatalogueCoherent`, the order of prices and the journal
  with three facts that make them inductive: what each call carries from its
  check to its write (`Calls`), that a row of the catalogue has its parent
  (`Rooted`), and that only problems have an anchor (`Bare`).
* What a call checked may no longer hold when it writes. Each kind of write states
  what it keeps nevertheless, and that the row enters `torn` if its check was
  stale: `CatalogueCoherent` and the journal then hold of all the other rows.
* `TariffsTell` follows from `Inv` and the least of a finite set of prices
  (`LeastNumber`).
* `NothingLost`, an action property, rests on `LiveChild`: if a deletion takes any
  row below the deleted one, a row lies right under the latter, where the count
  that guards the deletion sees it unless it was taken before.

`Contact_proofs` proves, about `Delivery`, for any accounts, connections, devices,
notices and quota, `DeliveryTyped`, `RegistryAgrees`, `NoticesArrive` and
`SignalsArrive`. Its invariant `Inv` joins four:

* `Typed`: the registry holds no stream twice. Without it, to count the streams
  of an account in the list and in the set would give two numbers.
* `Quota` and `Linked`: a connection and the registry agree at each of the places
  where one of them may be lost (the client gone unnoticed, the destroyed socket,
  the refused ping).
* `Worked`: what the handler of a notice has already done at each place of its
  program, with the devices still to be tried.
* `NothingMissed` is then inductive with those: a signal is followed from the
  handler to the stream and to the fetch, and a stream that opens is due a fetch.

`Without` and `Oldest` are written as a recursive function and as a choice of an
index, so that the proofs can follow them one member at a time.

About `Verification` it proves, for any windows and lifetimes,
`VerificationTyped` and `RemindersCounted`, from what a sweep
at each of its places has read and what of it is still true. The names of
`Verification` that `Delivery` also has (`VerificationSpec` and so on) are longer
for that module's sake: it extends both.

`Intake_proofs` proves, for any tokens, calls and quotas: `FollowersAnswered`
(map and handlers agree), `OneDemande`, `SuccessMarked` and `TokenSpent` (one
invariant on the draft, its conversion and the requests made from it, up to
`torn`), `FilesRemain`, and `QuotaKept`: the hits of a route that are accepted
within a window are among those the guard still remembers, because it forgets
only what has left the window.

Each of these modules also proves that every reachable state is well typed
(`TypeCorrect`, or a longer name where a module extends two), so that most runs
leave the type invariant out.

**Induction over data.** The induction theorems of the library take an operator
as a parameter, which no prover here instantiates. `DataTheorems` therefore
states induction over sets: `Induction` and `SubsetInduction` say that a set of
numbers, or of subsets of a finite set, that is closed under the step is
everything. From these it proves what the models compute with: the sum of a
finite set of amounts (`SumAdd`, `SumRemove`, `SumSplit`, `SumMonotone`),
defined by the library as a fold, and a list filtered by a recursive function
(`FilterProperties`, `DistinctCounts`).

Only model-checked: the four liveness properties (`PaidIsCredited`,
`PaidOutIsDebited`, `SweepsGoOn`, `DeadLeave`), since fairness needs ENABLED,
which the installed provers do not treat; and `OfferIsAccepted`, which relates two
sets of conditions on one state, whatever the history of that state. Every other
invariant and action property that a run expects to hold is also a theorem.

## Known limits of the code

Writing the models showed the following. The properties above are stated so
that they hold beside it: a property says in its own words what it excepts (a
payment whose events name another intent, a request SasPay has both refused and
paid, a debit after a decision, the rows and requests in `torn`), or the
behaviour is not promised by any. Two runs are narrower than the code:
`topup_live` has one intent and so no misdirected event, and `verification` has
one window.

*Money.*

* A late failure overwrites SUCCESS. `failTopupIntent` and `cancelTopupIntent`
  read the status and update the row by its reference alone
  (`financial.service.ts` 2070), though the comment says « un SUCCESS existant
  n'est JAMAIS muté » (2058). The credit stands; `Topup` has the steps.
* A refused payment stays PENDING: `fail()` writes FAILED in the transaction it
  then aborts (1908); the test that expects FAILED runs on a double that does
  not roll back.
* One payment may credit two intents when an event names a foreign intent: the
  search for an earlier use (1999, « anti-double-consommation », 1965) precedes
  the lock (2011), and is skipped when the event lacks the payment id. The
  payment may also be spent on the foreign intent alone, and its own remain
  without credit.
* A refusal of a retry releases the hold of a payout that the first attempt has
  opened (`saspay-payout.service.ts` 113-128, 191; `financial.service.ts` 2320):
  only a lost answer is taken for a payout that may exist (204-206). Success and
  failure may then both be settled (2309, 2412), in either order. The released
  money may be reserved again, so that *available* becomes negative when the
  payout is debited late.
* An acceptance that read an open mission may create the hold of a canceled or
  confirmed one (`collaboration.service.ts` 523), which only a decision on a
  dispute could still give back. A dispute may be opened on a mission that is
  being confirmed (*Findings*). Two administrators may decide one dispute, the
  second over the first (`disputes.service.ts` 276, against « terminaux
  immuables », 250). A mission may be debited after a RESOLVED decision released
  its hold (`financial.service.ts` 385), which may overdraw the wallet by that
  price.
* What a withdrawal debits is the net amount, where three comments promise the
  charged one (`saspay-payout.service.ts` 224).

*Rewards.* Tiers and natures derived from a stale reading may be written back
lower and announced again. The reference of a claim is `reward-credit:<user>`,
so a client can claim only once ever.

*Accounts.* The deletion counts the client's requests and erases the account in
another statement (`admin.service.ts` 304): a request created in between goes
with the cascade, against « l'historique … n'est jamais détruit » (283-285). The
limit of three reset mails an hour (`auth.service.ts` 44-45, 314) is exceeded by
requests that count together before any of them is recorded (328). The life of a
reminder's link is counted from the start of the sweep (scheduler 207), so what
a slow sweep mails last lives that much shorter. A reminder whose mail failed is
counted all the same: `email.service.ts` 362-365 swallows the failure, though
the scheduler's comment (229-232) says otherwise.

*Catalogue.* The slug of a domain is written as it comes (163); names have no
index behind their check; tariffs of the seed have no journal; the seed,
« non destructif », overwrites the name and description of the domain
(1321-1330). `listPublicProblems` builds an object with two `OR` keys of which
the second wins (499-518): with a model given, the brand is no filter, and a
problem of another brand is listed that a request cannot take
(`OfferIsAccepted` excepts it). A tariff without minimum may be quoted below
the minimum of its scale, and a diagnostic whose tariff is inactive is still
suggested. A place given as text may be attached to a zone of an inactive city.

*Drafts.* A restart between the two transactions of a conversion leaves a draft
that makes a second request: the comment at 285-289 accepts it, the one at 227-228
says a token makes one. A conversion that read the draft before another one
finished, and asks the map after, does so too (243-249 count on the map). A patch
that overlaps a conversion is answered as done and kept in the draft, and the
request does not show it (321-324: to write on a converted draft « est interdite
pour toujours »). Files are removed after an error answer even when the request
was created. A patch or a reading counts in the same list of hits as a
creation, and a creation can be refused for them. The branch 239-241 is dead:
`loadUsable` has already refused a converted draft with 409.

*Delivery.* A ping that a slow stream refuses unregisters it without ending the
answer (`realtime.service.ts` 184-192), so its client waits on a stream that
says nothing, against `docs/REALTIME.md` 38, « Aucun message perdu ». A write
that returns `false` has been buffered and is delivered, though the comment
calls it abandoned. `hasActiveConnection` counts streams that are dead or of one
mission, so a push may be skipped that nobody sees instead. The quota counts
streams of both channels together. Rewards are pushed and published though
their row could not be stored. `unregisterAllForUser` has no caller.

## Not modelled

* *Relio funds*: every writer takes one advisory lock, so that no interleaving is
  left to check; the rest is a sum.
* *Fees*: arithmetic on the numbers of one call.
* *Reviews*: one row per mission, unique by an index, to which nothing refers.
* *Catalogue v2* (`src/src/catalog`): tables of their own, to which no request
  or quote refers yet.
* *Back-office agent*: reads, and an external language model.
* *E-mail templates, configuration, health, filters, database client*: text and
  plumbing. Of e-mail, only that a mail leaves or fails and the link it carries.
* The text of chat messages, lists and detail views, reading marks of
  notifications, the journal of positions, signed addresses of files, the
  signature check and decoding of webhooks, the profile form, the strength of
  passwords, the limit by IP address of a reset, texts, icons and orders of
  display of the catalogue, and the resolution of a device or place given as
  text: data that no property tells apart.
* Amounts other than those a property needs. In `Catalogue` the reads of one
  `resolveDevice` are taken together.
* The wallet as a whole: withdrawals, mission holds and reward credits of one user
  share a balance, and each model gives its own part credits that do not move.

## Plan

1. `RelioFunds`, then catalogue v2 once requests refer to it: each with its
invariants proved as well as checked. 2. Refinements of `Rewards` and `Mission`
against ledgers of the kind of `Wallet`, so that what they promise the client is
stated apart from how they keep it.
