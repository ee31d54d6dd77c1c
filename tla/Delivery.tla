------------------------------ MODULE Delivery ------------------------------
(* How a user learns what happened: the notification (or message) row that *)
(* a business transaction stores, the event written to the SSE streams of  *)
(* the process after the commit, and the web push sent when the user has   *)
(* no stream.  The event is a signal: the client fetches the list again    *)
(* when it hears one and each time a stream opens.  One mission; streams   *)
(* live in the memory of one process, which may restart.                   *)
EXTENDS Integers, FiniteSets, Sequences, Functions

CONSTANTS
  Users,      \* the accounts
  Parties,    \* those who have access to the mission
  Staff,      \* the administrators, who may be parties too
  Streams,    \* slots for the connections a client holds at a time
  Owner,      \* the user who uses a slot
  Endpoints,  \* push endpoints of browsers
  Notices,    \* the things worth telling
  Limit,      \* REALTIME_MAX_CONNECTIONS_PER_USER
  None

ASSUME DeliveryAssumption ==
  /\ Parties \subseteq Users /\ Staff \subseteq Users
  /\ Owner \in [Streams -> Users]
  /\ Limit \in Nat \ {0}
  /\ None \notin Users

VARIABLES
  screens,  \* the screens a client has open, each with a stream of its own
  stale,    \* the client has a fetch to do
  seen,     \* what the client has fetched
  stream,   \* the connections
  subs,     \* the registry of RealtimeService, in insertion order
  notice,   \* the notices and the work of their handlers
  device    \* push_subscriptions: the account of each endpoint

vars == <<screens, stale, seen, stream, subs, notice, device>>

Channels == {"user", "mission"}

\* What is worth telling; a dispute stands for the tariffs of the catalogue too,
\* a message for a new status of the mission, and a test for a push on demand.
Kinds == {"quote", "negotiation", "message", "reward", "dispute", "test"}

\* The channels a handler publishes on once its transaction has committed, and
\* whether it goes on with a push.
OfQuote       == [on |-> {"user", "mission"}, push |-> TRUE]
OfNegotiation == [on |-> {"user", "mission"}, push |-> FALSE]
OfMessage     == [on |-> {"mission"}, push |-> FALSE]
OfReward      == [on |-> {"user"}, push |-> TRUE]
OfDispute     == [on |-> {}, push |-> FALSE]
OfTest        == [on |-> {}, push |-> TRUE]

Of(k) ==
  CASE k = "quote"       -> OfQuote
    [] k = "negotiation" -> OfNegotiation
    [] k = "message"     -> OfMessage
    [] k = "reward"      -> OfReward
    [] k = "dispute"     -> OfDispute
    [] k = "test"        -> OfTest

Published(k) == Of(k).on
Pushed(k)    == Of(k).push

StreamRow == [chan : Channels, link : {"down", "asking", "left", "up"},
              wire : BOOLEAN, deaf : BOOLEAN, refused : BOOLEAN]
Down == [chan |-> "user", link |-> "down", wire |-> FALSE,
         deaf |-> FALSE, refused |-> FALSE]

NoticeRow ==
  [to : Users \cup {None}, kind : Kinds,
   pc : {"none", "stored", "list", "send", "done", "lost"}, row : BOOLEAN,
   old : BOOLEAN, rung : BOOLEAN, created : BOOLEAN, left : SUBSET Endpoints, sent : BOOLEAN]
Unsaid ==
  [to |-> None, kind |-> "test", pc |-> "none", row |-> FALSE,
   old |-> FALSE, rung |-> FALSE, created |-> FALSE, left |-> {}, sent |-> FALSE]

Registered == Range(subs)
Mine(u)    == {s \in Registered : Owner[s] = u}

\* The registry without the streams of S, in the same order.
Without(S) ==
  LET kept[i \in 0 .. Len(subs)] ==
        IF i = 0 THEN <<>>
        ELSE IF subs[i] \in S THEN kept[i - 1] ELSE Append(kept[i - 1], subs[i])
  IN  kept[Len(subs)]

Init ==
  /\ screens = [u \in Users |-> {}]
  /\ stale = [u \in Users |-> FALSE]
  /\ seen = [u \in Users |-> {}]
  /\ stream = [s \in Streams |-> Down]
  /\ subs = <<>>
  /\ notice = [n \in Notices |-> Unsaid]
  /\ device = [e \in Endpoints |-> None]
-----------------------------------------------------------------------------
(* The client.                                                             *)

ShowScreen(u, c) ==
  /\ c \notin screens[u]
  /\ screens' = [screens EXCEPT ![u] = @ \cup {c}]
  /\ stale' = [stale EXCEPT ![u] = TRUE]
  /\ UNCHANGED <<seen, stream, subs, notice, device>>

\* A link that ends.  The server is told by a close event, or has not yet a
\* listener for it, or only a later write finds out; a slot that it does not
\* know is free.
Ended(s) ==
  CASE stream[s].link = "asking" -> [stream[s] EXCEPT !.link = "left"]
    [] s \in Registered -> [stream[s] EXCEPT !.link = "down", !.wire = FALSE]
    [] OTHER -> Down

HideScreen(u, c) ==
  /\ c \in screens[u]
  /\ screens' = [screens EXCEPT ![u] = @ \ {c}]
  /\ stream' = [s \in Streams |->
       IF Owner[s] = u /\ stream[s].chan = c /\ stream[s].link \in {"asking", "up"}
       THEN Ended(s) ELSE stream[s]]
  /\ UNCHANGED <<stale, seen, subs, notice, device>>

Sever(s) ==
  /\ stream[s].link \in {"asking", "up"}
  /\ stream' = [stream EXCEPT ![s] = Ended(s)]
  /\ UNCHANGED <<screens, stale, seen, subs, notice, device>>

\* What was written, an event or ": connected", reaches the client.
Hear(s) ==
  /\ stream[s].wire
  /\ stream' = [stream EXCEPT ![s].wire = FALSE]
  /\ stale' = [stale EXCEPT ![Owner[s]] = TRUE]
  /\ UNCHANGED <<screens, seen, subs, notice, device>>

\* The messages of the mission, and the page of the newest notifications.
Fetch(u) ==
  /\ stale[u]
  /\ screens[u] # {}
  /\ seen' = [seen EXCEPT ![u] =
                {n \in Notices : notice[n].row /\ notice[n].to = u /\ ~notice[n].old}]
  /\ stale' = [stale EXCEPT ![u] = FALSE]
  /\ UNCHANGED <<screens, stream, subs, notice, device>>
-----------------------------------------------------------------------------
(* The registry of streams.                                                *)

\* A slot whose connection is over and forgotten.
Free(s) == s \notin Registered /\ stream[s].link = "down"

\* What is left of a connection that leaves the registry.
Forgotten(s) == IF stream[s].link = "down" THEN Down ELSE stream[s]

\* The first registered of the user's streams is the oldest.
Oldest(u) ==
  subs[CHOOSE i \in DOMAIN subs : /\ Owner[subs[i]] = u
                                  /\ \A j \in 1 .. i - 1 : Owner[subs[j]] # u]

\* Mutant: the stream that is evicted is only forgotten.
EvictedForget(u) ==
  IF Cardinality(Mine(u)) < Limit
  THEN [out |-> {}, closed |-> {}]
  ELSE [out |-> {Oldest(u)}, closed |-> {}]

\* Mutant: the quota is tested with >.
EvictedLate(u) ==
  IF Cardinality(Mine(u)) <= Limit
  THEN [out |-> {}, closed |-> {}]
  ELSE [out |-> {Oldest(u)}, closed |-> {Oldest(u)}]

\* Over the quota, the oldest stream is ended and leaves the registry.
Evicted(u) ==
  IF Cardinality(Mine(u)) < Limit
  THEN [out |-> {}, closed |-> {}]
  ELSE [out |-> {Oldest(u)}, closed |-> {Oldest(u)}]

\* The stream is registered after the eviction and greeted.
Subscribe(s, c, alive) ==
  LET gone == Evicted(Owner[s])
  IN  /\ subs' = Append(Without(gone.out), s)
      /\ stream' = [t \in Streams |->
           IF t = s THEN [chan |-> c, link |-> IF alive THEN "up" ELSE "down",
                          wire |-> alive, deaf |-> ~alive, refused |-> FALSE]
           ELSE IF t \in gone.closed THEN Down
           ELSE IF t \in gone.out THEN Forgotten(t) ELSE stream[t]]

StreamUser(u, s) ==
  /\ Owner[s] = u
  /\ "user" \in screens[u]
  /\ Free(s)
  /\ Subscribe(s, "user", TRUE)
  /\ UNCHANGED <<screens, stale, seen, notice, device>>

\* The stream of the available missions, for administrators: nothing is
\* published on its own channel, and it hears what a user's stream hears.
StreamTechnician(u, s) == u \in Staff /\ StreamUser(u, s)

\* The mission is read first; the client may leave meanwhile, and ask again.
StreamMission(u, s) ==
  /\ Owner[s] = u
  /\ "mission" \in screens[u]
  /\ Free(s)
  /\ stream' = [stream EXCEPT ![s] = [Down EXCEPT !.chan = "mission", !.link = "asking"]]
  /\ UNCHANGED <<screens, stale, seen, subs, notice, device>>

\* The close event of a client that has left came before its listener.
StreamMissionRead(s) ==
  /\ stream[s].link \in {"asking", "left"}
  /\ IF Owner[s] \in Parties
     THEN Subscribe(s, "mission", stream[s].link = "asking")
     ELSE stream' = [stream EXCEPT ![s] = Down] /\ UNCHANGED subs
  /\ UNCHANGED <<screens, stale, seen, notice, device>>

\* The close or error event of a request.
Unsubscribe(s) ==
  /\ s \in Registered
  /\ stream[s].link = "down"
  /\ ~stream[s].deaf
  /\ subs' = Without({s})
  /\ stream' = [stream EXCEPT ![s] = Forgotten(s)]
  /\ UNCHANGED <<screens, stale, seen, notice, device>>

\* Mutant: a write that fails on a dead connection is taken for a success.
PingAllTrusting ==
  \E R \in SUBSET {s \in Registered : ~stream[s].deaf} :
    /\ subs' = Without(R)
    /\ stream' = [s \in Streams |->
         IF s \in R /\ stream[s].link = "up"
         THEN [stream[s] EXCEPT !.refused = TRUE]
         ELSE IF s \in R THEN Down ELSE stream[s]]
    /\ UNCHANGED <<screens, stale, seen, notice, device>>

\* A stream whose write is refused is forgotten and not ended: also one that
\* is only slow.  A connection already destroyed always refuses.
PingAll ==
  \E R \in SUBSET Registered :
    /\ \A s \in Registered : stream[s].deaf => s \in R
    /\ subs' = Without(R)
    /\ stream' = [s \in Streams |->
         IF s \in R /\ stream[s].link = "up"
         THEN [stream[s] EXCEPT !.refused = TRUE]
         ELSE IF s \in R THEN Down ELSE stream[s]]
    /\ UNCHANGED <<screens, stale, seen, notice, device>>
-----------------------------------------------------------------------------
(* A notice: its transaction, the event, the push.                         *)

Put(n, r) == notice' = [notice EXCEPT ![n] = r]

\* The transaction commits.  A reward whose row cannot be stored is told all
\* the same; a test is a push and nothing else.
Store(n, u, k) ==
  /\ notice[n].pc = "none"
  /\ k = "message" => u \in Parties
  /\ \E row \in BOOLEAN :
       /\ k \in {"quote", "negotiation", "message", "dispute"} => row
       /\ k = "test" => ~row
       /\ Put(n, [Unsaid EXCEPT !.to = u, !.kind = k, !.row = row,
                                !.pc = IF k = "test" THEN "list"
                                       ELSE IF k = "dispute" THEN "done" ELSE "stored"])
  /\ UNCHANGED <<screens, stale, seen, stream, subs, device>>

\* Newer notifications of the user, as many as the list holds, push it out.
Bury(n) ==
  /\ notice[n].row /\ ~notice[n].old
  /\ notice[n].kind # "message"
  /\ Put(n, [notice[n] EXCEPT !.old = TRUE])
  /\ UNCHANGED <<screens, stale, seen, stream, subs, device>>

\* Mutant: the user's channel is that of the one who acts.
HearingOthers(n) ==
  {s \in Registered :
     /\ stream[s].chan \in Published(notice[n].kind)
     /\ stream[s].chan = "user" => Owner[s] # notice[n].to}

\* The streams an event is written to.
Hearing(n) ==
  {s \in Registered :
     /\ stream[s].chan \in Published(notice[n].kind)
     /\ stream[s].chan = "user" => Owner[s] = notice[n].to}

\* Mutant: the push is decided by the streams of the mission alone.
SkipByMission(n, X) ==
  \E s \in Mine(notice[n].to) \ X : stream[s].chan = "mission"

\* hasActiveConnection, at the end of the turn that has published.
Skip(n, X) == Mine(notice[n].to) \ X # {}

\* Mutant: the event "notification.created" does not look at the row.
CreatedTold(n) ==
  \E s \in Hearing(n) : stream[s].chan = "user" /\ Owner[s] = notice[n].to

\* "notification.created" goes to the user's channel, for a stored row.
Created(n) ==
  /\ notice[n].row
  /\ \E s \in Hearing(n) : stream[s].chan = "user"

\* Publication and the test before the push are one turn of the event loop.
\* X: dead connections whose write throws.
Announce(n) ==
  /\ notice[n].pc = "stored"
  /\ \E X \in SUBSET {s \in Hearing(n) : stream[s].link = "down"} :
       /\ subs' = Without(X)
       /\ Put(n, [notice[n] EXCEPT
            !.rung = \E s \in Hearing(n) \ X : Owner[s] = notice[n].to,
            !.created = Created(n),
            !.pc = IF Pushed(notice[n].kind) /\ ~Skip(n, X) THEN "list" ELSE "done"])
  /\ stream' = [s \in Streams |->
       IF s \in Hearing(n) /\ stream[s].link = "up" THEN [stream[s] EXCEPT !.wire = TRUE]
       ELSE IF s \in Registered \ Range(subs') THEN Forgotten(s) ELSE stream[s]]
  /\ UNCHANGED <<screens, stale, seen, device>>

\* The devices of the account, or none: the keys of the push may be missing,
\* and the list may fail to be read, which ends the push without an error.
ListDevices(n) ==
  /\ notice[n].pc = "list"
  /\ \E list \in {{}, {e \in Endpoints : device[e] = notice[n].to}} :
       Put(n, [notice[n] EXCEPT !.left = list, !.pc = IF list = {} THEN "done" ELSE "send"])
  /\ UNCHANGED <<screens, stale, seen, stream, subs, device>>

Sent(n, e, r) ==
  LET left == notice[n].left \ {e}
  IN  [notice[n] EXCEPT !.left = left, !.sent = @ \/ r = "ok",
                        !.pc = IF left = {} THEN "done" ELSE "send"]

\* Mutant: an answer that is an error ends the loop.
SendNotificationStops(n, e) ==
  /\ notice[n].pc = "send"
  /\ e \in notice[n].left
  /\ \E r \in {"ok", "gone", "failed"} :
       /\ Put(n, [Sent(n, e, r) EXCEPT !.pc = IF r = "failed" THEN "done" ELSE @])
       /\ \/ r = "gone" /\ device' = [device EXCEPT ![e] = None]
          \/ UNCHANGED device
  /\ UNCHANGED <<screens, stale, seen, stream, subs>>

\* One endpoint after the other, of the list that was read: 404 and 410 remove
\* the subscription, a removal that fails is ignored, any other error is noted.
SendNotification(n, e) ==
  /\ notice[n].pc = "send"
  /\ e \in notice[n].left
  /\ \E r \in {"ok", "gone", "failed"} :
       /\ Put(n, Sent(n, e, r))
       /\ \/ r = "gone" /\ device' = [device EXCEPT ![e] = None]
          \/ UNCHANGED device
  /\ UNCHANGED <<screens, stale, seen, stream, subs>>

\* Mutant: the endpoint is stored in the place of the account.
RegisterSubscriptionSwapped(u, e) ==
  /\ device[e] # u
  /\ device' = [device EXCEPT ![e] = e]
  /\ UNCHANGED <<screens, stale, seen, stream, subs, notice>>

\* An endpoint that is known passes to the account that registers it.
RegisterSubscription(u, e) ==
  /\ device[e] # u
  /\ device' = [device EXCEPT ![e] = u]
  /\ UNCHANGED <<screens, stale, seen, stream, subs, notice>>

UnregisterSubscription(u, e) ==
  /\ device[e] = u
  /\ device' = [device EXCEPT ![e] = None]
  /\ UNCHANGED <<screens, stale, seen, stream, subs, notice>>

\* The process stops: its streams end, the work after the commits is lost.
Crash ==
  /\ subs' = <<>>
  /\ stream' = [s \in Streams |-> Down]
  /\ notice' = [n \in Notices |->
       IF notice[n].pc \in {"stored", "list", "send"}
       THEN [notice[n] EXCEPT !.pc = "lost"] ELSE notice[n]]
  /\ UNCHANGED <<screens, stale, seen, device>>
-----------------------------------------------------------------------------
Next ==
  \/ \E u \in Users, c \in Channels : ShowScreen(u, c) \/ HideScreen(u, c)
  \/ \E u \in Users : Fetch(u)
  \/ \E s \in Streams : Sever(s) \/ Hear(s) \/ StreamMissionRead(s) \/ Unsubscribe(s)
  \/ \E u \in Users, s \in Streams :
       StreamUser(u, s) \/ StreamTechnician(u, s) \/ StreamMission(u, s)
  \/ PingAll
  \/ \E n \in Notices, u \in Users, k \in Kinds : Store(n, u, k)
  \/ \E n \in Notices : Bury(n) \/ Announce(n) \/ ListDevices(n)
  \/ \E n \in Notices, e \in Endpoints : SendNotification(n, e)
  \/ \E u \in Users, e \in Endpoints :
       RegisterSubscription(u, e) \/ UnregisterSubscription(u, e)
  \/ Crash

Spec == Init /\ [][Next]_vars

\* The timer of the module pings for as long as the process runs, so a ping
\* comes that meets a connection destroyed unnoticed, and Node reports a request
\* that is over to the listeners it has.
PingMeetsDead == PingAll /\ \E s \in Registered : stream[s].deaf

Fairness == WF_vars(PingMeetsDead) /\ \A s \in Streams : WF_vars(Unsubscribe(s))

FairSpec == Spec /\ Fairness
-----------------------------------------------------------------------------
TypeOK ==
  /\ screens \in [Users -> SUBSET Channels]
  /\ stale \in [Users -> BOOLEAN]
  /\ seen \in [Users -> SUBSET Notices]
  /\ stream \in [Streams -> StreamRow]
  /\ subs \in Seq(Streams)
  /\ notice \in [Notices -> NoticeRow]
  /\ device \in [Endpoints -> Users \cup {None}]

\* However connections come, go, are evicted and refused, an account never
\* holds more than the quota, and no stream is registered twice.
QuotaHolds ==
  /\ \A u \in Users : Cardinality(Mine(u)) <= Limit
  /\ Cardinality(Registered) = Len(subs)

\* A client never waits on a stream the server has forgotten, unless a ping
\* was refused on it: eviction and restart end what they forget.
StreamsAreServed ==
  \A s \in Streams :
    stream[s].link = "up" => s \in Registered \/ stream[s].refused

\* The registry and the connections agree, through evictions and restarts.
RegistryServes == QuotaHolds /\ StreamsAreServed

\* What "notification.created" announces is in the list the client fetches.
CreatedIsStored == \A n \in Notices : notice[n].created => notice[n].row

\* A push and an event of the same notice never both go to the user: the test
\* for an open connection and the publication see the same registry.
NoDouble == \A n \in Notices : notice[n].sent => ~notice[n].rung

\* A device that fails or is gone never keeps the push from the next one of
\* the list that was read.
EveryDeviceTried == \A n \in Notices : notice[n].pc = "done" => notice[n].left = {}

\* The handler of a notice announces only what is stored, does not both ring
\* and push, and tries every device of the list it has read.
NoticesReach == CreatedIsStored /\ NoDouble /\ EveryDeviceTried

\* No signal is missed: what is stored and published, still in the list and not
\* yet fetched by a client with a registered open stream of its channel, is
\* still to be announced, on its way on that stream, or due in a fetch; whatever
\* events were lost before, with the connections or the restarts that lost them.
NothingMissed ==
  \A n \in Notices, s \in Registered :
    (/\ notice[n].row /\ ~notice[n].old
     /\ notice[n].pc # "stored"
     /\ notice[n].to = Owner[s]
     /\ stream[s].link = "up"
     /\ stream[s].chan \in Published(notice[n].kind))
      => n \in seen[Owner[s]] \/ stale[Owner[s]] \/ stream[s].wire

\* A connection that is over leaves the registry, also when its close event
\* came before the listener: it must not go on hiding the user from the push.
DeadLeave ==
  \A s \in Streams : (s \in Registered /\ stream[s].link = "down")
                        ~> ~(s \in Registered /\ stream[s].link = "down")
=============================================================================
