--------------------------- MODULE Contact_proofs ---------------------------
(***************************************************************************)
(* Theorems about the two ways a user is reached, which share no state:    *)
(* Delivery, for any accounts, connections, devices, notices and quota,    *)
(* and Verification, for any windows, requests and bounds.                 *)
(***************************************************************************)
EXTENDS Delivery, Verification, DataTheorems

\* Types, with a registry that holds no stream twice.
Typed == TypeOK /\ Distinct(subs)

-----------------------------------------------------------------------------
(* The registry.                                                           *)

LEMMA WithoutKeeps ==
  ASSUME Typed, NEW S
  PROVE  /\ Without(S) \in Seq(Streams) /\ Distinct(Without(S))
         /\ Range(Without(S)) = Registered \ S
<1>1. Without(S) = Filter(subs, S)[Len(subs)]
  BY DEF Without, Filter, Filters
<1>2. subs \in Seq(Streams) /\ Distinct(subs)
  BY DEF Typed, TypeOK
<1> QED BY <1>1, <1>2, FilterProperties DEF Registered

LEMMA RegisteredStreams ==
  ASSUME Typed
  PROVE  /\ Registered \subseteq Streams
         /\ IsFiniteSet(Registered) /\ Cardinality(Registered) = Len(subs)
<1>1. subs \in Seq(Streams) /\ Distinct(subs)
  BY DEF Typed, TypeOK
<1>2. \A i \in DOMAIN subs : subs[i] \in Streams
  BY <1>1
<1> QED BY <1>1, <1>2, DistinctCounts DEF Registered, Range

\* A user over the quota has an oldest stream, which is one of his.
LEMMA OldestIsMine ==
  ASSUME Typed, NEW u, Mine(u) # {}
  PROVE  Oldest(u) \in Mine(u)
<1> DEFINE P == {i \in DOMAIN subs : Owner[subs[i]] = u}
<1>1. DOMAIN subs = 1 .. Len(subs) /\ Len(subs) \in Nat
  BY DEF Typed, TypeOK
<1>2. P \subseteq Nat /\ P # {}
  BY <1>1 DEF Mine, Registered, Range
<1>3. PICK i \in P : \A j \in P : ~(j < i)
  <2>1. IsWellFoundedOn(NatOrder, Nat)
    BY NatLessThanWellFounded DEF OpToRel, NatOrder
  <2> HIDE DEF P
  <2>2. PICK i \in P : \A j \in P : ~(<<j, i>> \in NatOrder)
    BY <1>2, <2>1, WFMin
  <2>3. \A j \in P : j < i => <<j, i>> \in NatOrder
    BY <1>2 DEF NatOrder
  <2> QED BY <2>2, <2>3
<1>4. i \in DOMAIN subs /\ Owner[subs[i]] = u /\ \A j \in 1 .. i - 1 : Owner[subs[j]] # u
  BY <1>1, <1>3
<1> DEFINE First(n) == Owner[subs[n]] = u /\ \A j \in 1 .. n - 1 : Owner[subs[j]] # u
<1>5. First(CHOOSE n \in DOMAIN subs : First(n)) /\ (CHOOSE n \in DOMAIN subs : First(n)) \in DOMAIN subs
  BY <1>4
<1> QED BY <1>5 DEF Oldest, Mine, Registered, Range

\* What a new stream finds: a registry with room for it.
LEMMA EvictedRoom ==
  ASSUME Typed, NEW u \in Users
  PROVE  /\ Evicted(u).out = Evicted(u).closed /\ Evicted(u).out \subseteq Mine(u)
         /\ Cardinality(Mine(u)) <= Limit => Cardinality(Mine(u) \ Evicted(u).out) < Limit
<1>1. IsFiniteSet(Mine(u)) /\ Cardinality(Mine(u)) \in Nat
  <2>1. Mine(u) \in SUBSET Registered
    BY DEF Mine
  <2> QED BY <2>1, RegisteredStreams, FS_Subset, FS_CardinalityType
<1>2. CASE Cardinality(Mine(u)) < Limit
  <2>1. Evicted(u) = [out |-> {}, closed |-> {}]
    BY <1>2 DEF Evicted
  <2>2. Mine(u) \ {} = Mine(u)
    OBVIOUS
  <2> QED BY <1>2, <2>1, <2>2
<1>3. CASE ~(Cardinality(Mine(u)) < Limit)
  <2>1. Evicted(u) = [out |-> {Oldest(u)}, closed |-> {Oldest(u)}]
    BY <1>3 DEF Evicted
  <2>2. Limit \in Nat \ {0}
    BY DeliveryAssumption
  <2>3. Mine(u) # {}
    BY <1>1, <1>3, <2>2, FS_EmptySet
  <2>4. Oldest(u) \in Mine(u)
    BY <2>3, OldestIsMine
  <2>5. Cardinality(Mine(u) \ {Oldest(u)}) = Cardinality(Mine(u)) - 1
    BY <1>1, <2>4, FS_RemoveElement
  <2> QED BY <1>1, <2>1, <2>2, <2>4, <2>5
<1> QED BY <1>2, <1>3

\* What Subscribe does to the registry and to the connections.
LEMMA SubscribeSteps ==
  ASSUME Typed, NEW s \in Streams, s \notin Registered, NEW c \in Channels, NEW alive \in BOOLEAN,
         Subscribe(s, c, alive)
  PROVE  /\ subs' \in Seq(Streams) /\ Distinct(subs')
         /\ Registered' = (Registered \ Evicted(Owner[s]).out) \cup {s}
         /\ stream' \in [Streams -> StreamRow]
         /\ stream'[s].chan = c /\ stream'[s].wire = alive
         /\ stream'[s].link = IF alive THEN "up" ELSE "down"
         /\ \A t \in Streams \ {s} :
              stream'[t] = IF t \in Evicted(Owner[s]).out THEN Down ELSE stream[t]
<1> DEFINE gone == Evicted(Owner[s])
           rest == Without(gone.out)
           new  == [chan |-> c, link |-> IF alive THEN "up" ELSE "down",
                    wire |-> alive, deaf |-> ~alive, refused |-> FALSE]
<1>1. Owner[s] \in Users
  BY DeliveryAssumption
<1>2. gone.closed = gone.out
  BY <1>1, EvictedRoom
<1>3. rest \in Seq(Streams) /\ Distinct(rest) /\ Range(rest) = Registered \ gone.out
  BY WithoutKeeps
<1>4. subs' = Append(rest, s)
  BY DEF Subscribe
<1>5. new \in StreamRow /\ Down \in StreamRow
  BY DEF StreamRow, Down, Channels
<1>6. stream' = [t \in Streams |-> IF t = s THEN new
                                   ELSE IF t \in gone.closed THEN Down
                                   ELSE IF t \in gone.out THEN Forgotten(t) ELSE stream[t]]
  BY DEF Subscribe
<1> HIDE DEF gone, rest
<1>7. /\ stream' \in [Streams -> StreamRow] /\ stream'[s] = new
      /\ \A t \in Streams \ {s} : stream'[t] = IF t \in gone.out THEN Down ELSE stream[t]
  BY <1>2, <1>5, <1>6 DEF Typed, TypeOK
<1>8. subs' \in Seq(Streams) /\ Range(subs') = Range(rest) \cup {s}
  BY <1>3, <1>4, RangeOfAppend
<1>9. Distinct(subs')
  <2>1. \A i \in 1 .. Len(rest) : rest[i] # s
    BY <1>3 DEF Range
  <2> QED BY <1>3, <1>4, <2>1 DEF Distinct
<1>10. Registered' = Range(subs')
  BY DEF Registered
<1> QED BY <1>3, <1>7, <1>8, <1>9, <1>10 DEF gone

-----------------------------------------------------------------------------
(* The connections.                                                        *)

Quota == \A u \in Users : Cardinality(Mine(u)) <= Limit

\* A stream whose request is still read is not registered yet.
Unheard == \A s \in Streams : stream[s].link \in {"asking", "left"} => s \notin Registered

Linked ==
  /\ subs \in Seq(Streams) /\ Distinct(subs) /\ stream \in [Streams -> StreamRow]
  /\ Quota /\ Unheard /\ StreamsAreServed

LEMMA DownRow ==
  /\ Down \in StreamRow /\ Down.link = "down" /\ Down.wire = FALSE
  /\ Down.deaf = FALSE /\ Down.refused = FALSE
  BY DEF Down, StreamRow, Channels

LEMMA QuotaShrinks ==
  ASSUME Typed, Quota, Registered' \subseteq Registered
  PROVE  Quota'
<1> SUFFICES ASSUME NEW u \in Users PROVE Cardinality(Mine(u)') <= Limit
  BY DEF Quota, Mine
<1>1. Mine(u)' \in SUBSET Mine(u) /\ Mine(u) \in SUBSET Registered
  BY DEF Mine
<1>2. IsFiniteSet(Mine(u)) /\ IsFiniteSet(Mine(u)')
  BY <1>1, RegisteredStreams, FS_Subset
<1>3. /\ Cardinality(Mine(u)') <= Cardinality(Mine(u))
      /\ Cardinality(Mine(u)') \in Nat /\ Cardinality(Mine(u)) \in Nat
  BY <1>1, <1>2, FS_Subset, FS_CardinalityType
<1>4. Cardinality(Mine(u)) <= Limit /\ Limit \in Nat
  BY DeliveryAssumption DEF Quota
<1> HIDE DEF Mine
<1> QED BY <1>3, <1>4

LEMMA SubscribeLinked ==
  ASSUME Typed, Linked, NEW s \in Streams, s \notin Registered,
         NEW c \in Channels, NEW alive \in BOOLEAN, Subscribe(s, c, alive)
  PROVE  Linked'
<1> DEFINE v == Owner[s]
           out == Evicted(v).out
<1>1. v \in Users
  BY DeliveryAssumption
<1>2. /\ subs' \in Seq(Streams) /\ Distinct(subs')
      /\ Registered' = (Registered \ out) \cup {s}
      /\ stream' \in [Streams -> StreamRow]
      /\ stream'[s].link = IF alive THEN "up" ELSE "down"
      /\ \A t \in Streams \ {s} : stream'[t] = IF t \in out THEN Down ELSE stream[t]
  BY SubscribeSteps
<1>3. out \subseteq Mine(v) /\ Cardinality(Mine(v) \ out) < Limit
  BY <1>1, EvictedRoom DEF Linked, Quota
<1> HIDE DEF out
<1>4. Quota'
  <2> SUFFICES ASSUME NEW u \in Users PROVE Cardinality(Mine(u)') <= Limit
    BY DEF Quota, Mine
  <2>1. CASE u = v
    <3> DEFINE rest == Mine(v) \ out
    <3>1. Mine(u)' = rest \cup {s} /\ s \notin rest
      BY <1>2, <2>1 DEF Mine
    <3>2. rest \in SUBSET Registered
      BY DEF Mine
    <3>3. IsFiniteSet(rest) /\ Cardinality(rest) \in Nat
      BY <3>2, RegisteredStreams, FS_Subset, FS_CardinalityType
    <3>4. Cardinality(rest) < Limit /\ Limit \in Nat
      BY <1>3, DeliveryAssumption
    <3> HIDE DEF rest
    <3>5. Cardinality(rest \cup {s}) = Cardinality(rest) + 1
      BY <3>1, <3>3, FS_AddElement
    <3> QED BY <3>1, <3>3, <3>4, <3>5
  <2>2. CASE u # v
    <3>1. Mine(u)' = Mine(u)
      BY <1>2, <1>3, <2>2 DEF Mine
    <3> QED BY <3>1 DEF Linked, Quota
  <2> QED BY <2>1, <2>2
<1>5. Unheard'
  BY <1>2, DownRow DEF Linked, Unheard
<1>6. StreamsAreServed'
  BY <1>2, DownRow DEF Linked, StreamsAreServed
<1> QED BY <1>2, <1>4, <1>5, <1>6 DEF Linked

\* Streams that leave the registry: each is over, or a ping was refused on it.
LEMMA LeaveLinked ==
  ASSUME Typed, Linked, NEW X, subs' = Without(X), stream' \in [Streams -> StreamRow],
         \A s \in Streams :
           /\ stream'[s].link \in {"asking", "left"} => stream[s].link = stream'[s].link
           /\ stream'[s].link = "up" => stream[s].link = "up" /\
                                        (stream[s].refused => stream'[s].refused)
           /\ stream'[s].link = "up" /\ s \in X => s \notin Registered \/ stream'[s].refused
  PROVE  Linked'
<1>1. subs' \in Seq(Streams) /\ Distinct(subs') /\ Registered' = Registered \ X
  <2>1. Registered' = Range(subs')
    BY DEF Registered
  <2> QED BY <2>1, WithoutKeeps
<1>2. Quota'
  BY <1>1, QuotaShrinks DEF Linked
<1>3. Unheard'
  BY <1>1 DEF Linked, Unheard
<1>4. StreamsAreServed'
  BY <1>1 DEF Linked, StreamsAreServed
<1> QED BY <1>1, <1>2, <1>3, <1>4 DEF Linked

\* Connections that change while the registry stays.
LEMMA StayLinked ==
  ASSUME Typed, Linked, subs' = subs, stream' \in [Streams -> StreamRow],
         \A s \in Streams :
           /\ stream'[s].link \in {"asking", "left"} =>
                stream[s].link \in {"asking", "left"} \/ s \notin Registered
           /\ stream'[s].link = "up" => stream[s].link = "up" /\
                                        (stream[s].refused => stream'[s].refused)
  PROVE  Linked'
<1>1. Registered' = Registered
  BY DEF Registered
<1>2. Quota'
  BY <1>1, QuotaShrinks DEF Linked
<1>3. Unheard'
  BY <1>1 DEF Linked, Unheard
<1>4. StreamsAreServed'
  BY <1>1 DEF Linked, StreamsAreServed
<1> QED BY <1>2, <1>3, <1>4 DEF Linked, Distinct

LEMMA EndedRow ==
  ASSUME Typed, Linked, NEW s \in Streams
  PROVE  /\ Ended(s) \in StreamRow /\ Ended(s).link \in {"left", "down"}
         /\ Ended(s).link = "left" => stream[s].link = "asking"
<1>1. stream[s] \in StreamRow
  BY DEF Typed, TypeOK
<1>2. stream[s].link = "asking" => s \notin Registered
  BY DEF Linked, Unheard
<1>3. CASE stream[s].link = "asking"
  <2>1. Ended(s) = [stream[s] EXCEPT !.link = "left"]
    BY <1>2, <1>3 DEF Ended
  <2> QED BY <1>1, <1>3, <2>1 DEF StreamRow
<1>4. CASE stream[s].link # "asking" /\ s \in Registered
  <2>1. Ended(s) = [stream[s] EXCEPT !.link = "down", !.wire = FALSE]
    BY <1>4 DEF Ended
  <2> QED BY <1>1, <1>4, <2>1 DEF StreamRow
<1>5. CASE stream[s].link # "asking" /\ s \notin Registered
  <2>1. Ended(s) = Down
    BY <1>5 DEF Ended
  <2> QED BY <2>1, DownRow
<1> QED BY <1>3, <1>4, <1>5

LEMMA ForgottenRow ==
  ASSUME Typed, NEW s \in Streams
  PROVE  /\ Forgotten(s) \in StreamRow /\ Forgotten(s).link = stream[s].link
         /\ stream[s].link = "up" => Forgotten(s) = stream[s]
<1>1. stream[s] \in StreamRow
  BY DEF Typed, TypeOK
<1> QED BY <1>1, DownRow DEF Forgotten

LEMMA ClientLinked ==
  ASSUME Typed, Linked,
         \/ \E u \in Users, c \in Channels : HideScreen(u, c)
         \/ \E s \in Streams : Sever(s) \/ Hear(s)
         \/ \E u \in Users, s \in Streams : StreamMission(u, s)
  PROVE  Linked'
<1>1. ASSUME NEW u \in Users, NEW c \in Channels, HideScreen(u, c) PROVE Linked'
  <2>1. /\ subs' = subs
        /\ stream' = [s \in Streams |->
             IF Owner[s] = u /\ stream[s].chan = c /\ stream[s].link \in {"asking", "up"}
             THEN Ended(s) ELSE stream[s]]
    BY <1>1 DEF HideScreen
  <2>2. \A s \in Streams : stream'[s] \in {Ended(s), stream[s]}
    BY <2>1
  <2>3. stream' \in [Streams -> StreamRow]
    BY <2>1, EndedRow DEF Typed, TypeOK
  <2> QED BY <2>1, <2>2, <2>3, EndedRow, StayLinked
<1>2. ASSUME NEW s \in Streams, Sever(s) PROVE Linked'
  <2>1. subs' = subs /\ stream' = [stream EXCEPT ![s] = Ended(s)]
    BY <1>2 DEF Sever
  <2>2. \A t \in Streams : stream'[t] \in {Ended(t), stream[t]}
    BY <2>1 DEF Typed, TypeOK
  <2>3. stream' \in [Streams -> StreamRow]
    BY <2>1, EndedRow DEF Typed, TypeOK
  <2> QED BY <2>1, <2>2, <2>3, EndedRow, StayLinked
<1>3. ASSUME NEW s \in Streams, Hear(s) PROVE Linked'
  <2>1. subs' = subs /\ stream' = [stream EXCEPT ![s].wire = FALSE]
    BY <1>3 DEF Hear
  <2>2. /\ stream' \in [Streams -> StreamRow]
        /\ \A t \in Streams : stream'[t].link = stream[t].link /\ stream'[t].refused = stream[t].refused
    BY <2>1 DEF Typed, TypeOK, StreamRow
  <2> QED BY <2>1, <2>2, StayLinked
<1>4. ASSUME NEW u \in Users, NEW s \in Streams, StreamMission(u, s) PROVE Linked'
  <2> DEFINE new == [Down EXCEPT !.chan = "mission", !.link = "asking"]
  <2>1. subs' = subs /\ stream' = [stream EXCEPT ![s] = new] /\ s \notin Registered
    BY <1>4 DEF StreamMission, Free
  <2>2. new \in StreamRow /\ new.link = "asking"
    BY DEF Down, StreamRow, Channels
  <2> HIDE DEF new
  <2>3. /\ stream' \in [Streams -> StreamRow]
        /\ \A t \in Streams : stream'[t] = IF t = s THEN new ELSE stream[t]
    BY <2>1, <2>2 DEF Typed, TypeOK
  <2> QED BY <2>1, <2>2, <2>3, StayLinked
<1> QED BY <1>1, <1>2, <1>3, <1>4

LEMMA ServerLinked ==
  ASSUME Typed, Linked,
         \/ \E u \in Users, s \in Streams : StreamUser(u, s) \/ StreamTechnician(u, s)
         \/ \E s \in Streams : StreamMissionRead(s) \/ Unsubscribe(s)
  PROVE  Linked'
<1>1. ASSUME NEW u \in Users, NEW s \in Streams, StreamUser(u, s) \/ StreamTechnician(u, s)
      PROVE  Linked'
  <2>1. s \notin Registered /\ Subscribe(s, "user", TRUE) /\ "user" \in Channels
    BY <1>1 DEF StreamUser, StreamTechnician, Free, Channels
  <2> QED BY <2>1, SubscribeLinked
<1>2. ASSUME NEW s \in Streams, StreamMissionRead(s) PROVE Linked'
  <2>1. s \notin Registered
    BY <1>2 DEF StreamMissionRead, Linked, Unheard
  <2>2. CASE Owner[s] \in Parties
    <3> DEFINE alive == stream[s].link = "asking"
    <3>1. Subscribe(s, "mission", alive) /\ "mission" \in Channels /\ alive \in BOOLEAN
      BY <1>2, <2>2 DEF StreamMissionRead, Channels
    <3> HIDE DEF alive
    <3> QED BY <2>1, <3>1, SubscribeLinked
  <2>3. CASE Owner[s] \notin Parties
    <3>1. subs' = subs /\ stream' = [stream EXCEPT ![s] = Down]
      BY <1>2, <2>3 DEF StreamMissionRead
    <3>2. /\ stream' \in [Streams -> StreamRow]
          /\ \A t \in Streams : stream'[t] = IF t = s THEN Down ELSE stream[t]
      BY <3>1, DownRow DEF Typed, TypeOK
    <3> QED BY <3>1, <3>2, DownRow, StayLinked
  <2> QED BY <2>2, <2>3
<1>3. ASSUME NEW s \in Streams, Unsubscribe(s) PROVE Linked'
  <2>1. subs' = Without({s}) /\ stream' = [stream EXCEPT ![s] = Forgotten(s)]
        /\ stream[s].link = "down"
    BY <1>3 DEF Unsubscribe
  <2>2. /\ stream' \in [Streams -> StreamRow]
        /\ \A t \in Streams : stream'[t] = IF t = s THEN Forgotten(s) ELSE stream[t]
    BY <2>1, ForgottenRow DEF Typed, TypeOK
  <2> QED BY <2>1, <2>2, ForgottenRow, LeaveLinked
<1> QED BY <1>1, <1>2, <1>3

LEMMA PingLinked ==
  ASSUME Typed, Linked, PingAll
  PROVE  Linked'
<1>1. PICK R \in SUBSET Registered :
        /\ subs' = Without(R)
        /\ stream' = [s \in Streams |->
             IF s \in R /\ stream[s].link = "up"
             THEN [stream[s] EXCEPT !.refused = TRUE]
             ELSE IF s \in R THEN Down ELSE stream[s]]
  BY DEF PingAll
<1>2. \A s \in Streams : stream[s] \in StreamRow
  BY DEF Typed, TypeOK
<1>3. ASSUME NEW s \in Streams
      PROVE  /\ stream'[s] \in StreamRow
             /\ s \notin R => stream'[s] = stream[s]
             /\ s \in R => /\ stream'[s].link \in {"up", "down"}
                           /\ stream'[s].link = "up" => stream[s].link = "up" /\ stream'[s].refused
  BY <1>1, <1>2, DownRow DEF StreamRow
<1>4. stream' \in [Streams -> StreamRow]
  BY <1>1, <1>3
<1> QED BY <1>1, <1>3, <1>4, LeaveLinked

LEMMA AnnounceSteps ==
  ASSUME Typed, NEW n \in Notices, Announce(n)
  PROVE  \E X \in SUBSET {s \in Hearing(n) : stream[s].link = "down"} :
           /\ subs' = Without(X) /\ Registered' = Registered \ X
           /\ stream' \in [Streams -> StreamRow]
           /\ \A s \in Streams :
                /\ stream'[s].link = stream[s].link
                /\ stream[s].link = "up" => /\ stream'[s].refused = stream[s].refused
                                            /\ stream'[s].chan = stream[s].chan
                                            /\ stream'[s].wire = (stream[s].wire \/ s \in Hearing(n))
           /\ Put(n, [notice[n] EXCEPT
                !.rung = \E s \in Hearing(n) \ X : Owner[s] = notice[n].to,
                !.created = Created(n),
                !.pc = IF Pushed(notice[n].kind) /\ ~Skip(n, X) THEN "list" ELSE "done"])
<1>1. PICK X \in SUBSET {s \in Hearing(n) : stream[s].link = "down"} :
        /\ subs' = Without(X)
        /\ Put(n, [notice[n] EXCEPT
                !.rung = \E s \in Hearing(n) \ X : Owner[s] = notice[n].to,
                !.created = Created(n),
                !.pc = IF Pushed(notice[n].kind) /\ ~Skip(n, X) THEN "list" ELSE "done"])
  BY DEF Announce
<1>2. stream' = [s \in Streams |->
        IF s \in Hearing(n) /\ stream[s].link = "up" THEN [stream[s] EXCEPT !.wire = TRUE]
        ELSE IF s \in Registered \ Range(subs') THEN Forgotten(s) ELSE stream[s]]
  BY DEF Announce
<1>3. ASSUME NEW s \in Streams
      PROVE  /\ stream'[s] \in StreamRow /\ stream'[s].link = stream[s].link
             /\ stream[s].link = "up" => /\ stream'[s].refused = stream[s].refused
                                         /\ stream'[s].chan = stream[s].chan
                                         /\ stream'[s].wire = (stream[s].wire \/ s \in Hearing(n))
  <2>1. stream[s] \in StreamRow
    BY DEF Typed, TypeOK
  <2>2. CASE s \in Hearing(n) /\ stream[s].link = "up"
    <3>1. stream'[s] = [stream[s] EXCEPT !.wire = TRUE]
      BY <1>2, <2>2
    <3> QED BY <2>1, <2>2, <3>1 DEF StreamRow
  <2>3. CASE ~(s \in Hearing(n) /\ stream[s].link = "up")
    <3>1. stream'[s] \in {Forgotten(s), stream[s]}
      BY <1>2, <2>3
    <3>2. stream[s].wire \in BOOLEAN
      BY <2>1 DEF StreamRow
    <3> QED BY <2>1, <2>3, <3>1, <3>2, ForgottenRow
  <2> QED BY <2>2, <2>3
<1>4. stream' \in [Streams -> StreamRow]
  BY <1>2, <1>3
<1>5. Registered' = Registered \ X
  <2>1. Registered' = Range(subs')
    BY DEF Registered
  <2> QED BY <1>1, <2>1, WithoutKeeps
<1> QED BY <1>1, <1>3, <1>4, <1>5

LEMMA AnnounceLinked ==
  ASSUME Typed, Linked, NEW n \in Notices, Announce(n)
  PROVE  Linked'
<1>1. PICK X \in SUBSET {s \in Hearing(n) : stream[s].link = "down"} :
           /\ subs' = Without(X)
           /\ stream' \in [Streams -> StreamRow]
           /\ \A s \in Streams :
                /\ stream'[s].link = stream[s].link
                /\ stream[s].link = "up" => stream'[s].refused = stream[s].refused
  BY AnnounceSteps
<1>2. \A s \in X : stream[s].link = "down"
  OBVIOUS
<1> QED BY <1>1, <1>2, LeaveLinked

LEMMA CrashLinked ==
  ASSUME Crash
  PROVE  Linked'
<1>1. subs' = <<>> /\ stream' = [s \in Streams |-> Down]
  BY DEF Crash
<1>2. Registered' = {}
  BY <1>1 DEF Registered, Range
<1>3. Quota'
  <2>1. \A u \in Users : Mine(u)' = {}
    BY <1>2 DEF Mine
  <2>2. Cardinality({}) = 0 /\ 0 <= Limit
    BY FS_EmptySet, DeliveryAssumption
  <2> QED BY <2>1, <2>2 DEF Quota
<1>4. Unheard' /\ StreamsAreServed'
  BY <1>1, DownRow DEF Unheard, StreamsAreServed
<1> QED BY <1>1, <1>3, <1>4, DownRow DEF Linked, Distinct

\* The steps that concern neither the registry nor the connections.
Apart ==
  \/ \E u \in Users, c \in Channels : ShowScreen(u, c)
  \/ \E u \in Users : Fetch(u)
  \/ \E n \in Notices, u \in Users, k \in Kinds : Store(n, u, k)
  \/ \E n \in Notices : Bury(n) \/ ListDevices(n)
  \/ \E n \in Notices, e \in Endpoints : SendNotification(n, e)
  \/ \E u \in Users, e \in Endpoints : RegisterSubscription(u, e) \/ UnregisterSubscription(u, e)
  \/ UNCHANGED vars

LEMMA LinkedStep ==
  ASSUME Typed, Linked, [Next]_vars
  PROVE  Linked'
<1>1. ASSUME Apart PROVE Linked'
  <2>1. UNCHANGED <<subs, stream>>
    BY <1>1 DEF Apart, ShowScreen, Fetch, Store, Bury, ListDevices, SendNotification,
         RegisterSubscription, UnregisterSubscription, vars
  <2>2. stream' \in [Streams -> StreamRow]
    BY <2>1 DEF Typed, TypeOK
  <2> QED BY <2>1, <2>2, StayLinked
<1>2. ASSUME \/ \E u \in Users, c \in Channels : HideScreen(u, c)
             \/ \E s \in Streams : Sever(s) \/ Hear(s)
             \/ \E u \in Users, s \in Streams : StreamMission(u, s)
      PROVE  Linked'
  BY <1>2, ClientLinked
<1>3. ASSUME \/ \E u \in Users, s \in Streams : StreamUser(u, s) \/ StreamTechnician(u, s)
             \/ \E s \in Streams : StreamMissionRead(s) \/ Unsubscribe(s)
      PROVE  Linked'
  BY <1>3, ServerLinked
<1>4. ASSUME PingAll \/ Crash PROVE Linked'
  BY <1>4, PingLinked, CrashLinked
<1>5. ASSUME NEW n \in Notices, Announce(n) PROVE Linked'
  BY <1>5, AnnounceLinked
<1> QED BY <1>1, <1>2, <1>3, <1>4, <1>5 DEF Next, Apart

-----------------------------------------------------------------------------
(* The work of the handlers.                                               *)

\* What a notice has gone through is true of the stage it has reached.
Sound(r) ==
  /\ r \in NoticeRow
  /\ r.pc \in {"none", "stored", "list"} => r.left = {} /\ ~r.sent
  /\ r.pc \in {"list", "send"} => ~r.rung
  /\ r.sent => ~r.rung
  /\ r.created => r.row
  /\ r.pc = "done" => r.left = {}

Worked == \A n \in Notices : Sound(notice[n])

LEMMA PutSound ==
  ASSUME Typed, Worked, NEW n \in Notices, NEW r, Sound(r), Put(n, r)
  PROVE  /\ notice' \in [Notices -> NoticeRow] /\ Worked'
         /\ \A m \in Notices : notice'[m] = IF m = n THEN r ELSE notice[m]
<1>1. notice \in [Notices -> NoticeRow] /\ r \in NoticeRow
  BY DEF Typed, TypeOK, Sound
<1>2. \A m \in Notices : notice'[m] = IF m = n THEN r ELSE notice[m]
  BY <1>1 DEF Put
<1>3. notice' \in [Notices -> NoticeRow]
  BY <1>1 DEF Put
<1>4. Worked'
  <2> SUFFICES ASSUME NEW m \in Notices PROVE Sound(notice'[m])
    BY DEF Worked, Sound
  <2> QED BY <1>2 DEF Worked
<1> QED BY <1>2, <1>3, <1>4

LEMMA UnsaidRow ==
  /\ Unsaid \in NoticeRow /\ Unsaid.left = {} /\ Unsaid.sent = FALSE
  /\ Unsaid.rung = FALSE /\ Unsaid.created = FALSE /\ Unsaid.row = FALSE /\ Unsaid.pc = "none"
  BY DEF Unsaid, NoticeRow, Kinds

LEMMA StoreWorked ==
  ASSUME Typed, Worked, NEW n \in Notices, NEW u \in Users, NEW k \in Kinds, Store(n, u, k)
  PROVE  /\ notice' \in [Notices -> NoticeRow] /\ Worked'
         /\ \A m \in Notices \ {n} : notice'[m] = notice[m]
         /\ \/ ~notice'[n].row
            \/ notice'[n].pc = "stored"
            \/ Published(notice'[n].kind) = {}
<1>1. PICK row \in BOOLEAN :
        /\ k = "test" => ~row
        /\ Put(n, [Unsaid EXCEPT !.to = u, !.kind = k, !.row = row,
                                 !.pc = IF k = "test" THEN "list"
                                        ELSE IF k = "dispute" THEN "done" ELSE "stored"])
  BY DEF Store
<1> DEFINE r == [Unsaid EXCEPT !.to = u, !.kind = k, !.row = row,
                               !.pc = IF k = "test" THEN "list"
                                      ELSE IF k = "dispute" THEN "done" ELSE "stored"]
<1>2. /\ r \in NoticeRow /\ r.kind = k /\ r.row = row
      /\ r.pc = IF k = "test" THEN "list" ELSE IF k = "dispute" THEN "done" ELSE "stored"
      /\ r.left = {} /\ r.sent = FALSE /\ r.rung = FALSE /\ r.created = FALSE
  BY UnsaidRow DEF Unsaid, NoticeRow
<1> HIDE DEF r
<1>3. Sound(r)
  BY <1>2 DEF Sound
<1>4. /\ notice' \in [Notices -> NoticeRow] /\ Worked'
      /\ \A m \in Notices : notice'[m] = IF m = n THEN r ELSE notice[m]
  BY <1>1, <1>3, PutSound DEF r
<1>5. Published("dispute") = {}
  BY DEF Published, Of, OfDispute
<1> QED BY <1>1, <1>2, <1>4, <1>5

LEMMA AnnounceWorked ==
  ASSUME Typed, Worked, NEW n \in Notices, Announce(n)
  PROVE  /\ notice' \in [Notices -> NoticeRow] /\ Worked'
         /\ \A m \in Notices \ {n} : notice'[m] = notice[m]
         /\ notice'[n].to = notice[n].to /\ notice'[n].kind = notice[n].kind
         /\ notice'[n].old = notice[n].old
<1>1. PICK X \in SUBSET {s \in Hearing(n) : stream[s].link = "down"} :
        Put(n, [notice[n] EXCEPT
              !.rung = \E s \in Hearing(n) \ X : Owner[s] = notice[n].to,
              !.created = Created(n),
              !.pc = IF Pushed(notice[n].kind) /\ ~Skip(n, X) THEN "list" ELSE "done"])
  BY AnnounceSteps
<1> DEFINE rung == \E s \in Hearing(n) \ X : Owner[s] = notice[n].to
           pc == IF Pushed(notice[n].kind) /\ ~Skip(n, X) THEN "list" ELSE "done"
           created == Created(n)
           r == [notice[n] EXCEPT !.rung = rung, !.created = created, !.pc = pc]
<1>2. rung \in BOOLEAN /\ created \in BOOLEAN /\ pc \in {"list", "done"}
  BY DEF Created
<1>3. created => notice[n].row
  BY DEF Created
<1>4. rung => pc = "done"
  BY DEF Hearing, Skip, Mine
<1>5. Put(n, r)
  BY <1>1
<1>6. notice[n] \in NoticeRow /\ Sound(notice[n]) /\ notice[n].pc = "stored"
  BY DEF Worked, Typed, TypeOK, Announce
<1> HIDE DEF rung, pc, created
<1>7. /\ r \in NoticeRow /\ r.rung = rung /\ r.created = created /\ r.pc = pc
      /\ r.left = notice[n].left /\ r.sent = notice[n].sent /\ r.old = notice[n].old
      /\ r.row = notice[n].row /\ r.to = notice[n].to /\ r.kind = notice[n].kind
  BY <1>2, <1>6 DEF NoticeRow
<1> HIDE DEF r
<1>8. Sound(r)
  BY <1>2, <1>3, <1>4, <1>6, <1>7 DEF Sound
<1> QED BY <1>5, <1>7, <1>8, PutSound

\* The steps that follow the announcement: the list that moves on, and the push.
Follows(n) == Bury(n) \/ ListDevices(n) \/ \E e \in Endpoints : SendNotification(n, e)

LEMMA FollowsWorked ==
  ASSUME Typed, Worked, NEW n \in Notices, Follows(n)
  PROVE  /\ notice' \in [Notices -> NoticeRow] /\ Worked'
         /\ \A m \in Notices : /\ notice'[m].row = notice[m].row /\ notice'[m].to = notice[m].to
                               /\ notice'[m].kind = notice[m].kind
                               /\ notice[m].old => notice'[m].old
                               /\ notice[m].pc = "stored" => notice'[m].pc = "stored"
<1> DEFINE Goal == /\ notice' \in [Notices -> NoticeRow] /\ Worked'
                   /\ \A m \in Notices :
                        /\ notice'[m].row = notice[m].row /\ notice'[m].to = notice[m].to
                        /\ notice'[m].kind = notice[m].kind
                        /\ notice[m].old => notice'[m].old
                        /\ notice[m].pc = "stored" => notice'[m].pc = "stored"
<1>1. notice[n] \in NoticeRow /\ Sound(notice[n])
  BY DEF Worked, Typed, TypeOK
<1>2. ASSUME NEW r, Put(n, r), Sound(r),
             r.row = notice[n].row, r.to = notice[n].to, r.kind = notice[n].kind,
             notice[n].old => r.old, notice[n].pc = "stored" => r.pc = "stored"
      PROVE  Goal
  BY <1>2, PutSound
<1>3. CASE Bury(n)
  <2> DEFINE r == [notice[n] EXCEPT !.old = TRUE]
  <2>1. Put(n, r)
    BY <1>3 DEF Bury
  <2>2. /\ r \in NoticeRow /\ r.pc = notice[n].pc /\ r.left = notice[n].left
        /\ r.sent = notice[n].sent /\ r.rung = notice[n].rung /\ r.old
        /\ r.created = notice[n].created /\ r.row = notice[n].row
        /\ r.to = notice[n].to /\ r.kind = notice[n].kind
    BY <1>1 DEF NoticeRow
  <2> HIDE DEF r
  <2>3. Sound(r)
    BY <1>1, <2>2 DEF Sound
  <2> QED BY <1>2, <2>1, <2>2, <2>3
<1>4. CASE ListDevices(n)
  <2>1. PICK list \in {{}, {e \in Endpoints : device[e] = notice[n].to}} :
          Put(n, [notice[n] EXCEPT !.left = list, !.pc = IF list = {} THEN "done" ELSE "send"])
    BY <1>4 DEF ListDevices
  <2> DEFINE r == [notice[n] EXCEPT !.left = list, !.pc = IF list = {} THEN "done" ELSE "send"]
  <2>2. Put(n, r) /\ notice[n].pc = "list" /\ list \subseteq Endpoints
    BY <1>4, <2>1 DEF ListDevices
  <2>3. /\ r \in NoticeRow /\ r.left = list /\ r.pc = IF list = {} THEN "done" ELSE "send"
        /\ r.sent = notice[n].sent /\ r.rung = notice[n].rung /\ r.old = notice[n].old
        /\ r.created = notice[n].created /\ r.row = notice[n].row
        /\ r.to = notice[n].to /\ r.kind = notice[n].kind
    BY <1>1, <2>2 DEF NoticeRow
  <2> HIDE DEF r
  <2>4. Sound(r)
    BY <1>1, <2>2, <2>3 DEF Sound
  <2> QED BY <1>2, <2>2, <2>3, <2>4
<1>5. ASSUME NEW e \in Endpoints, SendNotification(n, e) PROVE Goal
  <2>1. PICK answer \in {"ok", "gone", "failed"} : Put(n, Sent(n, e, answer))
    BY <1>5 DEF SendNotification
  <2> DEFINE r == Sent(n, e, answer)
             left == notice[n].left \ {e}
             ok == notice[n].sent \/ answer = "ok"
  <2>2. r = [notice[n] EXCEPT !.left = left, !.sent = ok,
                              !.pc = IF left = {} THEN "done" ELSE "send"]
    BY DEF Sent
  <2>3. left \subseteq Endpoints /\ ok \in BOOLEAN /\ notice[n].pc = "send"
    BY <1>1, <1>5 DEF NoticeRow, SendNotification
  <2>4. Put(n, r)
    BY <2>1
  <2> HIDE DEF r, left, ok
  <2>5. /\ r \in NoticeRow /\ r.left = left
        /\ r.pc = IF left = {} THEN "done" ELSE "send"
        /\ r.rung = notice[n].rung /\ r.created = notice[n].created /\ r.row = notice[n].row
        /\ r.to = notice[n].to /\ r.kind = notice[n].kind /\ r.old = notice[n].old
    BY <1>1, <2>2, <2>3 DEF NoticeRow
  <2>6. Sound(r)
    BY <1>1, <2>3, <2>5 DEF Sound
  <2> QED BY <1>2, <2>3, <2>4, <2>5, <2>6
<1> QED BY <1>3, <1>4, <1>5 DEF Follows

LEMMA CrashWorked ==
  ASSUME Typed, Worked, Crash
  PROVE  notice' \in [Notices -> NoticeRow] /\ Worked'
<1>1. notice' = [n \in Notices |->
        IF notice[n].pc \in {"stored", "list", "send"}
        THEN [notice[n] EXCEPT !.pc = "lost"] ELSE notice[n]]
  BY DEF Crash
<1>2. ASSUME NEW n \in Notices PROVE Sound(notice'[n])
  <2>1. notice[n] \in NoticeRow /\ Sound(notice[n])
    BY DEF Worked, Typed, TypeOK
  <2>2. CASE notice[n].pc \in {"stored", "list", "send"}
    <3>1. notice'[n] = [notice[n] EXCEPT !.pc = "lost"]
      BY <1>1, <2>2
    <3> QED BY <2>1, <3>1 DEF Sound, NoticeRow
  <2>3. CASE notice[n].pc \notin {"stored", "list", "send"}
    BY <1>1, <2>1, <2>3
  <2> QED BY <2>2, <2>3
<1>3. notice' \in [Notices -> NoticeRow]
  BY <1>1, <1>2 DEF Sound
<1> QED BY <1>2, <1>3 DEF Worked, Sound

LEMMA WorkedStep ==
  ASSUME Typed, Worked, [Next]_vars
  PROVE  notice' \in [Notices -> NoticeRow] /\ Worked'
<1>1. ASSUME UNCHANGED notice PROVE notice' \in [Notices -> NoticeRow] /\ Worked'
  BY <1>1 DEF Typed, TypeOK, Worked, Sound
<1>2. ASSUME \/ \E u \in Users, c \in Channels : ShowScreen(u, c) \/ HideScreen(u, c)
             \/ \E u \in Users : Fetch(u)
             \/ \E s \in Streams : Sever(s) \/ Hear(s) \/ StreamMissionRead(s) \/ Unsubscribe(s)
             \/ \E u \in Users, s \in Streams :
                  StreamUser(u, s) \/ StreamTechnician(u, s) \/ StreamMission(u, s)
             \/ PingAll
             \/ \E u \in Users, e \in Endpoints :
                  RegisterSubscription(u, e) \/ UnregisterSubscription(u, e)
             \/ UNCHANGED vars
      PROVE  UNCHANGED notice
  BY <1>2 DEF ShowScreen, HideScreen, Fetch, Sever, Hear, StreamMissionRead, Unsubscribe,
       StreamUser, StreamTechnician, StreamMission, PingAll, RegisterSubscription, UnregisterSubscription, vars
<1> QED BY <1>1, <1>2, StoreWorked, AnnounceWorked, FollowsWorked, CrashWorked DEF Next, Follows

-----------------------------------------------------------------------------
(* Types.                                                                  *)

Client ==
  /\ screens \in [Users -> SUBSET Channels] /\ stale \in [Users -> BOOLEAN]
  /\ seen \in [Users -> SUBSET Notices]

LEMMA ClientStep ==
  ASSUME Typed, [Next]_vars
  PROVE  Client' /\ device' \in [Endpoints -> Users \cup {None}]
<1>1. Client /\ device \in [Endpoints -> Users \cup {None}]
  BY DEF Client, Typed, TypeOK
<1>2. ASSUME NEW u \in Users, NEW c \in Channels, ShowScreen(u, c) \/ HideScreen(u, c)
      PROVE  Client' /\ UNCHANGED device
  <2>1. CASE ShowScreen(u, c)
    <3>1. /\ screens' = [screens EXCEPT ![u] = @ \cup {c}] /\ stale' = [stale EXCEPT ![u] = TRUE]
          /\ UNCHANGED <<seen, device>>
      BY <2>1 DEF ShowScreen
    <3> QED BY <1>1, <3>1 DEF Client
  <2>2. CASE HideScreen(u, c)
    <3>1. screens' = [screens EXCEPT ![u] = @ \ {c}] /\ UNCHANGED <<stale, seen, device>>
      BY <2>2 DEF HideScreen
    <3> QED BY <1>1, <3>1 DEF Client
  <2> QED BY <1>2, <2>1, <2>2
<1>3. ASSUME NEW u \in Users, Fetch(u) PROVE Client' /\ UNCHANGED device
  BY <1>1, <1>3 DEF Fetch, Client
<1>4. ASSUME NEW s \in Streams, Hear(s) PROVE Client' /\ UNCHANGED device
  BY <1>1, <1>4, DeliveryAssumption DEF Hear, Client
<1>5. ASSUME \/ \E s \in Streams : Sever(s) \/ StreamMissionRead(s) \/ Unsubscribe(s)
             \/ \E u \in Users, s \in Streams :
                  StreamUser(u, s) \/ StreamTechnician(u, s) \/ StreamMission(u, s)
             \/ PingAll
             \/ \E n \in Notices, u \in Users, k \in Kinds : Store(n, u, k)
             \/ \E n \in Notices : Bury(n) \/ Announce(n) \/ ListDevices(n)
             \/ Crash
             \/ UNCHANGED vars
      PROVE  Client' /\ UNCHANGED device
  BY <1>1, <1>5 DEF Sever, StreamMissionRead, Unsubscribe, StreamUser, StreamTechnician,
       StreamMission, PingAll, Store, Bury, Announce, ListDevices, Crash, vars, Client
<1>6. ASSUME NEW n \in Notices, NEW e \in Endpoints, SendNotification(n, e)
      PROVE  Client' /\ device' \in [Endpoints -> Users \cup {None}]
  BY <1>1, <1>6 DEF SendNotification, Client
<1>7. ASSUME NEW u \in Users, NEW e \in Endpoints,
             RegisterSubscription(u, e) \/ UnregisterSubscription(u, e)
      PROVE  Client' /\ device' \in [Endpoints -> Users \cup {None}]
  BY <1>1, <1>7 DEF RegisterSubscription, UnregisterSubscription, Client
<1> QED BY <1>1, <1>2, <1>3, <1>4, <1>5, <1>6, <1>7 DEF Next

Inv == Typed /\ Linked /\ Worked

LEMMA InvStep == Inv /\ [Next]_vars => Inv'
<1> SUFFICES ASSUME Typed, Linked, Worked, [Next]_vars PROVE Typed' /\ Linked' /\ Worked'
  BY DEF Inv
<1>1. Linked' /\ Worked' /\ notice' \in [Notices -> NoticeRow]
  BY LinkedStep, WorkedStep
<1>2. Client' /\ device' \in [Endpoints -> Users \cup {None}]
  BY ClientStep
<1> QED BY <1>1, <1>2 DEF Typed, TypeOK, Linked, Client

LEMMA InitInv == Init => Inv
<1> SUFFICES ASSUME Init PROVE Inv
  OBVIOUS
<1>1. subs = <<>> /\ Registered = {} /\ stream = [s \in Streams |-> Down]
  BY DEF Init, Registered, Range
<1>2. Quota
  <2>1. \A u \in Users : Mine(u) = {}
    BY <1>1 DEF Mine
  <2>2. Cardinality({}) = 0 /\ 0 <= Limit
    BY FS_EmptySet, DeliveryAssumption
  <2> QED BY <2>1, <2>2 DEF Quota
<1>3. Linked
  BY <1>1, <1>2, DownRow DEF Linked, Distinct, Unheard, StreamsAreServed
<1>4. Sound(Unsaid)
  BY UnsaidRow DEF Sound
<1>5. Worked
  BY <1>4 DEF Worked, Init
<1>6. Typed
  BY <1>1, <1>3, UnsaidRow DEF Typed, TypeOK, Linked, Init
<1> QED BY <1>3, <1>5, <1>6 DEF Inv

LEMMA Invariant == Spec => []Inv
  BY InitInv, InvStep, PTL DEF Spec

-----------------------------------------------------------------------------
(* Signals.                                                                *)

\* The notice is stored and listed, and no longer to be announced to its user.
Told(r) == r.row /\ ~r.old /\ r.pc # "stored" /\ Published(r.kind) # {}

\* Steps that tell nothing new and open no stream.
LEMMA SignalsKept ==
  ASSUME Typed, NothingMissed,
         \A n \in Notices : Told(notice'[n]) =>
           Told(notice[n]) /\ notice'[n].to = notice[n].to /\ notice'[n].kind = notice[n].kind,
         Registered' \subseteq Registered,
         \A s \in Registered' : stream'[s].link = "up" =>
           /\ stream[s].link = "up" /\ stream'[s].chan = stream[s].chan
           /\ stream[s].wire => stream'[s].wire \/ stale'[Owner[s]],
         \A u \in Users : seen[u] \subseteq seen'[u] /\ (stale[u] => stale'[u])
  PROVE  NothingMissed'
<1> SUFFICES ASSUME NEW n \in Notices, NEW s \in Registered',
                    notice'[n].row, ~notice'[n].old, notice'[n].pc # "stored", notice'[n].to = Owner[s],
                    stream'[s].link = "up", stream'[s].chan \in Published(notice'[n].kind)
             PROVE  n \in seen'[Owner[s]] \/ stale'[Owner[s]] \/ stream'[s].wire
  BY DEF NothingMissed
<1>1. Told(notice'[n])
  BY DEF Told
<1>2. s \in Registered /\ Owner[s] \in Users
  BY RegisteredStreams, DeliveryAssumption
<1>3. n \in seen[Owner[s]] \/ stale[Owner[s]] \/ stream[s].wire
  BY <1>1, <1>2 DEF NothingMissed, Told
<1> QED BY <1>2, <1>3

LEMMA ApartSignals ==
  ASSUME Inv, NothingMissed, Apart
  PROVE  NothingMissed'
<1> USE DEF Inv
<1>1. UNCHANGED <<subs, stream>> /\ Registered' = Registered
  BY DEF Apart, ShowScreen, Fetch, Store, Bury, ListDevices, SendNotification,
     RegisterSubscription, UnregisterSubscription, vars, Registered
<1>2. ASSUME NEW u \in Users, NEW c \in Channels, ShowScreen(u, c) PROVE NothingMissed'
  <2>1. notice' = notice /\ seen' = seen /\ stale' = [stale EXCEPT ![u] = TRUE]
    BY <1>2 DEF ShowScreen
  <2>2. \A v \in Users : stale[v] => stale'[v]
    BY <2>1 DEF Typed, TypeOK
  <2> QED BY <1>1, <2>1, <2>2, SignalsKept
<1>3. ASSUME NEW u \in Users, Fetch(u) PROVE NothingMissed'
  <2>1. /\ notice' = notice
        /\ seen' = [seen EXCEPT ![u] = {n \in Notices : /\ notice[n].row /\ notice[n].to = u
                                                       /\ ~notice[n].old}]
        /\ stale' = [stale EXCEPT ![u] = FALSE]
    BY <1>3 DEF Fetch
  <2> SUFFICES ASSUME NEW n \in Notices, NEW s \in Registered,
                      notice[n].row, ~notice[n].old, notice[n].pc # "stored", notice[n].to = Owner[s],
                      stream[s].link = "up", stream[s].chan \in Published(notice[n].kind)
               PROVE  n \in seen'[Owner[s]] \/ stale'[Owner[s]] \/ stream[s].wire
    BY <1>1, <2>1 DEF NothingMissed
  <2>2. Owner[s] \in Users
    BY RegisteredStreams, DeliveryAssumption
  <2>3. CASE Owner[s] = u
    BY <2>1, <2>2, <2>3 DEF Typed, TypeOK
  <2>4. CASE Owner[s] # u
    BY <2>1, <2>2, <2>4 DEF NothingMissed, Typed, TypeOK
  <2> QED BY <2>3, <2>4
<1>4. ASSUME NEW n \in Notices, NEW u \in Users, NEW k \in Kinds, Store(n, u, k)
      PROVE  NothingMissed'
  <2>1. UNCHANGED <<seen, stale>>
    BY <1>4 DEF Store
  <2>2. \A m \in Notices : Told(notice'[m]) => notice'[m] = notice[m]
    BY <1>4, StoreWorked DEF Told
  <2> QED BY <1>1, <2>1, <2>2, SignalsKept
<1>5. ASSUME NEW n \in Notices, Follows(n)
      PROVE  NothingMissed'
  <2>1. UNCHANGED <<seen, stale>>
    BY <1>5 DEF Follows, Bury, ListDevices, SendNotification
  <2>2. \A m \in Notices : Told(notice'[m]) =>
          Told(notice[m]) /\ notice'[m].to = notice[m].to /\ notice'[m].kind = notice[m].kind
    BY <1>5, FollowsWorked DEF Told
  <2> QED BY <1>1, <2>1, <2>2, SignalsKept
<1>6. ASSUME \/ \E u \in Users, e \in Endpoints :
                  RegisterSubscription(u, e) \/ UnregisterSubscription(u, e)
             \/ UNCHANGED vars
      PROVE  NothingMissed'
  <2>1. UNCHANGED <<seen, stale, notice>>
    BY <1>6 DEF RegisterSubscription, UnregisterSubscription, vars
  <2> QED BY <1>1, <2>1, SignalsKept
<1> QED BY <1>2, <1>3, <1>4, <1>5, <1>6 DEF Apart, Follows

LEMMA ClientSignals ==
  ASSUME Inv, NothingMissed,
         \/ \E u \in Users, c \in Channels : HideScreen(u, c)
         \/ \E s \in Streams : Sever(s) \/ Hear(s)
         \/ \E u \in Users, s \in Streams : StreamMission(u, s)
  PROVE  NothingMissed'
<1> USE DEF Inv
<1>1. Registered' = Registered /\ UNCHANGED <<notice, seen>> /\ Registered \subseteq Streams
  BY RegisteredStreams DEF HideScreen, Sever, Hear, StreamMission, Registered
<1>2. ASSUME NEW u \in Users, NEW c \in Channels, HideScreen(u, c) PROVE NothingMissed'
  <2>1. \A s \in Streams : stream'[s] \in {Ended(s), stream[s]}
    BY <1>2 DEF HideScreen
  <2>2. stale' = stale
    BY <1>2 DEF HideScreen
  <2>3. \A s \in Streams : stream'[s].link = "up" => stream'[s] = stream[s]
    BY <2>1, EndedRow
  <2> QED BY <1>1, <2>2, <2>3, SignalsKept
<1>3. ASSUME NEW s \in Streams, Sever(s) PROVE NothingMissed'
  <2>1. stream' = [stream EXCEPT ![s] = Ended(s)] /\ stale' = stale
    BY <1>3 DEF Sever
  <2>2. \A t \in Streams : stream'[t].link = "up" => stream'[t] = stream[t]
    BY <2>1, EndedRow DEF Typed, TypeOK
  <2> QED BY <1>1, <2>1, <2>2, SignalsKept
<1>4. ASSUME NEW s \in Streams, Hear(s) PROVE NothingMissed'
  <2>1. stream' = [stream EXCEPT ![s].wire = FALSE] /\ stale' = [stale EXCEPT ![Owner[s]] = TRUE]
    BY <1>4 DEF Hear
  <2>2. Owner[s] \in Users
    BY DeliveryAssumption
  <2>3. \A u \in Users : (stale[u] => stale'[u]) /\ stale'[Owner[s]]
    BY <2>1, <2>2 DEF Typed, TypeOK
  <2>4. \A t \in Streams : /\ stream'[t].link = stream[t].link /\ stream'[t].chan = stream[t].chan
                           /\ t # s => stream'[t] = stream[t]
    BY <2>1 DEF Typed, TypeOK, StreamRow
  <2>5. \A t \in Registered' : stream'[t].link = "up" =>
          /\ stream[t].link = "up" /\ stream'[t].chan = stream[t].chan
          /\ stream[t].wire => stream'[t].wire \/ stale'[Owner[t]]
    BY <1>1, <2>2, <2>3, <2>4
  <2> QED BY <1>1, <2>3, <2>5, SignalsKept
<1>5. ASSUME NEW u \in Users, NEW s \in Streams, StreamMission(u, s) PROVE NothingMissed'
  <2>1. s \notin Registered /\ stale' = stale
        /\ stream' = [stream EXCEPT ![s] = [Down EXCEPT !.chan = "mission", !.link = "asking"]]
    BY <1>5 DEF StreamMission, Free
  <2>2. \A t \in Registered : stream'[t] = stream[t]
    BY <1>1, <2>1 DEF Typed, TypeOK
  <2> QED BY <1>1, <2>1, <2>2, SignalsKept
<1> QED BY <1>2, <1>3, <1>4, <1>5

\* A stream that opens is greeted: its client fetches when it hears that.
LEMMA OpenSignals ==
  ASSUME Inv, NothingMissed, NEW s \in Streams, s \notin Registered,
         NEW c \in Channels, NEW alive \in BOOLEAN, Subscribe(s, c, alive),
         UNCHANGED <<notice, seen, stale>>
  PROVE  NothingMissed'
<1> USE DEF Inv
<1>1. /\ Registered' = (Registered \ Evicted(Owner[s]).out) \cup {s}
      /\ stream'[s].wire = alive
      /\ stream'[s].link = IF alive THEN "up" ELSE "down"
      /\ \A t \in Streams \ {s} :
           stream'[t] = IF t \in Evicted(Owner[s]).out THEN Down ELSE stream[t]
  BY SubscribeSteps
<1>2. Registered \subseteq Streams
  BY RegisteredStreams
<1>3. \A t \in Registered' : t = s \/ (t \in Registered /\ stream'[t] = stream[t])
  BY <1>1, <1>2
<1>4. stream'[s].link = "up" => stream'[s].wire
  BY <1>1
<1> QED BY <1>3, <1>4 DEF NothingMissed

LEMMA ServerSignals ==
  ASSUME Inv, NothingMissed,
         \/ \E u \in Users, s \in Streams : StreamUser(u, s) \/ StreamTechnician(u, s)
         \/ \E s \in Streams : StreamMissionRead(s) \/ Unsubscribe(s)
         \/ PingAll
  PROVE  NothingMissed'
<1> USE DEF Inv
<1>1. ASSUME NEW u \in Users, NEW s \in Streams, StreamUser(u, s) \/ StreamTechnician(u, s)
      PROVE  NothingMissed'
  <2>1. /\ s \notin Registered /\ Subscribe(s, "user", TRUE) /\ "user" \in Channels
        /\ UNCHANGED <<notice, seen, stale>>
    BY <1>1 DEF StreamUser, StreamTechnician, Free, Channels
  <2> QED BY <2>1, OpenSignals
<1>2. ASSUME NEW s \in Streams, StreamMissionRead(s) PROVE NothingMissed'
  <2>1. s \notin Registered /\ UNCHANGED <<notice, seen, stale>>
    BY <1>2 DEF StreamMissionRead, Linked, Unheard
  <2>2. CASE Owner[s] \in Parties
    <3> DEFINE alive == stream[s].link = "asking"
    <3>1. Subscribe(s, "mission", alive) /\ "mission" \in Channels /\ alive \in BOOLEAN
      BY <1>2, <2>2 DEF StreamMissionRead, Channels
    <3> HIDE DEF alive
    <3> QED BY <2>1, <3>1, OpenSignals
  <2>3. CASE Owner[s] \notin Parties
    <3>1. subs' = subs /\ stream' = [stream EXCEPT ![s] = Down]
      BY <1>2, <2>3 DEF StreamMissionRead
    <3>2. Registered' = Registered
      BY <3>1 DEF Registered
    <3>3. \A t \in Registered : stream'[t] = stream[t]
      BY <2>1, <3>1, RegisteredStreams DEF Typed, TypeOK
    <3> QED BY <2>1, <3>2, <3>3, SignalsKept
  <2> QED BY <2>2, <2>3
<1>3. ASSUME NEW s \in Streams, Unsubscribe(s) PROVE NothingMissed'
  <2>1. /\ subs' = Without({s}) /\ stream' = [stream EXCEPT ![s] = Forgotten(s)]
        /\ UNCHANGED <<notice, seen, stale>>
    BY <1>3 DEF Unsubscribe
  <2>2. Registered' = Registered \ {s} /\ Registered \subseteq Streams
    <3>1. Registered' = Range(subs')
      BY DEF Registered
    <3> QED BY <2>1, <3>1, WithoutKeeps, RegisteredStreams
  <2>3. \A t \in Registered' : stream'[t] = stream[t]
    BY <2>1, <2>2 DEF Typed, TypeOK
  <2> QED BY <2>1, <2>2, <2>3, SignalsKept
<1>4. ASSUME PingAll PROVE NothingMissed'
  <2>1. PICK R \in SUBSET Registered :
          /\ subs' = Without(R)
          /\ stream' = [s \in Streams |->
               IF s \in R /\ stream[s].link = "up"
               THEN [stream[s] EXCEPT !.refused = TRUE]
               ELSE IF s \in R THEN Down ELSE stream[s]]
          /\ UNCHANGED <<notice, seen, stale>>
    BY <1>4 DEF PingAll
  <2>2. Registered' = Registered \ R /\ Registered \subseteq Streams
    <3>1. Registered' = Range(subs')
      BY DEF Registered
    <3> QED BY <2>1, <3>1, WithoutKeeps, RegisteredStreams
  <2>3. \A t \in Registered' : stream'[t] = stream[t]
    BY <2>1, <2>2
  <2> QED BY <2>1, <2>2, <2>3, SignalsKept
<1> QED BY <1>1, <1>2, <1>3, <1>4

\* What is announced is written to every open stream of its channels.
LEMMA AnnounceSignals ==
  ASSUME Inv, NothingMissed, NEW n \in Notices, Announce(n)
  PROVE  NothingMissed'
<1> USE DEF Inv
<1>1. PICK X \in SUBSET {s \in Hearing(n) : stream[s].link = "down"} :
        /\ Registered' = Registered \ X
        /\ \A s \in Streams :
             /\ stream'[s].link = stream[s].link
             /\ stream[s].link = "up" => /\ stream'[s].chan = stream[s].chan
                                         /\ stream'[s].wire = (stream[s].wire \/ s \in Hearing(n))
  BY AnnounceSteps
<1>2. /\ \A m \in Notices \ {n} : notice'[m] = notice[m]
      /\ notice'[n].to = notice[n].to /\ notice'[n].kind = notice[n].kind
  BY AnnounceWorked
<1>3. UNCHANGED <<seen, stale>> /\ Registered \subseteq Streams
  BY RegisteredStreams DEF Announce
<1> SUFFICES ASSUME NEW m \in Notices, NEW s \in Registered',
                    notice'[m].row, ~notice'[m].old, notice'[m].pc # "stored", notice'[m].to = Owner[s],
                    stream'[s].link = "up", stream'[s].chan \in Published(notice'[m].kind)
             PROVE  m \in seen[Owner[s]] \/ stale[Owner[s]] \/ stream'[s].wire
  BY <1>3 DEF NothingMissed
<1>4. s \in Registered /\ s \in Streams /\ stream[s].link = "up"
      /\ stream'[s].chan = stream[s].chan
      /\ stream'[s].wire = (stream[s].wire \/ s \in Hearing(n))
  BY <1>1, <1>3
<1>5. CASE m = n
  BY <1>2, <1>4, <1>5 DEF Hearing
<1>6. CASE m # n
  <2>1. notice'[m] = notice[m]
    BY <1>2, <1>6
  <2>2. m \in seen[Owner[s]] \/ stale[Owner[s]] \/ stream[s].wire
    BY <1>4, <2>1 DEF NothingMissed
  <2> QED BY <1>4, <2>2
<1> QED BY <1>5, <1>6

LEMMA SignalsStep == Inv /\ NothingMissed /\ [Next]_vars => NothingMissed'
<1> SUFFICES ASSUME Inv, NothingMissed, [Next]_vars PROVE NothingMissed'
  OBVIOUS
<1>1. ASSUME Crash PROVE NothingMissed'
  <2>1. Registered' = {}
    BY <1>1 DEF Crash, Registered, Range
  <2> QED BY <2>1 DEF NothingMissed
<1> QED BY <1>1, ApartSignals, ClientSignals, ServerSignals, AnnounceSignals DEF Next, Apart

-----------------------------------------------------------------------------
(* What Delivery keeps.                                                    *)

\* Every reachable state is well typed.
THEOREM DeliveryTyped == Spec => []TypeOK
<1>1. Inv => TypeOK
  BY DEF Inv, Typed
<1> QED BY <1>1, Invariant, PTL

\* For any accounts, connections and quota: no account holds more streams than
\* the quota, none is registered twice, and no client waits on a stream that the
\* server has forgotten, unless a ping was refused on it.
THEOREM RegistryAgrees == Spec => []RegistryServes
<1>1. Inv => RegistryServes
  BY RegisteredStreams DEF Inv, Typed, Linked, Quota, RegistryServes, QuotaHolds
<1> QED BY <1>1, Invariant, PTL

\* A notice that is announced as stored is stored, no user is both pushed and
\* rung for one notice, and no device keeps the push from the next one.
THEOREM NoticesArrive == Spec => []NoticesReach
<1>1. Inv => NoticesReach
  BY DEF Inv, Worked, Sound, NoticesReach, CreatedIsStored, NoDouble, EveryDeviceTried
<1> QED BY <1>1, Invariant, PTL

\* No signal is missed by an open stream, whatever events were lost before.
THEOREM SignalsArrive == Spec => []NothingMissed
<1>1. Init => NothingMissed
  BY DEF Init, NothingMissed, Registered, Range
<1> QED BY <1>1, SignalsStep, Invariant, PTL DEF Spec

-----------------------------------------------------------------------------
(* The reminders of a verification link.                                   *)

\* A sweep that has chosen an account.
Busy == sweep.pc \in {"check", "renew", "mail", "count"}

\* The flag is up while a sweep is under way.
Flagged == running \/ sweep.pc = "idle"

\* The window it has chosen is the count of the account until it is written.
Chosen ==
  Busy => /\ sweep.window \in DOMAIN Windows
          /\ user.state # "none"
          /\ user.reminders = sweep.window

Counted == MailsAreCounted

Reminding == VerificationTypeOK /\ Flagged /\ Chosen

LEMMA SweepFields ==
  ASSUME NEW pc \in {"idle", "select", "check", "renew", "mail", "count"}, NEW t \in Nat,
         NEW c \in 0 .. MaxReminders, NEW l \in Nat
  PROVE  /\ Sweep(pc, t, c, l) \in SweepSet
         /\ Sweep(pc, t, c, l).pc = pc /\ Sweep(pc, t, c, l).at = t
         /\ Sweep(pc, t, c, l).window = c /\ Sweep(pc, t, c, l).link = l
BY DEF Sweep, SweepSet, Link

LEMMA Fields ==
  ASSUME VerificationTypeOK
  PROVE  /\ user.state \in {"none", "active", "inactive", "deleted"}
         /\ user.link \in Nat /\ user.expires \in Nat
         /\ user.reminders \in 0 .. MaxReminders
         /\ sweep.at \in Nat /\ sweep.window \in 0 .. MaxReminders /\ sweep.link \in Nat
         /\ sweep.pc \in {"idle", "select", "check", "renew", "mail", "count"}
         /\ now \in Nat /\ issued \in Nat /\ sent \in Nat /\ uncounted \in Nat /\ faults \in Nat
         /\ 0 \in 0 .. MaxReminders
BY VerificationAssumption DEF VerificationTypeOK, UserRow, SweepSet, Link

\* What the updates of the row leave alone.
Same(u) == u.reminders = user.reminders /\ u.link = user.link /\ u.expires = user.expires

LEMMA LinkEdit ==
  ASSUME user \in UserRow, NEW l \in Nat, NEW e \in Nat,
         user' = [user EXCEPT !.link = l, !.expires = e]
  PROVE  /\ user' \in UserRow /\ user'.link = l /\ user'.expires = e
         /\ user'.reminders = user.reminders /\ user'.state = user.state
BY DEF UserRow, Link

LEMMA OpenEdit ==
  ASSUME user \in UserRow, NEW l \in Nat, NEW e \in Nat,
         user' = [user EXCEPT !.state = "active", !.link = l, !.expires = e]
  PROVE  /\ user' \in UserRow /\ user'.link = l
         /\ user'.reminders = user.reminders /\ user'.state = "active"
BY DEF UserRow, Link

LEMMA VerifyEdit ==
  ASSUME user \in UserRow, user' = [user EXCEPT !.verified = TRUE]
  PROVE  user' \in UserRow /\ Same(user') /\ user'.state = user.state
BY DEF UserRow, Same

LEMMA LeaveEdit ==
  ASSUME user \in UserRow, NEW s \in {"inactive", "deleted"}, user' = [user EXCEPT !.state = s]
  PROVE  user' \in UserRow /\ Same(user') /\ user'.state = s
BY DEF UserRow, Same

LEMMA CountEdit ==
  ASSUME user \in UserRow, NEW c \in 0 .. MaxReminders, NEW t \in Nat,
         user' = [user EXCEPT !.reminders = c, !.last = t]
  PROVE  /\ user' \in UserRow /\ user'.reminders = c /\ user'.state = user.state
         /\ user'.link = user.link
BY DEF UserRow

LEMMA Start == VerificationInit => Reminding /\ Counted
<1> SUFFICES ASSUME VerificationInit PROVE Reminding /\ Counted
  OBVIOUS
<1>1. /\ sweep \in SweepSet /\ sweep.pc = "idle"
  BY SweepFields, VerificationAssumption DEF VerificationInit
<1>2. user \in UserRow /\ user.reminders = 0 /\ user.link = 0
  BY VerificationAssumption DEF VerificationInit, UserRow, Link
<1>3. call \in [Requests -> CallSet]
  BY DEF VerificationInit, Call, CallSet, Link
<1>4. Reminding
  BY <1>1, <1>2, <1>3
     DEF VerificationInit, Reminding, VerificationTypeOK, Link, Chosen, Busy, Flagged
<1> QED BY <1>1, <1>2, <1>4 DEF VerificationInit, Counted, MailsAreCounted

-----------------------------------------------------------------------------
(* The requests, the clock and the departure leave the sweep alone. *)

LEMMA CallTyped ==
  ASSUME VerificationTypeOK, NEW w \in Requests, NEW pc \in {"idle", "mail", "verify", "resend"},
         NEW l \in Nat, Goto(w, pc, l)
  PROVE  call' \in [Requests -> CallSet]
<1>1. Call(pc, l) \in CallSet
  BY DEF Call, CallSet, Link
<1> QED BY <1>1 DEF VerificationTypeOK, Goto

\* A step outside the sweep that keeps the count and the existence of the row.
LEMMA InvKept ==
  ASSUME Reminding, user' \in UserRow, now' \in Nat,
         issued' \in Nat, mailbox' \subseteq Nat, swept' \in BOOLEAN,
         call' \in [Requests -> CallSet], UNCHANGED <<running, sweep, sent, faults, uncounted>>,
         user'.reminders = user.reminders, user.state # "none" => user'.state # "none"
  PROVE  Reminding'
<1>1. VerificationTypeOK'
  BY DEF Reminding, VerificationTypeOK, Link
<1>2. Chosen' /\ Flagged'
  BY DEF Reminding, Chosen, Busy, Flagged
<1> QED BY <1>1, <1>2 DEF Reminding

LEMMA RequestStep ==
  ASSUME Reminding, NEW w \in Requests, Request(w)
  PROVE  /\ Reminding' /\ UNCHANGED scheduler
         /\ user'.reminders = user.reminders
         /\ user'.state = user.state \/ (user.state = "none" /\ user'.state = "active")
<1>0. /\ VerificationTypeOK /\ user \in UserRow /\ 0 \in Nat /\ issued + 1 \in Nat
      /\ now + Ttl \in Nat
      /\ now \in Nat /\ issued \in Nat /\ mailbox \subseteq Nat
      /\ call \in [Requests -> CallSet] /\ call[w].link \in Nat /\ swept \in BOOLEAN
  BY VerificationAssumption DEF Reminding, VerificationTypeOK, Link, CallSet
<1> DEFINE Goal == /\ Reminding' /\ UNCHANGED scheduler
                   /\ user'.reminders = user.reminders
                   /\ user'.state = user.state \/ (user.state = "none" /\ user'.state = "active")
<1> SUFFICES Goal
  OBVIOUS
<1>a. ASSUME user' = user, issued' = issued, now' = now, UNCHANGED scheduler,
             mailbox' \subseteq Nat, call' \in [Requests -> CallSet]
      PROVE Goal
  BY <1>0, <1>a, InvKept DEF scheduler
<1>1. CASE Register(w)
  <2>1. call' \in [Requests -> CallSet]
    BY <1>0, <1>1, CallTyped DEF Register
  <2>2. /\ user' \in UserRow /\ user'.reminders = user.reminders
        /\ user'.link = issued + 1 /\ issued' = issued + 1 /\ user'.state = "active"
    BY <1>0, <1>1, OpenEdit DEF Register
  <2>3. UNCHANGED <<now, mailbox, scheduler>> /\ user.state = "none"
    BY <1>1 DEF Register
  <2> QED BY <1>0, <2>1, <2>2, <2>3, InvKept DEF scheduler
<1>2. CASE MailLink(w)
  <2>1. call' \in [Requests -> CallSet]
    BY <1>0, <1>2, CallTyped DEF MailLink
  <2> QED BY <1>0, <1>2, <1>a, <2>1 DEF MailLink
<1>3. ASSUME NEW l \in mailbox, VerifyRead(w, l) PROVE Goal
  <2>1. call' \in [Requests -> CallSet]
    BY <1>0, <1>3, CallTyped DEF VerifyRead
  <2> QED BY <1>0, <1>3, <1>a, <2>1 DEF VerifyRead
<1>4. CASE VerifyCommit(w)
  <2>1. call' \in [Requests -> CallSet]
    BY <1>0, <1>4, CallTyped DEF VerifyCommit
  <2>2. user' \in UserRow /\ Same(user') /\ user'.state = user.state
    BY <1>0, <1>4, VerifyEdit DEF VerifyCommit, Same
  <2> QED BY <1>0, <1>4, <2>1, <2>2, InvKept DEF VerifyCommit, Same, scheduler
<1>5. CASE ResendRead(w)
  <2>1. call' \in [Requests -> CallSet]
    BY <1>0, <1>5, CallTyped DEF ResendRead
  <2> QED BY <1>0, <1>5, <1>a, <2>1 DEF ResendRead
<1>6. CASE ResendWrite(w)
  <2>1. CASE Exists
    <3>1. /\ user' = [user EXCEPT !.link = issued + 1, !.expires = now + Ttl]
          /\ issued' = issued + 1 /\ Goto(w, "mail", issued + 1)
          /\ UNCHANGED <<now, mailbox, scheduler>>
      BY <1>6, <2>1 DEF ResendWrite, Draw
    <3>2. call' \in [Requests -> CallSet]
      BY <1>0, <3>1, CallTyped
    <3>3. /\ user' \in UserRow /\ user'.reminders = user.reminders /\ user'.state = user.state
          /\ user'.link = issued + 1
      BY <1>0, <3>1, LinkEdit
    <3> QED BY <1>0, <3>1, <3>2, <3>3, InvKept DEF scheduler
  <2>2. CASE ~Exists
    <3>1. call' \in [Requests -> CallSet]
      BY <1>0, <1>6, <2>2, CallTyped DEF ResendWrite
    <3> QED BY <1>0, <1>6, <1>a, <2>2, <3>1 DEF ResendWrite
  <2> QED BY <2>1, <2>2
<1> HIDE DEF Goal
<1> QED BY <1>1, <1>2, <1>3, <1>4, <1>5, <1>6 DEF Request

LEMMA OtherStep ==
  ASSUME Reminding, DayPasses \/ Leave \/ UNCHANGED verificationVars
  PROVE  /\ Reminding' /\ UNCHANGED <<sweep, sent, uncounted, issued>>
         /\ Same(user')
         /\ \/ user'.state = user.state
            \/ user.state = "active" /\ user'.state \in {"inactive", "deleted"}
<1>0. /\ VerificationTypeOK /\ user \in UserRow /\ now + 1 \in Nat /\ now \in Nat /\ issued \in Nat
      /\ mailbox \subseteq Nat /\ call \in [Requests -> CallSet] /\ swept \in BOOLEAN
  BY DEF Reminding, VerificationTypeOK, Link
<1>1. CASE DayPasses
  BY <1>0, <1>1, InvKept DEF DayPasses, Same
<1>2. CASE Leave
  <2>1. /\ user' \in UserRow /\ Same(user') /\ user.state = "active"
        /\ user'.state \in {"inactive", "deleted"}
    BY <1>0, <1>2, LeaveEdit DEF Leave
  <2> QED BY <1>0, <1>2, <2>1, InvKept DEF Leave, scheduler, Same
<1>3. CASE UNCHANGED verificationVars
  BY <1>0, <1>3, InvKept DEF verificationVars, scheduler, Same
<1> QED BY <1>1, <1>2, <1>3

-----------------------------------------------------------------------------
(* The sweeps. *)

LEMMA SweepEnded ==
  ASSUME VerificationTypeOK, SweepEnd
  PROVE  sweep' \in SweepSet /\ sweep'.pc = "idle" /\ running' \in BOOLEAN
<1>1. 0 \in Nat /\ 0 \in 0 .. MaxReminders
  BY VerificationAssumption
<1>2. sweep' = Sweep("idle", 0, 0, 0) /\ running' = FALSE
  BY DEF SweepEnd
<1>3. /\ Sweep("idle", 0, 0, 0) \in SweepSet /\ Sweep("idle", 0, 0, 0).pc = "idle"
  BY <1>1, SweepFields
<1> QED BY <1>2, <1>3

LEMMA Failed == ASSUME VerificationTypeOK, Fault PROVE faults' \in Nat
BY Fields DEF Fault

\* What a step of the scheduler does to the sweep it carries.
LEMMA SweepMoves ==
  ASSUME VerificationTypeOK
  PROVE  /\ SweepBegin => sweep' \in SweepSet /\ sweep'.pc = "select"
         /\ SweepSelect => \/ SweepEnd
                           \/ /\ sweep' \in SweepSet /\ sweep'.pc = "check" /\ running' = running
                              /\ user.state = "active"
                              /\ sweep'.window \in DOMAIN Windows
                              /\ sweep'.window = user.reminders
         /\ SweepCheck => \/ SweepEnd
                          \/ /\ sweep' \in SweepSet /\ sweep'.pc = "renew" /\ running' = running
                             /\ sweep'.window = sweep.window
         /\ SweepMail => /\ sweep' \in SweepSet /\ sweep'.pc = "count" /\ running' = running
                         /\ sweep'.window = sweep.window /\ sweep'.at = sweep.at
                         /\ sweep'.link = sweep.link /\ sent' = sent + 1
<1>0. sweep \in SweepSet
  BY DEF VerificationTypeOK
<1>1. SweepBegin => sweep' \in SweepSet /\ sweep'.pc = "select"
  <2>1. 0 \in Nat /\ 0 \in 0 .. MaxReminders /\ now \in Nat
    BY VerificationAssumption, Fields
  <2> QED BY <2>1, SweepFields DEF SweepBegin
<1>2. ASSUME SweepSelect, ~SweepEnd
      PROVE  /\ sweep' \in SweepSet /\ sweep'.pc = "check" /\ running' = running
             /\ user.state = "active"
             /\ sweep'.window \in DOMAIN Windows
             /\ sweep'.window = user.reminders
  <2>1. PICK c \in DOMAIN Windows : sweep' = Sweep("check", sweep.at, c, 0)
    BY <1>2 DEF SweepSelect
  <2>2. user.state = "active" /\ user.reminders = c /\ running' = running
    BY <1>2, <2>1 DEF SweepSelect, Selected
  <2>3. sweep.at \in Nat /\ c \in 0 .. MaxReminders /\ 0 \in Nat
    BY <2>2, Fields
  <2> QED BY <2>1, <2>2, <2>3, SweepFields
<1>3. SweepCheck => \/ SweepEnd
                    \/ /\ sweep' \in SweepSet /\ sweep'.pc = "renew" /\ running' = running
                       /\ sweep'.window = sweep.window
  BY <1>0 DEF SweepCheck, SweepSet
<1>4. SweepMail => /\ sweep' \in SweepSet /\ sweep'.pc = "count" /\ running' = running
                   /\ sweep'.window = sweep.window /\ sweep'.at = sweep.at
                   /\ sweep'.link = sweep.link /\ sent' = sent + 1
  BY <1>0 DEF SweepMail, SweepSet
<1> QED BY <1>1, <1>2, <1>3, <1>4

\* A sweep that renews a link.
LEMMA Renewal ==
  ASSUME VerificationTypeOK, SweepRenew
  PROVE  \/ SweepEnd /\ user' = user /\ issued' = issued
         \/ /\ sweep' \in SweepSet /\ sweep'.pc = "mail" /\ running' = running
            /\ sweep'.window = sweep.window /\ sweep'.at = sweep.at /\ sweep'.link = issued + 1
            /\ user' \in UserRow /\ user'.reminders = user.reminders /\ user'.state = user.state
            /\ user'.link = issued + 1 /\ user'.expires = sweep.at + Ttl /\ issued' = issued + 1
<1>1. CASE Draw(sweep.at) /\ UNCHANGED <<running, faults>>
           /\ sweep' = Sweep("mail", sweep.at, sweep.window, issued')
  <2>1. /\ user' = [user EXCEPT !.link = issued + 1, !.expires = sweep.at + Ttl]
        /\ issued' = issued + 1 /\ running' = running
        /\ sweep' = Sweep("mail", sweep.at, sweep.window, issued + 1)
    BY <1>1 DEF Draw
  <2>2. /\ issued + 1 \in Nat /\ sweep.at + Ttl \in Nat /\ sweep.at \in Nat
        /\ sweep.window \in 0 .. MaxReminders /\ user \in UserRow
    BY Fields, VerificationAssumption DEF VerificationTypeOK
  <2>3. /\ user' \in UserRow /\ user'.reminders = user.reminders /\ user'.state = user.state
        /\ user'.link = issued + 1 /\ user'.expires = sweep.at + Ttl
    BY <2>1, <2>2, LinkEdit
  <2>4. /\ sweep' \in SweepSet /\ sweep'.pc = "mail" /\ sweep'.window = sweep.window
        /\ sweep'.at = sweep.at /\ sweep'.link = issued + 1
    BY <2>1, <2>2, SweepFields
  <2> QED BY <2>1, <2>3, <2>4
<1>2. CASE SweepEnd /\ UNCHANGED <<user, issued>>
  BY <1>2
<1> QED BY <1>1, <1>2 DEF SweepRenew

\* A sweep that counts its reminder, or fails to.
LEMMA Count ==
  ASSUME Reminding, SweepCount
  PROVE  /\ SweepEnd /\ sweep.pc = "count" /\ sent' = sent /\ faults' \in Nat
         /\ user' \in UserRow /\ user'.state = user.state /\ user'.link = user.link
         /\ \/ user'.reminders = user.reminders + 1 /\ uncounted' = uncounted
            \/ user' = user /\ uncounted' = uncounted + 1
<1>1. sweep.pc = "count" /\ SweepEnd /\ sent' = sent
  BY DEF SweepCount
<1>2. /\ sweep.window \in DOMAIN Windows /\ user.reminders = sweep.window
      /\ sweep.window + 1 \in 0 .. MaxReminders /\ user \in UserRow /\ sweep.at \in Nat
      /\ faults \in Nat
  BY <1>1, Fields, VerificationAssumption DEF Reminding, VerificationTypeOK, Chosen, Busy
<1>3. CASE user' = [user EXCEPT !.reminders = sweep.window + 1, !.last = sweep.at]
           /\ UNCHANGED <<faults, uncounted>>
  BY <1>1, <1>2, <1>3, CountEdit
<1>4. CASE user' = user /\ uncounted' = uncounted + 1 /\ (Fault \/ UNCHANGED faults)
  BY <1>1, <1>2, <1>4, Failed DEF Reminding
<1> QED BY <1>3, <1>4 DEF SweepCount

LEMMA SweepTyped ==
  ASSUME Reminding, SweepBegin \/ SweepStep
  PROVE  Reminding'
<1>0. VerificationTypeOK /\ Chosen /\ Flagged
  BY DEF Reminding
<1> USE VerificationAssumption DEF Link
<1>1. CASE SweepBegin
  <2>1. VerificationTypeOK'
    BY <1>0, <1>1, SweepMoves DEF SweepBegin, VerificationTypeOK
  <2> QED BY <1>0, <1>1, <2>1, SweepMoves DEF Reminding, Chosen, Busy, Flagged, SweepBegin
<1>2. CASE SweepSelect
  <2>1. UNCHANGED <<now, user, issued, mailbox, call, swept, sent, uncounted>> /\ faults' \in Nat
    BY <1>0, <1>2, Failed DEF SweepSelect, VerificationTypeOK
  <2>2. VerificationTypeOK'
    BY <1>0, <1>2, <2>1, SweepMoves, SweepEnded DEF VerificationTypeOK
  <2> QED BY <1>0, <1>2, <2>1, <2>2, SweepMoves, SweepEnded
         DEF Reminding, Chosen, Busy, Flagged, SweepEnd, SweepSelect
<1>3. CASE SweepCheck
  <2>1. UNCHANGED <<now, user, issued, mailbox, call, swept, sent, uncounted>>
        /\ sweep.pc = "check" /\ faults' \in Nat
    BY <1>0, <1>3, Failed DEF SweepCheck, VerificationTypeOK
  <2>2. VerificationTypeOK'
    BY <1>0, <1>3, <2>1, SweepMoves, SweepEnded DEF VerificationTypeOK
  <2> QED BY <1>0, <1>3, <2>1, <2>2, SweepMoves, SweepEnded
         DEF Reminding, Chosen, Busy, Flagged, SweepEnd, SweepSelect
<1>4. CASE SweepRenew
  <2>1. UNCHANGED <<now, mailbox, call, swept, sent, uncounted>> /\ sweep.pc = "renew"
        /\ faults' \in Nat
    BY <1>0, <1>4, Failed DEF SweepRenew, VerificationTypeOK
  <2>2. VerificationTypeOK'
    BY <1>0, <1>4, <2>1, Renewal, SweepEnded DEF VerificationTypeOK
  <2> QED BY <1>0, <1>4, <2>1, <2>2, Renewal, SweepEnded
         DEF Reminding, Chosen, Busy, Flagged, SweepEnd, SweepSelect
<1>5. CASE SweepMail
  <2>1. /\ UNCHANGED <<now, user, issued, call, swept, uncounted>> /\ sweep.pc = "mail"
        /\ faults' \in Nat /\ mailbox' \subseteq mailbox \cup {sweep.link}
    BY <1>0, <1>5, Failed DEF SweepMail, VerificationTypeOK
  <2>2. VerificationTypeOK'
    BY <1>0, <1>5, <2>1, SweepMoves, SweepEnded, Fields DEF VerificationTypeOK
  <2> QED BY <1>0, <1>5, <2>1, <2>2, SweepMoves, SweepEnded
         DEF Reminding, Chosen, Busy, Flagged, SweepEnd, SweepSelect
<1>6. CASE SweepCount
  <2>1. UNCHANGED <<now, issued, mailbox, call, swept>>
    BY <1>6 DEF SweepCount
  <2>2. VerificationTypeOK'
    BY <1>0, <1>6, <2>1, Count, SweepEnded DEF VerificationTypeOK
  <2> QED BY <1>0, <1>6, <2>2, Count, SweepEnded
         DEF Reminding, Chosen, Busy, Flagged, SweepEnd, SweepSelect
<1> QED BY <1>1, <1>2, <1>3, <1>4, <1>5, <1>6 DEF SweepStep

\* Only the mail and the count move the counters.
LEMMA SweepCounted ==
  ASSUME Reminding, Counted, SweepBegin \/ SweepStep
  PROVE  Counted'
<1>0. VerificationTypeOK /\ Flagged
  BY DEF Reminding
<1> USE DEF Counted, MailsAreCounted
<1>1. CASE SweepBegin
  BY <1>0, <1>1, SweepMoves DEF SweepBegin, Flagged
<1>2. CASE SweepSelect
  <2>1. sweep'.pc # "count" /\ sweep.pc = "select"
    BY <1>0, <1>2, SweepMoves, SweepEnded DEF SweepSelect
  <2> QED BY <1>2, <2>1 DEF SweepSelect
<1>3. CASE SweepCheck
  <2>1. sweep'.pc # "count" /\ sweep.pc = "check"
    BY <1>0, <1>3, SweepMoves, SweepEnded DEF SweepCheck
  <2> QED BY <1>3, <2>1 DEF SweepCheck
<1>4. CASE SweepRenew
  <2>1. /\ sweep'.pc # "count" /\ sweep.pc = "renew" /\ UNCHANGED <<sent, uncounted>>
        /\ user'.reminders = user.reminders /\ user'.state = user.state
    BY <1>0, <1>4, Renewal, SweepEnded DEF SweepRenew
  <2> QED BY <2>1
<1>5. CASE SweepMail
  <2>1. UNCHANGED <<user, uncounted>> /\ sweep.pc = "mail"
    BY <1>5 DEF SweepMail
  <2>2. sweep'.pc = "count" /\ sent' = sent + 1
    BY <1>0, <1>5, SweepMoves
  <2> QED BY <1>0, <2>1, <2>2, Fields
<1>6. CASE SweepCount
  <2>1. sweep'.pc = "idle"
    BY <1>0, <1>6, Count, SweepEnded
  <2>2. CASE user'.reminders = user.reminders + 1 /\ uncounted' = uncounted
    <3>1. /\ user.state # "deleted" => sent = user.reminders + uncounted + 1
          /\ sent' = sent /\ user'.state = user.state
      BY <1>6, Count
    <3>2. user.reminders \in Nat /\ uncounted \in Nat
      BY <1>0, Fields
    <3>3. user'.state # "deleted" => sent' = user'.reminders + uncounted'
      BY <2>2, <3>1, <3>2
    <3>4. user'.reminders + uncounted' \in Nat
      BY <2>2, <3>2
    <3> QED BY <2>1, <3>3, <3>4
  <2>3. CASE user' = user /\ uncounted' = uncounted + 1
    BY <1>0, <1>6, <2>1, <2>3, Count, Fields
  <2> QED BY <1>6, <2>2, <2>3, Count
<1> QED BY <1>1, <1>2, <1>3, <1>4, <1>5, <1>6 DEF SweepStep

-----------------------------------------------------------------------------

LEMMA RemindingStep == Reminding /\ [VerificationNext]_verificationVars => Reminding'
BY RequestStep, OtherStep, SweepTyped DEF VerificationNext

LEMMA CountedStep == Reminding /\ Counted /\ [VerificationNext]_verificationVars => Counted'
<1> SUFFICES ASSUME Reminding, Counted, [VerificationNext]_verificationVars PROVE Counted'
  OBVIOUS
<1>1. ASSUME NEW w \in Requests, Request(w) PROVE Counted'
  BY <1>1, RequestStep DEF Counted, MailsAreCounted, scheduler
<1>2. CASE DayPasses \/ Leave \/ UNCHANGED verificationVars
  BY <1>2, OtherStep DEF Counted, MailsAreCounted, Same
<1> QED BY <1>1, <1>2, SweepCounted DEF VerificationNext

\* TypeOK: in particular the count of an account never passes the maximum.
THEOREM VerificationTyped == VerificationSpec => []VerificationTypeOK
<1>1. Reminding => VerificationTypeOK
  BY DEF Reminding
<1> QED BY <1>1, Start, RemindingStep, PTL DEF VerificationSpec

\* MailsAreCounted: with one scheduler, the absolute count loses no reminder.
THEOREM RemindersCounted == VerificationSpec => []MailsAreCounted
BY Start, RemindingStep, CountedStep, PTL DEF VerificationSpec, Counted
=============================================================================
