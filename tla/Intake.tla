------------------------------- MODULE Intake -------------------------------
(***************************************************************************)
(* From the visitor's draft to the client's request                        *)
(* (demandes/demande-draft.service.ts, demande-draft-throttle.guard.ts,    *)
(* demande-media.service.ts and DemandesService.create).                   *)
(*                                                                         *)
(* A draft lives under a secret token for a few days and may be read and   *)
(* patched by anyone who has the token.  Converting it takes two           *)
(* transactions, one that creates the Demande and one that marks the       *)
(* draft; a map in memory serialises the conversions of one token.  Files  *)
(* are uploaded before the Demande exists and named when it is created.    *)
(*                                                                         *)
(* Each request makes one call of the API, and the Demande it creates and  *)
(* the file it has uploaded bear its name.  torn is a history variable:    *)
(* the requests whose Demande was created and which were told of a failure, *)
(* and the conversions that began after another one had marked the draft   *)
(* they had read.                                                          *)
(***************************************************************************)
EXTENDS Integers, FiniteSets

CONSTANTS
    Tokens,       \* randomUUID: none is drawn twice
    Requests,
    Contents,     \* what a draft or a Demande says
    Unfit,        \* what DemandesService.create refuses, such as a past date
    Retention,    \* DRAFT_RETENTION_MS, in ticks
    Window,       \* DRAFT_THROTTLE_WINDOW_MS, in ticks
    Limit,        \* @DraftThrottle of each route
    MaxAttempts,  \* REFERENCE_MAX_ATTEMPTS
    MaxTime,      \* bound on the clock
    MaxCrashes,   \* bound on restarts
    None

Routes == {"POST", "PATCH", "GET"}

ASSUME IntakeAssumption ==
    /\ None \notin Requests \cup Contents \cup Tokens
    /\ Unfit \subseteq Contents
    /\ Retention \in Nat /\ Window \in Nat \ {0}
    /\ Limit \in [Routes -> Nat]
    /\ MaxAttempts \in Nat /\ MaxTime \in Nat /\ MaxCrashes \in Nat

\* The columns of DemandeDraft that the code decides on, and of Demande.
Drafts == [at : {"unborn", "live", "gone"}, content : Contents \cup {None},
           expires : Nat, to : Requests \cup {None}]
NoDraft == [at |-> "unborn", content |-> None, expires |-> 0, to |-> None]

Demandes == [made : BOOLEAN, from : Tokens \cup {None}, content : Contents \cup {None},
             media : BOOLEAN]
NoDemande == [made |-> FALSE, from |-> None, content |-> None, media |-> FALSE]

VARIABLES
    now,
    draft,        \* per token
    demande,      \* per request that creates one
    conversions,  \* per token: the request in the map of running conversions
    req,          \* per request: where it stands and what it has read
    stored,       \* requests whose uploaded file is in storage
    hits,         \* the guard's memory for one address
    accepted,     \* history: every call the guard let pass since the start
    torn,         \* history
    crashes

vars == <<now, draft, demande, conversions, req, stored, hits, accepted, torn, crashes>>
guard == <<hits, accepted>>
rows == <<draft, demande, conversions>>

Init ==
    /\ now = 0
    /\ draft = [t \in Tokens |-> NoDraft]
    /\ demande = [q \in Requests |-> NoDemande]
    /\ conversions = [t \in Tokens |-> None]
    /\ req = [q \in Requests |-> [at |-> "new", path |-> FALSE]]
    /\ stored = {} /\ hits = {} /\ accepted = {} /\ torn = {}
    /\ crashes = 0

----------------------------------------------------------------------------
\* What is written for a request that has its answer, or waits for a database.
Answered(ok, path) == [at |-> "done", ok |-> ok, path |-> path]
Awaits(q, x)       == req' = [req EXCEPT ![q] = x]

\* loadUsable: 404, 409 and 410, in this order, leave a draft that is neither
\* converted nor expired.
Usable(t) == draft[t].at = "live" /\ draft[t].to = None /\ draft[t].expires >= now

(* The guard *)

\* Mutant: the window is one tick shorter than announced.
RecentShort == {h \in hits : h.at > now - Window + 1}

Recent == {h \in hits : h.at > now - Window}

\* A call takes its place in the window, or is refused; one list of hits is
\* kept for an address, whichever of the three routes it calls.
Admit(q, route) ==
    LET h == [by |-> q, route |-> route, at |-> now]
    IN  /\ Cardinality(Recent) < Limit[route]
        /\ hits' = Recent \cup {h}
        /\ accepted' = accepted \cup {h}

TooMany(q) ==
    /\ req[q].at = "new"
    /\ \E route \in Routes : Cardinality(Recent) >= Limit[route]
    /\ hits' = Recent
    /\ Awaits(q, Answered(FALSE, req[q].path))
    /\ UNCHANGED <<now, rows, stored, accepted, torn, crashes>>

(* Drafts *)

\* Mutant: the purge takes the converted drafts too.
PurgeAll(q, c) ==
    /\ req[q].at = "new" /\ Admit(q, "POST")
    /\ draft' = [t \in Tokens |-> IF draft[t].at = "live" /\ draft[t].expires < now
                                  THEN [draft[t] EXCEPT !.at = "gone"] ELSE draft[t]]
    /\ Awaits(q, [at |-> "insert", content |-> c, path |-> req[q].path])
    /\ UNCHANGED <<now, demande, conversions, stored, torn, crashes>>

\* create: the lazy purge of what has expired without being converted; its
\* failure is swallowed.
Purge(q, c) ==
    /\ req[q].at = "new" /\ Admit(q, "POST")
    /\ \/ draft' = [t \in Tokens |->
                     IF draft[t].at = "live" /\ draft[t].expires < now /\ draft[t].to = None
                     THEN [draft[t] EXCEPT !.at = "gone"] ELSE draft[t]]
       \/ UNCHANGED draft
    /\ Awaits(q, [at |-> "insert", content |-> c, path |-> req[q].path])
    /\ UNCHANGED <<now, demande, conversions, stored, torn, crashes>>

\* The insertion is refused, whatever was purged.
InsertFails(q) ==
    /\ req[q].at = "insert"
    /\ Awaits(q, Answered(FALSE, req[q].path))
    /\ UNCHANGED <<now, rows, stored, guard, torn, crashes>>

Insert(q, t) ==
    /\ req[q].at = "insert"
    /\ draft[t].at = "unborn"
    /\ draft' = [draft EXCEPT ![t] = [at |-> "live", content |-> req[q].content,
                                      expires |-> now + Retention, to |-> None]]
    /\ Awaits(q, Answered(TRUE, req[q].path))
    /\ UNCHANGED <<now, demande, conversions, stored, guard, torn, crashes>>

\* getByToken.
Get(q, t) ==
    /\ req[q].at = "new" /\ Admit(q, "GET")
    /\ Awaits(q, Answered(Usable(t), req[q].path))
    /\ UNCHANGED <<now, rows, stored, torn, crashes>>

\* update: the draft is usable when it is read, and is then written by token.
PatchRead(q, t, c) ==
    /\ req[q].at = "new" /\ Admit(q, "PATCH")
    /\ Awaits(q, IF Usable(t)
                 THEN [at |-> "patch", token |-> t, content |-> c, path |-> req[q].path]
                 ELSE Answered(FALSE, req[q].path))
    /\ UNCHANGED <<now, rows, stored, torn, crashes>>

PatchCommit(q) ==
    /\ req[q].at = "patch"
    /\ LET t == req[q].token IN
         \/ /\ draft[t].at = "live"
            /\ draft' = [draft EXCEPT ![t] = [@ EXCEPT !.content = req[q].content]]
            /\ Awaits(q, Answered(TRUE, req[q].path))
         \/ /\ draft[t].at # "live"                                   \* P2025
            /\ Awaits(q, Answered(FALSE, req[q].path))
            /\ UNCHANGED draft
    /\ UNCHANGED <<now, demande, conversions, stored, guard, torn, crashes>>

----------------------------------------------------------------------------
(* Conversion *)

\* convert: loadUsable, and what comes after its answer.
ConvertRead(q, t) ==
    /\ req[q].at = "new"
    /\ Awaits(q, IF Usable(t)
                 THEN [at |-> "convert", token |-> t, draft |-> draft[t], path |-> req[q].path]
                 ELSE Answered(FALSE, req[q].path))
    /\ UNCHANGED <<now, rows, stored, guard, torn, crashes>>

\* Mutant: the map of running conversions is written and not consulted.
ConvertEnterAlone(q) ==
    /\ req[q].at = "convert"
    /\ LET t == req[q].token IN
       /\ conversions' = [conversions EXCEPT ![t] = q]
       /\ torn' = IF draft[t].to # req[q].draft.to THEN torn \cup {q} ELSE torn
       /\ Awaits(q, [at |-> "create", token |-> t, content |-> req[q].draft.content,
                     attempts |-> 0, path |-> req[q].path])
    /\ UNCHANGED <<now, draft, demande, stored, guard, crashes>>

\* A conversion of this token is running: its answer will be shared.  If none
\* is, this request leads one, with the draft as it has read it.
ConvertEnter(q) ==
    /\ req[q].at = "convert"
    /\ LET t == req[q].token IN
         \/ /\ conversions[t] # None
            /\ Awaits(q, [at |-> "follow", token |-> t, leader |-> conversions[t],
                          path |-> req[q].path])
            /\ UNCHANGED <<conversions, torn>>
         \/ /\ conversions[t] = None
            /\ conversions' = [conversions EXCEPT ![t] = q]
            /\ torn' = IF draft[t].to # req[q].draft.to THEN torn \cup {q} ELSE torn
            /\ Awaits(q, [at |-> "create", token |-> t, content |-> req[q].draft.content,
                          attempts |-> 0, path |-> req[q].path])
    /\ UNCHANGED <<now, draft, demande, stored, guard, crashes>>

\* POST /demandes, without a draft.
CreateDirect(q, c) ==
    /\ req[q].at = "new"
    /\ Awaits(q, [at |-> "create", token |-> None, content |-> c, attempts |-> 0,
                  path |-> req[q].path])
    /\ UNCHANGED <<now, rows, stored, guard, torn, crashes>>

\* The promise of a conversion is settled: the map forgets it, and whoever
\* follows it has the same answer.
Settles(q, ok) ==
    LET t == req[q].token
    IN  /\ conversions' = IF t = None THEN conversions ELSE [conversions EXCEPT ![t] = None]
        /\ req' = [r \in Requests |->
                     IF r = q \/ (req[r].at = "follow" /\ req[r].leader = q)
                     THEN Answered(ok, req[r].path) ELSE req[r]]

\* DemandesService.create: one transaction; the file is named in it.  The answer
\* to a direct request may be lost after it.
CreateCommit(q) ==
    /\ req[q].at = "create" /\ req[q].content \notin Unfit
    /\ demande' = [demande EXCEPT ![q] = [made |-> TRUE, from |-> req[q].token,
                                          content |-> req[q].content, media |-> req[q].path]]
    /\ \/ req[q].token = None /\ Settles(q, TRUE) /\ UNCHANGED torn
       \/ req[q].token = None /\ Settles(q, FALSE) /\ torn' = torn \cup {q}
       \/ /\ req[q].token # None
          /\ Awaits(q, [at |-> "mark", token |-> req[q].token, path |-> req[q].path])
          /\ UNCHANGED <<conversions, torn>>
    /\ UNCHANGED <<now, draft, stored, guard, crashes>>

\* The reference drawn is taken (P2002): another is drawn, a few times.
CreateCollides(q) ==
    /\ req[q].at = "create" /\ req[q].content \notin Unfit
    /\ \/ /\ req[q].attempts + 1 < MaxAttempts
          /\ Awaits(q, [req[q] EXCEPT !.attempts = @ + 1])
          /\ UNCHANGED conversions
       \/ /\ req[q].attempts + 1 >= MaxAttempts
          /\ Settles(q, FALSE)
    /\ UNCHANGED <<now, draft, demande, stored, guard, torn, crashes>>

\* What it says is refused, or the database fails: no Demande, and the draft
\* remains to be converted.
CreateFails(q) ==
    /\ req[q].at = "create"
    /\ Settles(q, FALSE)
    /\ UNCHANGED <<now, draft, demande, stored, guard, torn, crashes>>

\* The second transaction, whatever the draft has become but a deleted row.
\* Its answer may be lost too.
MarkCommit(q) ==
    /\ req[q].at = "mark"
    /\ draft[req[q].token].at = "live"
    /\ draft' = [draft EXCEPT ![req[q].token] = [@ EXCEPT !.to = q]]
    /\ \/ Settles(q, TRUE) /\ UNCHANGED torn
       \/ Settles(q, FALSE) /\ torn' = torn \cup {q}
    /\ UNCHANGED <<now, demande, stored, guard, crashes>>

\* Mutant: the map forgets a conversion only when it succeeds.
MarkFailsKeeps(q) ==
    /\ req[q].at = "mark"
    /\ torn' = torn \cup {q}
    /\ Awaits(q, Answered(FALSE, req[q].path))
    /\ UNCHANGED <<now, rows, stored, guard, crashes>>

\* Mutant: a failure to mark the draft is swallowed.
MarkFailsSilent(q) ==
    /\ req[q].at = "mark"
    /\ torn' = torn \cup {q}
    /\ Settles(q, TRUE)
    /\ UNCHANGED <<now, draft, demande, stored, guard, crashes>>

\* The row was purged, or the database fails: the Demande exists and the
\* client has an error.
MarkFails(q) ==
    /\ req[q].at = "mark"
    /\ torn' = torn \cup {q}
    /\ Settles(q, FALSE)
    /\ UNCHANGED <<now, draft, demande, stored, guard, crashes>>

----------------------------------------------------------------------------
(* Files *)

\* Mutant: the path is answered before the object is stored.
UploadUnawaited(q) ==
    /\ req[q].at = "new" /\ ~req[q].path
    /\ Awaits(q, [at |-> "new", path |-> TRUE])
    /\ UNCHANGED <<now, rows, stored, guard, torn, crashes>>

\* uploadMedia: the object is stored, then its path is known; no row is made.
Upload(q) ==
    /\ req[q].at = "new" /\ ~req[q].path
    /\ stored' = stored \cup {q}
    /\ Awaits(q, [at |-> "new", path |-> TRUE])
    /\ UNCHANGED <<now, rows, guard, torn, crashes>>

\* deleteUploadedMedia, which the client calls when it is told that its call
\* failed: only the path's owner is checked.
Cleanup(q) ==
    /\ req[q].at = "done" /\ ~req[q].ok /\ req[q].path
    /\ stored' = stored \ {q}
    /\ Awaits(q, Answered(FALSE, FALSE))
    /\ UNCHANGED <<now, rows, guard, torn, crashes>>

----------------------------------------------------------------------------
Tick ==
    /\ now < MaxTime
    /\ now' = now + 1
    /\ UNCHANGED <<rows, req, stored, guard, torn, crashes>>

\* The process restarts: calls under way fail, what is in memory is gone.
Crash ==
    /\ crashes < MaxCrashes
    /\ crashes' = crashes + 1
    /\ req' = [q \in Requests |-> IF req[q].at \in {"new", "done"} THEN req[q]
                                  ELSE Answered(FALSE, req[q].path)]
    /\ conversions' = [t \in Tokens |-> None]
    /\ hits' = {} /\ accepted' = {}
    /\ torn' = torn \cup {q \in Requests : req[q].at = "mark"}
    /\ UNCHANGED <<now, draft, demande, stored>>

Call(q) ==
    \/ TooMany(q)
    \/ \E c \in Contents : Purge(q, c)
    \/ \E t \in Tokens : Get(q, t)
    \/ \E t \in Tokens, c \in Contents : PatchRead(q, t, c)
    \/ \E t \in Tokens : ConvertRead(q, t)
    \/ \E c \in Contents : CreateDirect(q, c)
    \/ Upload(q)

Handle(q) ==
    \/ InsertFails(q)
    \/ \E t \in Tokens : Insert(q, t)
    \/ PatchCommit(q)
    \/ ConvertEnter(q)
    \/ CreateCommit(q)
    \/ CreateCollides(q)
    \/ CreateFails(q)
    \/ MarkCommit(q)
    \/ MarkFails(q)
    \/ Cleanup(q)

Next == Tick \/ Crash \/ \E q \in Requests : (req[q].at = "new" /\ Call(q)) \/ Handle(q)

Spec == Init /\ [][Next]_vars

----------------------------------------------------------------------------
(* Properties *)

Pending ==
    [at : {"new"}, path : BOOLEAN]
    \cup [at : {"done"}, ok : BOOLEAN, path : BOOLEAN]
    \cup [at : {"insert"}, content : Contents, path : BOOLEAN]
    \cup [at : {"patch"}, token : Tokens, content : Contents, path : BOOLEAN]
    \cup [at : {"convert"}, token : Tokens, draft : Drafts, path : BOOLEAN]
    \cup [at : {"follow"}, token : Tokens, leader : Requests, path : BOOLEAN]
    \cup [at : {"create"}, token : Tokens \cup {None}, content : Contents \cup {None},
          attempts : Nat, path : BOOLEAN]
    \cup [at : {"mark"}, token : Tokens, path : BOOLEAN]

Hits == [by : Requests, route : Routes, at : Nat]

\* The shape of the state.
TypeOK ==
    /\ now \in Nat /\ crashes \in Nat
    /\ draft \in [Tokens -> Drafts]
    /\ demande \in [Requests -> Demandes]
    /\ conversions \in [Tokens -> Requests \cup {None}]
    /\ req \in [Requests -> Pending]
    /\ stored \subseteq Requests /\ torn \subseteq Requests
    /\ hits \subseteq Hits /\ accepted \subseteq Hits

\* One token makes one Demande, through double clicks, retries and failures,
\* unless the client was told that a conversion failed after its first
\* transaction, or a conversion had read the draft before another one marked it
\* and began after that one had left the map.
ConvertedOnce ==
    \A q, r \in Requests :
        /\ q # r /\ demande[q].made /\ demande[r].made
        /\ demande[q].from = demande[r].from /\ demande[q].from # None
        => {q, r} \cap torn # {}

\* Whoever is told that a conversion succeeded has spent the token: whatever
\* fails between the two transactions, purge and restart included, is answered
\* as a failure.  And the Demande that a draft names was made from that draft.
SuccessIsMarked ==
    /\ \A q \in Requests :
         demande[q].made /\ demande[q].from # None /\ req[q].at = "done" /\ req[q].ok =>
           draft[demande[q].from].to # None
    /\ \A t \in Tokens : draft[t].to # None =>
         demande[draft[t].to].made /\ demande[draft[t].to].from = t

\* The map of running conversions names requests that will answer, and nobody
\* follows a conversion that is not in it: no client waits for ever.
RegistryRuns ==
    /\ \A t \in Tokens : conversions[t] # None =>
         req[conversions[t]].at \in {"create", "mark"} /\ req[conversions[t]].token = t
    /\ \A q \in Requests : req[q].at = "follow" => conversions[req[q].token] = req[q].leader

\* "never an empty request": the file that a Demande names is in storage,
\* unless the client was told of a failure after the Demande was created.
MediaStored ==
    \A q \in Requests : demande[q].media /\ q \notin torn => q \in stored

\* No window of the guard's length holds more calls of a route than its quota,
\* though the list of hits is pruned at every call.
QuotaHolds ==
    \A route \in Routes, t \in 0 .. MaxTime :
        Cardinality({h \in accepted : h.route = route /\ t - Window < h.at /\ h.at <= t})
            <= Limit[route]

\* A converted draft is kept, even when it has expired: it is the only proof
\* that its token was used.
TraceKept ==
    [][\A t \in Tokens : draft[t].to # None => draft'[t].at = "live" /\ draft'[t].to # None]_vars
=============================================================================
