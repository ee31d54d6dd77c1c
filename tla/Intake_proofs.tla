---------------------------- MODULE Intake_proofs ----------------------------
(***************************************************************************)
(* Theorems about Intake, for any number of drafts and of calls, any       *)
(* contents, quotas and bounds.                                            *)
(***************************************************************************)
EXTENDS Intake, FiniteSetTheorems, TLAPS

-----------------------------------------------------------------------------
(* Types. *)

LEMMA Fields ==
  ASSUME TypeOK, NEW q \in Requests
  PROVE  /\ req[q] \in Pending /\ req[q].path \in BOOLEAN
         /\ req[q].at = "insert" => req[q].content \in Contents
         /\ req[q].at = "patch" => /\ req[q].token \in Tokens
                                   /\ req[q].content \in Contents
         /\ req[q].at = "convert" => req[q].token \in Tokens /\ req[q].draft \in Drafts
         /\ req[q].at = "follow" => req[q].token \in Tokens /\ req[q].leader \in Requests
         /\ req[q].at = "create" => /\ req[q].token \in Tokens \cup {None}
                                    /\ req[q].content \in Contents \cup {None}
                                    /\ req[q].attempts \in Nat
         /\ req[q].at = "mark" => req[q].token \in Tokens
<1>1. req[q] \in Pending
  BY DEF TypeOK
<1> QED BY <1>1 DEF Pending

LEMMA AwaitsTyped ==
  ASSUME TypeOK, NEW q \in Requests, NEW x \in Pending, Awaits(q, x)
  PROVE  req' \in [Requests -> Pending]
BY DEF TypeOK, Awaits

LEMMA AnsweredTyped ==
  ASSUME NEW ok \in BOOLEAN, NEW path \in BOOLEAN
  PROVE  Answered(ok, path) \in Pending
BY DEF Answered, Pending

LEMMA SettlesTyped ==
  ASSUME TypeOK, NEW q \in Requests, NEW ok \in BOOLEAN, Settles(q, ok)
  PROVE  /\ req' \in [Requests -> Pending]
         /\ conversions' \in [Tokens -> Requests \cup {None}]
<1>1. \A r \in Requests : Answered(ok, req[r].path) \in Pending /\ req[r] \in Pending
  BY Fields, AnsweredTyped
<1> QED BY <1>1 DEF Settles, TypeOK

LEMMA HitTyped ==
  ASSUME TypeOK, NEW q \in Requests, NEW route \in Routes, Admit(q, route)
  PROVE  hits' \subseteq Hits /\ accepted' \subseteq Hits
BY DEF TypeOK, Admit, Recent, Hits

\* The row of a draft that a call writes.
LEMMA DraftEdit ==
  ASSUME TypeOK, NEW t \in Tokens, NEW c \in Contents
  PROVE  /\ [draft[t] EXCEPT !.content = c] \in Drafts
         /\ \A e \in Nat : [at |-> "live", content |-> c, expires |-> e, to |-> None] \in Drafts
BY DEF TypeOK, Drafts

LEMMA MarkEdit ==
  ASSUME TypeOK, NEW t \in Tokens, NEW q \in Requests
  PROVE  [draft[t] EXCEPT !.to = q] \in Drafts
BY DEF TypeOK, Drafts

\* Every row keeps its type, and every call what it holds.
LEMMA CallTyped ==
  ASSUME TypeOK, NEW q \in Requests, Call(q)
  PROVE  TypeOK'
<1> USE DEF rows, guard
<1>0. req[q].path \in BOOLEAN
  BY Fields
<1>d. \A ok \in BOOLEAN : Answered(ok, req[q].path) \in Pending
  BY <1>0, AnsweredTyped
<1>1. CASE TooMany(q)
  BY <1>1, <1>d, AwaitsTyped DEF TooMany, TypeOK, Recent
<1>2. ASSUME NEW c \in Contents, Purge(q, c) PROVE TypeOK'
  <2>1. [at |-> "insert", content |-> c, path |-> req[q].path] \in Pending
    BY <1>0 DEF Pending
  <2>2. hits' \subseteq Hits /\ accepted' \subseteq Hits
    BY <1>2, HitTyped DEF Purge, Routes
  <2>3. draft' \in [Tokens -> Drafts]
    BY <1>2 DEF Purge, TypeOK, Drafts
  <2> QED BY <1>2, <2>1, <2>2, <2>3, AwaitsTyped DEF Purge, TypeOK
<1>3. ASSUME NEW t \in Tokens, Get(q, t) PROVE TypeOK'
  <2>1. Usable(t) \in BOOLEAN
    BY DEF Usable
  <2> QED BY <1>3, <1>d, <2>1, AwaitsTyped, HitTyped DEF Get, TypeOK, Routes
<1>4. ASSUME NEW t \in Tokens, NEW c \in Contents, PatchRead(q, t, c) PROVE TypeOK'
  <2>1. [at |-> "patch", token |-> t, content |-> c, path |-> req[q].path] \in Pending
    BY <1>0 DEF Pending, TypeOK
  <2>2. hits' \subseteq Hits /\ accepted' \subseteq Hits
    BY <1>4, HitTyped DEF PatchRead, Routes
  <2> QED BY <1>4, <1>d, <2>1, <2>2, AwaitsTyped DEF PatchRead, TypeOK
<1>5. ASSUME NEW t \in Tokens, ConvertRead(q, t) PROVE TypeOK'
  <2>1. [at |-> "convert", token |-> t, draft |-> draft[t], path |-> req[q].path] \in Pending
    BY <1>0 DEF Pending, TypeOK
  <2> QED BY <1>5, <1>d, <2>1, AwaitsTyped DEF ConvertRead, TypeOK
<1>6. ASSUME NEW c \in Contents, CreateDirect(q, c) PROVE TypeOK'
  <2>1. [at |-> "create", token |-> None, content |-> c, attempts |-> 0, path |-> req[q].path]
          \in Pending
    BY <1>0 DEF Pending
  <2> QED BY <1>6, <2>1, AwaitsTyped DEF CreateDirect, TypeOK
<1>7. CASE Upload(q)
  <2>1. [at |-> "new", path |-> TRUE] \in Pending
    BY DEF Pending
  <2> QED BY <1>7, <2>1, AwaitsTyped DEF Upload, TypeOK
<1> QED BY <1>1, <1>2, <1>3, <1>4, <1>5, <1>6, <1>7 DEF Call

LEMMA HandleTyped ==
  ASSUME TypeOK, NEW q \in Requests, Handle(q)
  PROVE  TypeOK'
<1> USE DEF rows, guard
<1>0. req[q].path \in BOOLEAN
  BY Fields
<1>d. \A ok \in BOOLEAN, path \in BOOLEAN : Answered(ok, path) \in Pending
  BY AnsweredTyped
<1>1. ASSUME NEW t \in Tokens, Insert(q, t) PROVE TypeOK'
  <2>1. now + Retention \in Nat /\ req[q].content \in Contents
    BY <1>1, Fields, IntakeAssumption DEF TypeOK, Insert
  <2>2. draft' \in [Tokens -> Drafts]
    BY <1>1, <2>1, DraftEdit DEF Insert, TypeOK
  <2> QED BY <1>0, <1>1, <1>d, <2>2, AwaitsTyped DEF Insert, TypeOK
<1>2. CASE PatchCommit(q)
  <2>1. req[q].token \in Tokens /\ req[q].content \in Contents
    BY <1>2, Fields DEF PatchCommit
  <2>e. [draft[req[q].token] EXCEPT !.content = req[q].content] \in Drafts
    BY <2>1, DraftEdit
  <2>2. draft' \in [Tokens -> Drafts] /\ torn' \subseteq Requests
    <3>1. draft' = [draft EXCEPT ![req[q].token] =
                      [draft[req[q].token] EXCEPT !.content = req[q].content]] \/ draft' = draft
      BY <1>2 DEF PatchCommit
    <3>2. draft' \in [Tokens -> Drafts]
      BY <2>1, <2>e, <3>1 DEF TypeOK
    <3> QED BY <1>2, <3>2 DEF PatchCommit, TypeOK
  <2>3. req' \in [Requests -> Pending]
    BY <1>0, <1>2, <1>d, AwaitsTyped DEF PatchCommit
  <2> QED BY <1>2, <2>2, <2>3 DEF PatchCommit, TypeOK
<1>3. CASE ConvertEnter(q)
  <2>1. req[q].token \in Tokens /\ req[q].draft \in Drafts
    BY <1>3, Fields DEF ConvertEnter
  <2>2. conversions[req[q].token] # None =>
          [at |-> "follow", token |-> req[q].token, leader |-> conversions[req[q].token],
           path |-> req[q].path] \in Pending
    BY <1>0, <2>1 DEF Pending, TypeOK
  <2>3. [at |-> "create", token |-> req[q].token, content |-> req[q].draft.content,
         attempts |-> 0, path |-> req[q].path] \in Pending
    BY <1>0, <2>1 DEF Pending, Drafts
  <2>4. req' \in [Requests -> Pending]
    BY <1>3, <2>2, <2>3, AwaitsTyped DEF ConvertEnter
  <2> QED BY <1>3, <2>4 DEF ConvertEnter, TypeOK
<1>4. CASE CreateCommit(q)
  <2>1. req[q].token \in Tokens \cup {None} /\ req[q].content \in Contents \cup {None}
    BY <1>4, Fields DEF CreateCommit
  <2>2. demande' \in [Requests -> Demandes]
    BY <1>0, <1>4, <2>1 DEF CreateCommit, TypeOK, Demandes
  <2>3. req[q].token # None =>
          [at |-> "mark", token |-> req[q].token, path |-> req[q].path] \in Pending
    BY <1>0, <2>1 DEF Pending
  <2>4. req' \in [Requests -> Pending] /\ conversions' \in [Tokens -> Requests \cup {None}]
    BY <1>4, <2>3, AwaitsTyped, SettlesTyped DEF CreateCommit, TypeOK
  <2> QED BY <1>4, <2>2, <2>4 DEF CreateCommit, TypeOK
<1>5. CASE CreateCollides(q)
  <2>1. [req[q] EXCEPT !.attempts = @ + 1] \in Pending
    <3>1. req[q] \in [at : {"create"}, token : Tokens \cup {None},
                      content : Contents \cup {None}, attempts : Nat, path : BOOLEAN]
      BY <1>5, Fields DEF CreateCollides, Pending
    <3> QED BY <3>1 DEF Pending
  <2>2. req' \in [Requests -> Pending] /\ conversions' \in [Tokens -> Requests \cup {None}]
    BY <1>5, <2>1, AwaitsTyped, SettlesTyped DEF CreateCollides, TypeOK
  <2> QED BY <1>5, <2>2 DEF CreateCollides, TypeOK
<1>6. CASE CreateFails(q)
  BY <1>6, SettlesTyped DEF CreateFails, TypeOK
<1>7. CASE MarkCommit(q)
  <2>1. draft' \in [Tokens -> Drafts]
    BY <1>7, Fields, MarkEdit DEF MarkCommit, TypeOK
  <2> QED BY <1>7, <2>1, SettlesTyped DEF MarkCommit, TypeOK
<1>8. CASE MarkFails(q)
  BY <1>8, SettlesTyped DEF MarkFails, TypeOK
<1>9. CASE Cleanup(q)
  BY <1>9, <1>d, AwaitsTyped DEF Cleanup, TypeOK
<1>10. CASE InsertFails(q)
  BY <1>0, <1>10, <1>d, AwaitsTyped DEF InsertFails, TypeOK
<1> QED BY <1>1, <1>2, <1>3, <1>4, <1>5, <1>6, <1>7, <1>8, <1>9, <1>10 DEF Handle

LEMMA TypeStep == TypeOK /\ [Next]_vars => TypeOK'
<1> SUFFICES ASSUME TypeOK, [Next]_vars PROVE TypeOK'
  OBVIOUS
<1>1. CASE Tick
  BY <1>1 DEF Tick, TypeOK, rows, guard
<1>2. CASE Crash
  <2>1. \A q \in Requests : req[q] \in Pending /\ Answered(FALSE, req[q].path) \in Pending
    BY Fields, AnsweredTyped
  <2>2. req' \in [Requests -> Pending]
    BY <1>2, <2>1 DEF Crash
  <2>3. crashes' \in Nat /\ torn' \subseteq Requests
    BY <1>2 DEF Crash, TypeOK
  <2>4. conversions' \in [Tokens -> Requests \cup {None}] /\ hits' \subseteq Hits
          /\ accepted' \subseteq Hits
    BY <1>2 DEF Crash
  <2> QED BY <1>2, <2>2, <2>3, <2>4 DEF Crash, TypeOK
<1>3. CASE UNCHANGED vars
  BY <1>3 DEF vars, TypeOK
<1> QED BY <1>1, <1>2, <1>3, CallTyped, HandleTyped DEF Next

\* The state keeps its shape.
THEOREM TypeCorrect == Spec => []TypeOK
<1>1. Init => TypeOK
  BY IntakeAssumption DEF Init, TypeOK, NoDraft, Drafts, NoDemande, Demandes, Pending
<1> QED BY <1>1, TypeStep, PTL DEF Spec

-----------------------------------------------------------------------------
(* The map of running conversions. *)

\* Every conversion under way is in the map, under its token.
Leads == \A q \in Requests :
  req[q].at \in {"create", "mark"} /\ req[q].token # None => conversions[req[q].token] = q

Runs == RegistryRuns /\ Leads

\* A call that leads no conversion goes on without leading or following one.
Aside(x) == \/ x.at \in {"new", "done", "insert", "patch", "convert"}
            \/ x.at = "create" /\ x.token = None

LEMMA AwaitsMoves ==
  ASSUME TypeOK, NEW q \in Requests, NEW x, Awaits(q, x)
  PROVE  \A r \in Requests : req'[r] = IF r = q THEN x ELSE req[r]
BY DEF TypeOK, Awaits

LEMMA RunsAside ==
  ASSUME TypeOK, Runs, NEW q \in Requests, NEW x, Awaits(q, x), Aside(x),
         UNCHANGED conversions, req[q].at \notin {"create", "mark"}
  PROVE  Runs'
<1>1. \A r \in Requests : req'[r] = IF r = q THEN x ELSE req[r]
  BY AwaitsMoves
<1>2. \A t \in Tokens : conversions[t] \in Requests \cup {None}
  BY DEF TypeOK
<1> QED BY <1>1, <1>2 DEF Runs, RegistryRuns, Leads, Aside

\* What settling does: q and its followers have the answer, the map forgets.
Answers(q, ok) ==
  /\ \A r \in Requests :
       \/ req'[r] = Answered(ok, req[r].path)
            /\ (r = q \/ (req[r].at = "follow" /\ req[r].leader = q))
       \/ req'[r] = req[r] /\ r # q /\ ~(req[r].at = "follow" /\ req[r].leader = q)
  /\ \A t \in Tokens : conversions'[t] = IF t = req[q].token THEN None ELSE conversions[t]

LEMMA SettlesMoves ==
  ASSUME TypeOK, NEW q \in Requests, NEW ok, Settles(q, ok)
  PROVE  Answers(q, ok)
BY IntakeAssumption DEF TypeOK, Settles, Answers

LEMMA AnsweredAt == \A ok, path : Answered(ok, path).at = "done"
BY DEF Answered

LEMMA AnsweredIll == \A path : ~Answered(FALSE, path).ok
BY DEF Answered

\* A call that settles is over; so are its followers, and nobody else moves.
LEMMA SettledAt ==
  ASSUME NEW q \in Requests, NEW ok, Answers(q, ok)
  PROVE  /\ req'[q].at = "done"
         /\ \A r \in Requests : r # q => \/ req'[r] = req[r]
                                         \/ req[r].at = "follow" /\ req'[r].at = "done"
<1>1. ASSUME NEW r \in Requests
      PROVE  /\ r = q => req'[r].at = "done"
             /\ r # q => \/ req'[r] = req[r]
                         \/ req[r].at = "follow" /\ req'[r].at = "done"
  <2>1. CASE req'[r] = Answered(ok, req[r].path) /\ (r = q \/ (req[r].at = "follow" /\ req[r].leader = q))
    <3>1. Answered(ok, req[r].path).at = "done"
      BY AnsweredAt
    <3>2. req'[r].at = "done"
      BY <2>1, <3>1
    <3> QED BY <2>1, <3>2
  <2>2. CASE req'[r] = req[r] /\ r # q
    BY <2>2
  <2> QED BY <2>1, <2>2 DEF Answers
<1> QED BY <1>1

LEMMA RunsSettled ==
  ASSUME TypeOK, Runs, NEW q \in Requests, NEW ok, Settles(q, ok),
         req[q].at \in {"create", "mark"}
  PROVE  Runs'
<1>0. Answers(q, ok)
  BY SettlesMoves
<1>1. \A r \in Requests : req'[r].at = "done" \/ req'[r] = req[r]
  BY <1>0, AnsweredAt DEF Answers
<1>2. req'[q].at = "done"
  BY <1>0, AnsweredAt DEF Answers
<1>3. \A t \in Tokens : conversions'[t] = IF t = req[q].token THEN None ELSE conversions[t]
  BY <1>0 DEF Answers
<1>4. req[q].token # None => req[q].token \in Tokens /\ conversions[req[q].token] = q
  BY Fields DEF Runs, Leads
<1>5. ASSUME NEW t \in Tokens, conversions'[t] # None
      PROVE  /\ req'[conversions'[t]].at \in {"create", "mark"}
             /\ req'[conversions'[t]].token = t
  <2>1. conversions'[t] = conversions[t] /\ t # req[q].token
    BY <1>3, <1>5
  <2>2. conversions[t] \in Requests
    BY <1>5, <2>1 DEF TypeOK
  <2>3. req[conversions[t]].at \in {"create", "mark"} /\ req[conversions[t]].token = t
    BY <1>5, <2>1 DEF Runs, RegistryRuns
  <2>4. req'[conversions[t]] = req[conversions[t]]
    BY <2>1, <2>2, <2>3, <1>0 DEF Answers
  <2> QED BY <2>1, <2>3, <2>4
<1>6. ASSUME NEW r \in Requests, req'[r].at = "follow"
      PROVE  conversions'[req'[r].token] = req'[r].leader
  <2>1. req'[r] = req[r] /\ req[r].leader # q
    BY <1>6, <1>0, AnsweredAt DEF Answers
  <2>2. req[r].token \in Tokens /\ conversions[req[r].token] = req[r].leader
    BY <1>6, <2>1, Fields DEF Runs, RegistryRuns
  <2>3. req[r].token # req[q].token
    BY <1>4, <2>1, <2>2, IntakeAssumption
  <2> QED BY <1>3, <2>1, <2>2, <2>3
<1>7. ASSUME NEW r \in Requests, req'[r].at \in {"create", "mark"}, req'[r].token # None
      PROVE  conversions'[req'[r].token] = r
  <2>1. req'[r] = req[r] /\ r # q
    BY <1>1, <1>2, <1>7
  <2>2. req[r].token \in Tokens /\ conversions[req[r].token] = r
    BY <1>7, <2>1, Fields DEF Runs, Leads
  <2>3. req[r].token # req[q].token
    BY <1>4, <2>1, <2>2, IntakeAssumption
  <2> QED BY <1>3, <2>1, <2>2, <2>3
<1> QED BY <1>5, <1>6, <1>7 DEF Runs, RegistryRuns, Leads

LEMMA RunsStep == TypeOK /\ Runs /\ [Next]_vars => Runs'
<1> SUFFICES ASSUME TypeOK, Runs, [Next]_vars PROVE Runs'
  OBVIOUS
<1> USE DEF rows
<1>1. CASE Tick \/ UNCHANGED vars
  BY <1>1 DEF Tick, vars, Runs, RegistryRuns, Leads
<1>2. CASE Crash
  <2>1. \A q \in Requests : req'[q].at \in {"new", "done"}
    BY <1>2 DEF Crash, Answered
  <2> QED BY <1>2, <2>1 DEF Crash, Runs, RegistryRuns, Leads
<1>3. ASSUME NEW q \in Requests, req[q].at = "new", Call(q) PROVE Runs'
  <2> USE DEF Aside, Answered
  <2>1. CASE TooMany(q) \/ (\E t \in Tokens : Get(q, t)) \/ Upload(q)
    BY <1>3, <2>1, RunsAside DEF TooMany, Get, Upload
  <2>2. ASSUME NEW c \in Contents, Purge(q, c) \/ CreateDirect(q, c) PROVE Runs'
    BY <1>3, <2>2, RunsAside DEF Purge, CreateDirect
  <2>3. ASSUME NEW t \in Tokens, NEW c \in Contents, PatchRead(q, t, c) PROVE Runs'
    BY <1>3, <2>3, RunsAside DEF PatchRead
  <2>4. ASSUME NEW t \in Tokens, ConvertRead(q, t) PROVE Runs'
    BY <1>3, <2>4, RunsAside DEF ConvertRead
  <2> QED BY <1>3, <2>1, <2>2, <2>3, <2>4 DEF Call
<1>4. ASSUME NEW q \in Requests, Handle(q) PROVE Runs'
  <2>1. CASE \/ (\E t \in Tokens : Insert(q, t)) \/ InsertFails(q)
             \/ PatchCommit(q) \/ Cleanup(q)
    <3>1. UNCHANGED conversions /\ req[q].at \notin {"create", "mark"}
      BY <2>1 DEF Insert, InsertFails, PatchCommit, Cleanup
    <3>2. PICK x : Awaits(q, x) /\ Aside(x)
      BY <2>1 DEF Insert, InsertFails, PatchCommit, Cleanup, Aside, Answered
    <3> QED BY <3>1, <3>2, RunsAside
  <2>2. CASE ConvertEnter(q)
    <3>1. req[q].at = "convert" /\ req[q].token \in Tokens
      BY <2>2, Fields DEF ConvertEnter
    <3> DEFINE t == req[q].token
    <3>2. CASE conversions[t] # None
      <4> DEFINE x == [at |-> "follow", token |-> t, leader |-> conversions[t],
                       path |-> req[q].path]
      <4>1. Awaits(q, x) /\ UNCHANGED conversions
        BY <2>2, <3>2 DEF ConvertEnter
      <4>2. \A r \in Requests : req'[r] = IF r = q THEN x ELSE req[r]
        BY <4>1, AwaitsMoves
      <4>3. \A s \in Tokens : conversions[s] \in Requests \cup {None}
        BY DEF TypeOK
      <4> QED BY <3>1, <4>1, <4>2, <4>3 DEF Runs, RegistryRuns, Leads
    <3>3. CASE conversions[t] = None
      <4> DEFINE x == [at |-> "create", token |-> t, content |-> req[q].draft.content,
                       attempts |-> 0, path |-> req[q].path]
      <4>1. Awaits(q, x) /\ conversions' = [conversions EXCEPT ![t] = q]
        BY <2>2, <3>3 DEF ConvertEnter
      <4>2. \A r \in Requests : req'[r] = IF r = q THEN x ELSE req[r]
        BY <4>1, AwaitsMoves
      <4>3. \A s \in Tokens : /\ conversions[s] \in Requests \cup {None}
                              /\ conversions'[s] = IF s = t THEN q ELSE conversions[s]
        BY <4>1 DEF TypeOK
      <4>4. \A s \in Tokens : conversions[s] # q
        BY <3>1, IntakeAssumption DEF Runs, RegistryRuns
      <4>5. \A r \in Requests :
              req[r].at = "follow" => req[r].token \in Tokens /\ req[r].leader \in Requests
        BY Fields
      <4>6. \A r \in Requests : req[r].at \in {"create", "mark"} /\ req[r].token # None
                                  => req[r].token \in Tokens
        BY Fields
      <4>7. RegistryRuns'
        BY <3>1, <3>3, <4>2, <4>3, <4>4, <4>5, IntakeAssumption DEF Runs, RegistryRuns
      <4>8. Leads'
        BY <3>1, <3>3, <4>2, <4>3, <4>6, IntakeAssumption DEF Runs, Leads
      <4> QED BY <4>7, <4>8 DEF Runs
    <3> QED BY <3>2, <3>3
  <2>3. CASE CreateCommit(q)
    <3>1. CASE req[q].token = None
      <4>1. req[q].at = "create" /\ \E ok : Settles(q, ok)
        BY <2>3, <3>1 DEF CreateCommit
      <4> QED BY <4>1, RunsSettled
    <3>2. CASE req[q].token # None
      <4> DEFINE x == [at |-> "mark", token |-> req[q].token, path |-> req[q].path]
      <4>1. Awaits(q, x) /\ UNCHANGED conversions /\ req[q].at = "create"
        BY <2>3, <3>2 DEF CreateCommit
      <4>2. \A r \in Requests : req'[r] = IF r = q THEN x ELSE req[r]
        BY <4>1, AwaitsMoves
      <4>3. \A s \in Tokens : conversions[s] \in Requests \cup {None}
        BY DEF TypeOK
      <4> QED BY <4>1, <4>2, <4>3 DEF Runs, RegistryRuns, Leads
    <3> QED BY <3>1, <3>2
  <2>4. CASE CreateCollides(q)
    <3>1. CASE Settles(q, FALSE)
      BY <2>4, <3>1, RunsSettled DEF CreateCollides
    <3>2. CASE Awaits(q, [req[q] EXCEPT !.attempts = @ + 1]) /\ UNCHANGED conversions
      <4>1. req[q].at = "create" /\ req[q] \in Pending
        BY <2>4, Fields DEF CreateCollides
      <4>2. /\ [req[q] EXCEPT !.attempts = @ + 1].at = "create"
            /\ [req[q] EXCEPT !.attempts = @ + 1].token = req[q].token
        BY <4>1 DEF Pending
      <4>3. \A r \in Requests : req'[r].at = req[r].at
                                  /\ (r # q => req'[r] = req[r])
        BY <3>2, <4>1, <4>2, AwaitsMoves
      <4>4. req'[q].token = req[q].token
        BY <3>2, <4>2, AwaitsMoves
      <4>5. \A s \in Tokens : conversions[s] \in Requests \cup {None}
        BY DEF TypeOK
      <4> QED BY <3>2, <4>1, <4>3, <4>4, <4>5 DEF Runs, RegistryRuns, Leads
    <3> QED BY <2>4, <3>1, <3>2 DEF CreateCollides
  <2>5. CASE CreateFails(q) \/ MarkCommit(q) \/ MarkFails(q)
    <3>1. req[q].at \in {"create", "mark"} /\ \E ok : Settles(q, ok)
      BY <2>5 DEF CreateFails, MarkCommit, MarkFails
    <3> QED BY <3>1, RunsSettled
  <2> QED BY <1>4, <2>1, <2>2, <2>3, <2>4, <2>5 DEF Handle
<1> QED BY <1>1, <1>2, <1>3, <1>4 DEF Next

LEMMA RunsInit == Init => Runs
BY DEF Init, Runs, RegistryRuns, Leads

\* Nobody waits for a conversion that nobody makes.
THEOREM FollowersAnswered == Spec => []RegistryRuns
<1>1. Runs => RegistryRuns
  BY DEF Runs
<1> QED BY <1>1, RunsInit, RunsStep, TypeCorrect, PTL DEF Spec

-----------------------------------------------------------------------------
(* The two transactions of a conversion, and what may come between them.   *)

\* A draft that names a Demande is a live row; one that a conversion has read
\* named none.
Born == \A t \in Tokens : draft[t].to # None => draft[t].at = "live"

Reads == \A q \in Requests :
  req[q].at = "convert" => req[q].draft.to = None /\ req[q].draft.at = "live"

\* A request that has made a Demande has nothing left to do but to mark.
Makes == \A q \in Requests : demande[q].made => req[q].at \in {"mark", "done"}

\* A conversion works on a draft that names nothing, unless it is torn.
Creating == \A q \in Requests :
  (req[q].at = "create" /\ req[q].token # None /\ q \notin torn) =>
    draft[req[q].token].to = None

Marking == \A q \in Requests :
  req[q].at = "mark" =>
    demande[q].made /\ demande[q].from = req[q].token

\* A Demande made from a draft is about to be, or has been, named by it.
Marked == \A q \in Requests :
  (demande[q].made /\ demande[q].from # None /\ q \notin torn) =>
    req[q].at = "mark" \/ draft[demande[q].from].to # None

Story == /\ Born /\ Reads /\ Makes /\ Creating /\ Marking /\ Marked
         /\ SuccessIsMarked /\ ConvertedOnce

\* A file whose path is known is stored until its call has failed.
Kept == \A q \in Requests :
  /\ req[q].path /\ req[q].at # "done" => q \in stored
  /\ req[q].at = "done" => (~req[q].ok => ~demande[q].made \/ q \in torn)
  /\ demande[q].media => demande[q].made

Files == Kept /\ MediaStored

\* The list of hits holds every call of the last window.
Counted ==
  /\ IsFiniteSet(hits) /\ IsFiniteSet(accepted)
  /\ \A h \in accepted : h.at <= now /\ (h.at > now - Window => h \in hits)

\* Drafts keep whom they name, and are only purged.
Alike == \A t \in Tokens :
  /\ draft'[t].to = draft[t].to
  /\ draft[t].to # None => draft'[t].at = draft[t].at

\* Every token a conversion or a Demande names is one.
LEMMA Named ==
  ASSUME TypeOK, NEW q \in Requests
  PROVE  /\ req[q].at = "mark" => req[q].token \in Tokens
         /\ req[q].at = "create" /\ req[q].token # None => req[q].token \in Tokens
         /\ demande[q].from # None => demande[q].from \in Tokens
         /\ demande[q].made \in BOOLEAN
<1>1. demande[q].from \in Tokens \cup {None} /\ demande[q].made \in BOOLEAN
  BY DEF TypeOK, Demandes
<1> QED BY <1>1, Fields

LEMMA DraftFields ==
  ASSUME TypeOK, NEW t \in Tokens
  PROVE  /\ draft[t] \in Drafts /\ draft[t].to \in Requests \cup {None}
         /\ draft[t].at \in {"unborn", "live", "gone"}
BY DEF TypeOK, Drafts

LEMMA StoryAside ==
  ASSUME TypeOK, Story, NEW q \in Requests, NEW x, Awaits(q, x), Aside(x),
         \/ req[q].at \in {"new", "insert", "patch"}
         \/ req[q].at = "done" /\ x.at = "done" /\ ~x.ok,
         x.at = "convert" => x.draft.to = None /\ x.draft.at = "live",
         Alike, UNCHANGED <<demande, torn>>
  PROVE  Story'
<1>1. \A r \in Requests : req'[r] = IF r = q THEN x ELSE req[r]
  BY AwaitsMoves
<1>2. Born'
  BY DEF Story, Born, Alike
<1>3. Reads'
  BY <1>1 DEF Story, Reads
<1>4. Makes'
  BY <1>1 DEF Story, Makes
<1>5. Creating'
  BY <1>1, Named DEF Story, Creating, Alike, Aside
<1>6. Marking'
  BY <1>1, Named DEF Story, Marking, Alike, Aside
<1>7. Marked'
  BY <1>1, Named DEF Story, Marked, Alike
<1>8. SuccessIsMarked' /\ ConvertedOnce'
  BY <1>1, Named DEF Story, Makes, SuccessIsMarked, ConvertedOnce, Alike
<1> QED BY <1>2, <1>3, <1>4, <1>5, <1>6, <1>7, <1>8 DEF Story

\* A conversion ends without having marked the draft.
LEMMA StorySettled ==
  ASSUME TypeOK, Story, NEW q \in Requests, Settles(q, FALSE),
         req[q].at \in {"create", "mark"}, req[q].at = "mark" => q \in torn',
         torn \subseteq torn', UNCHANGED <<draft, demande>>
  PROVE  Story'
<1>0. Answers(q, FALSE)
  BY SettlesMoves
<1>1. \A r \in Requests :
        \/ req'[r].at = "done" /\ ~req'[r].ok /\ (r = q \/ req[r].at = "follow")
        \/ req'[r] = req[r] /\ r # q
  <2>1. ASSUME NEW r \in Requests, req'[r] = Answered(FALSE, req[r].path)
        PROVE  req'[r].at = "done" /\ ~req'[r].ok
    BY <2>1, AnsweredAt, AnsweredIll
  <2> QED BY <1>0, <2>1 DEF Answers
<1>2. Born' /\ SuccessIsMarked' /\ ConvertedOnce'
  BY <1>1 DEF Story, Born, SuccessIsMarked, ConvertedOnce
<1>3. Reads' /\ Makes'
  BY <1>1 DEF Story, Reads, Makes
<1>4. Creating' /\ Marking'
  BY <1>1 DEF Story, Creating, Marking
<1>5. Marked'
  BY <1>1 DEF Story, Marked
<1> QED BY <1>2, <1>3, <1>4, <1>5 DEF Story

LEMMA CallStory ==
  ASSUME TypeOK, Story, NEW q \in Requests, req[q].at = "new", Call(q)
  PROVE  Story'
<1> USE DEF Aside, Answered, rows
<1>a. UNCHANGED draft => Alike
  BY DEF Alike
<1>1. CASE TooMany(q) \/ (\E t \in Tokens : Get(q, t)) \/ Upload(q)
  BY <1>1, <1>a, StoryAside DEF TooMany, Get, Upload
<1>2. ASSUME NEW c \in Contents, Purge(q, c) PROVE Story'
  <2>1. Alike
    BY <1>2 DEF Purge, Alike, TypeOK, Drafts
  <2> QED BY <1>2, <2>1, StoryAside DEF Purge
<1>3. ASSUME NEW c \in Contents, CreateDirect(q, c) PROVE Story'
  BY <1>3, <1>a, StoryAside DEF CreateDirect
<1>4. ASSUME NEW t \in Tokens, NEW c \in Contents, PatchRead(q, t, c) PROVE Story'
  BY <1>4, <1>a, StoryAside DEF PatchRead, Usable
<1>5. ASSUME NEW t \in Tokens, ConvertRead(q, t) PROVE Story'
  BY <1>5, <1>a, StoryAside DEF ConvertRead, Usable
<1> QED BY <1>1, <1>2, <1>3, <1>4, <1>5 DEF Call

LEMMA InsertStory ==
  ASSUME TypeOK, Story, NEW q \in Requests, NEW t \in Tokens, Insert(q, t)
  PROVE  Story'
<1>1. draft[t].to = None /\ req[q].at = "insert" /\ UNCHANGED <<demande, torn>>
  BY DEF Insert, Story, Born
<1>2. Alike
  BY <1>1 DEF Insert, Alike, TypeOK
<1> QED BY <1>1, <1>2, StoryAside DEF Insert, Aside, Answered

\* A patch changes what a draft says, and not whom it names.
LEMMA PatchStory ==
  ASSUME TypeOK, Story, NEW q \in Requests, PatchCommit(q)
  PROVE  Story'
<1>0. req[q].at = "patch" /\ req[q].token \in Tokens /\ UNCHANGED <<demande, torn>>
  BY Fields DEF PatchCommit
<1>1. Alike
  <2>1. CASE UNCHANGED draft
    BY <2>1 DEF Alike
  <2>2. CASE draft' = [draft EXCEPT ![req[q].token] = [@ EXCEPT !.content = req[q].content]]
    <3>1. ASSUME NEW t \in Tokens
          PROVE  draft'[t].to = draft[t].to /\ draft'[t].at = draft[t].at
      BY <1>0, <2>2, DraftFields DEF TypeOK, Drafts
    <3> QED BY <3>1 DEF Alike
  <2> QED BY <2>1, <2>2 DEF PatchCommit
<1>2. \E ok \in BOOLEAN : Awaits(q, Answered(ok, req[q].path))
  BY DEF PatchCommit
<1> QED BY <1>0, <1>1, <1>2, StoryAside DEF Aside, Answered

\* A conversion begins with the draft it has read, or is torn.
LEMMA EnterStory ==
  ASSUME TypeOK, Runs, Story, NEW q \in Requests, ConvertEnter(q)
  PROVE  Story'
<1>0. /\ req[q].at = "convert" /\ req[q].token \in Tokens /\ UNCHANGED <<draft, demande>>
      /\ ~demande[q].made /\ req[q].draft.to = None /\ req[q].draft.at = "live"
  BY Fields, Named DEF ConvertEnter, Story, Makes, Reads
<1>1. \E x : /\ Awaits(q, x)
             /\ torn \subseteq torn'
             /\ x.at \in {"follow", "create"}
             /\ x.at = "create" /\ q \notin torn' =>
                  x.token = req[q].token /\ draft[x.token].to = None
  BY <1>0 DEF ConvertEnter
<1>2. PICK x : /\ \A r \in Requests : req'[r] = IF r = q THEN x ELSE req[r]
               /\ torn \subseteq torn'
               /\ x.at \in {"follow", "create"}
               /\ x.at = "create" /\ q \notin torn' =>
                  x.token = req[q].token /\ draft[x.token].to = None
  BY <1>1, AwaitsMoves
<1>3. Born' /\ SuccessIsMarked' /\ ConvertedOnce'
  BY <1>0, <1>2 DEF Story, Born, SuccessIsMarked, ConvertedOnce
<1>4. Reads' /\ Makes'
  BY <1>0, <1>2 DEF Story, Reads, Makes
<1>5. Creating' /\ Marking'
  BY <1>0, <1>2 DEF Story, Creating, Marking
<1>6. Marked'
  BY <1>0, <1>2 DEF Story, Marked
<1> QED BY <1>3, <1>4, <1>5, <1>6 DEF Story

\* The Demande is created from the draft as it is, and by nobody else.
LEMMA CreateStory ==
  ASSUME TypeOK, Runs, Story, NEW q \in Requests, CreateCommit(q)
  PROVE  Story'
<1> DEFINE t == req[q].token
<1>0. /\ req[q].at = "create" /\ ~demande[q].made /\ UNCHANGED draft
      /\ torn \subseteq torn'
      /\ t # None => t \in Tokens
  BY Named DEF CreateCommit, Story, Makes
<1>1. /\ \A r \in Requests : r # q => demande'[r] = demande[r]
      /\ demande'[q].made /\ demande'[q].from = t
  BY DEF CreateCommit, TypeOK
<1>2. /\ \A r \in Requests : r # q => \/ req'[r] = req[r]
                                      \/ req[r].at = "follow" /\ req'[r].at = "done"
      /\ IF t = None THEN req'[q].at = "done"
                     ELSE req'[q].at = "mark" /\ req'[q].token = t
  <2>1. CASE t = None
    <3>1. \E ok : Answers(q, ok)
      BY <2>1, SettlesMoves DEF CreateCommit
    <3> QED BY <2>1, <3>1, SettledAt
  <2>2. CASE t # None
    <3>1. \A r \in Requests :
            req'[r] = IF r = q THEN [at |-> "mark", token |-> t, path |-> req[q].path] ELSE req[r]
      BY <2>2, AwaitsMoves DEF CreateCommit
    <3> QED BY <2>2, <3>1
  <2> QED BY <2>1, <2>2
<1> HIDE DEF t
<1>3. Born' /\ Reads' /\ Makes'
  BY <1>0, <1>1, <1>2 DEF Story, Born, Reads, Makes
<1>4. Creating'
  BY <1>0, <1>2 DEF Story, Creating
<1>5. q \notin torn /\ t # None => draft[t].to = None
  BY <1>0 DEF Story, Creating, t
<1>6. Marking'
  BY <1>0, <1>1, <1>2, <1>5 DEF Story, Marking
<1>7. Marked'
  BY <1>0, <1>1, <1>2 DEF Story, Marked
<1>8. SuccessIsMarked'
  <2>1. \A s \in Tokens : draft[s].to # q
    BY <1>0, IntakeAssumption DEF Story, SuccessIsMarked
  <2>2. \A r \in Requests :
           demande'[r].made /\ demande'[r].from # None /\ req'[r].at = "done" =>
             demande[r] = demande'[r] /\ req[r] = req'[r]
    BY <1>0, <1>1, <1>2 DEF Story, Makes
  <2> QED BY <1>0, <1>1, <2>1, <2>2, DraftFields DEF Story, SuccessIsMarked
<1>9. ASSUME NEW r \in Requests, r # q, demande[r].made, demande[r].from = t, t # None,
             q \notin torn
      PROVE  r \in torn
  <2>1. SUFFICES ASSUME r \notin torn PROVE FALSE
    OBVIOUS
  <2>2. req[r].at = "mark" \/ draft[t].to # None
    BY <1>9, <2>1 DEF Story, Marked
  <2>3. CASE draft[t].to # None
    BY <1>5, <1>9, <2>3
  <2>4. CASE req[r].at = "mark"
    <3>1. req[r].token = t
      BY <1>9, <2>4 DEF Story, Marking
    <3>2. conversions[t] = r /\ conversions[t] = q
      BY <1>0, <1>9, <2>4, <3>1 DEF Runs, Leads, t
    <3> QED BY <1>9, <3>2
  <2> QED BY <2>2, <2>3, <2>4
<1>10. ConvertedOnce'
  <2> SUFFICES ASSUME NEW r \in Requests, NEW s \in Requests, r # s,
                      demande'[r].made, demande'[s].made,
                      demande'[r].from = demande'[s].from, demande'[r].from # None
               PROVE  {r, s} \cap torn' # {}
    BY DEF ConvertedOnce
  <2>1. CASE r # q /\ s # q
    BY <1>0, <1>1, <2>1 DEF Story, ConvertedOnce
  <2>2. CASE r = q
    BY <1>0, <1>1, <1>9, <2>2
  <2>3. CASE s = q
    BY <1>0, <1>1, <1>9, <2>3
  <2> QED BY <2>1, <2>2, <2>3
<1> QED BY <1>3, <1>4, <1>6, <1>7, <1>8, <1>10 DEF Story

LEMMA MarkStory ==
  ASSUME TypeOK, Runs, Story, NEW q \in Requests, MarkCommit(q)
  PROVE  Story'
<1> DEFINE t == req[q].token
<1>0. /\ req[q].at = "mark" /\ t \in Tokens /\ UNCHANGED demande
      /\ torn \subseteq torn'
      /\ draft[t].at = "live"
  BY Named DEF MarkCommit
<1>1. /\ draft'[t].to = q /\ draft'[t].at = "live"
      /\ \A s \in Tokens : s # t => draft'[s] = draft[s]
  BY <1>0 DEF MarkCommit, TypeOK, Drafts
<1>2. /\ req'[q].at = "done"
      /\ \A r \in Requests : r # q => \/ req'[r] = req[r]
                                      \/ req[r].at = "follow" /\ req'[r].at = "done"
  <2>1. \E ok : Answers(q, ok)
    BY SettlesMoves DEF MarkCommit
  <2> QED BY <2>1, SettledAt
<1>3. \A r \in Requests : req[r].at \in {"create", "mark"} /\ req[r].token = t => r = q
  BY <1>0, IntakeAssumption DEF Runs, Leads
<1>4. demande[q].made /\ demande[q].from = t
  BY <1>0 DEF Story, Marking
<1> HIDE DEF t
<1>5. Born' /\ Reads' /\ Makes'
  BY <1>0, <1>1, <1>2 DEF Story, Born, Reads, Makes
<1>6. Creating' /\ Marking'
  BY <1>0, <1>1, <1>2, <1>3, Named DEF Story, Creating, Marking
<1>7. Marked'
  BY <1>0, <1>1, <1>2, <1>4, IntakeAssumption, Named DEF Story, Marked
<1>8. SuccessIsMarked'
  <2>1. \A s \in Tokens : draft[s].to # None => draft'[s].to # None
    BY <1>1, IntakeAssumption
  <2>2. \A r \in Requests : demande[r].made /\ req'[r].at = "done" =>
                            r = q \/ req'[r] = req[r]
    BY <1>0, <1>2 DEF Story, Makes
  <2>3. draft'[t].to # None
    BY <1>1, IntakeAssumption
  <2> QED BY <1>0, <1>1, <1>4, <2>1, <2>2, <2>3, Named DEF Story, SuccessIsMarked
<1>9. ConvertedOnce'
  BY <1>0 DEF Story, ConvertedOnce
<1> QED BY <1>5, <1>6, <1>7, <1>8, <1>9 DEF Story

LEMMA CrashStory ==
  ASSUME TypeOK, Story, Crash
  PROVE  Story'
<1>1. \A r \in Requests :
        /\ req'[r].at \in {"new", "done"}
        /\ req[r].at \in {"mark", "done"} => req'[r].at = "done"
        /\ req'[r].at = "done" => req'[r] = req[r] \/ ~req'[r].ok
  BY AnsweredAt DEF Crash, Answered
<1>2. /\ UNCHANGED <<draft, demande>> /\ torn \subseteq torn'
      /\ \A r \in Requests : req[r].at = "mark" => r \in torn'
  BY DEF Crash
<1>3. Born' /\ SuccessIsMarked' /\ ConvertedOnce'
  BY <1>1, <1>2 DEF Story, Born, SuccessIsMarked, ConvertedOnce
<1>4. Reads' /\ Makes' /\ Creating' /\ Marking'
  BY <1>1, <1>2 DEF Story, Reads, Makes, Creating, Marking
<1>5. Marked'
  BY <1>1, <1>2 DEF Story, Marked
<1> QED BY <1>3, <1>4, <1>5 DEF Story

LEMMA StoryStep == TypeOK /\ Runs /\ Story /\ [Next]_vars => Story'
<1> SUFFICES ASSUME TypeOK, Runs, Story, [Next]_vars PROVE Story'
  OBVIOUS
<1>1. CASE Tick \/ UNCHANGED vars
  BY <1>1 DEF Tick, vars, rows, Story, Born, Reads, Makes, Creating, Marking, Marked,
              SuccessIsMarked, ConvertedOnce
<1>2. CASE Crash
  BY <1>2, CrashStory
<1>3. ASSUME NEW q \in Requests, req[q].at = "new", Call(q) PROVE Story'
  BY <1>3, CallStory
<1>4. ASSUME NEW q \in Requests, Handle(q) PROVE Story'
  <2>1. ASSUME NEW t \in Tokens, Insert(q, t) PROVE Story'
    BY <2>1, InsertStory
  <2>2. CASE PatchCommit(q) \/ ConvertEnter(q) \/ CreateCommit(q) \/ MarkCommit(q)
    BY <2>2, PatchStory, EnterStory, CreateStory, MarkStory
  <2>3. CASE CreateCollides(q)
    <3>1. CASE Settles(q, FALSE)
      BY <2>3, <3>1, StorySettled DEF CreateCollides
    <3>2. CASE Awaits(q, [req[q] EXCEPT !.attempts = @ + 1])
      <4>1. req[q].at = "create" /\ req[q] \in Pending /\ UNCHANGED <<draft, demande, torn>>
        BY <2>3, Fields DEF CreateCollides
      <4> DEFINE x == [req[q] EXCEPT !.attempts = @ + 1]
      <4>2. x.at = "create" /\ x.token = req[q].token /\ x.content = req[q].content
        BY <4>1 DEF Pending
      <4>3. \A r \in Requests : req'[r] = IF r = q THEN x ELSE req[r]
        BY <3>2, AwaitsMoves
      <4> HIDE DEF x
      <4> QED BY <4>1, <4>2, <4>3 DEF Story, Born, Reads, Makes, Creating, Marking, Marked,
                                      SuccessIsMarked, ConvertedOnce
    <3> QED BY <2>3, <3>1, <3>2 DEF CreateCollides
  <2>4. CASE CreateFails(q) \/ MarkFails(q)
    BY <2>4, StorySettled DEF CreateFails, MarkFails
  <2>6. CASE InsertFails(q)
    <3>1. Alike
      BY <2>6 DEF InsertFails, rows, Alike
    <3> QED BY <2>6, <3>1, StoryAside DEF InsertFails, rows, Aside, Answered
  <2>5. CASE Cleanup(q)
    <3>1. Alike
      BY <2>5 DEF Cleanup, rows, Alike
    <3> QED BY <2>5, <3>1, StoryAside DEF Cleanup, rows, Aside, Answered
  <2> QED BY <1>4, <2>1, <2>2, <2>3, <2>4, <2>5, <2>6 DEF Handle
<1> QED BY <1>1, <1>2, <1>3, <1>4 DEF Next

LEMMA StoryInit == Init => Story
BY IntakeAssumption DEF Init, NoDraft, NoDemande, Story, Born, Reads, Makes, Creating, Marking,
   Marked, SuccessIsMarked, ConvertedOnce

\* ConvertedOnce: one token makes one Demande, but for torn conversions.
THEOREM OneDemande == Spec => []ConvertedOnce
<1>1. Story => ConvertedOnce
  BY DEF Story
<1> QED BY <1>1, RunsInit, RunsStep, StoryInit, StoryStep, TypeCorrect, PTL DEF Spec

\* SuccessIsMarked: no client is told of a success that left its token to be
\* used again, whatever fails or restarts between the two transactions.
THEOREM SuccessMarked == Spec => []SuccessIsMarked
<1>1. Story => SuccessIsMarked
  BY DEF Story
<1> QED BY <1>1, RunsInit, RunsStep, StoryInit, StoryStep, TypeCorrect, PTL DEF Spec

\* What a draft has become is never lost.
THEOREM TokenSpent == Spec => TraceKept
<1> DEFINE Spent(t) == draft[t].to # None => draft'[t].at = "live" /\ draft'[t].to # None
<1>1. TypeOK /\ Story /\ [Next]_vars => [\A t \in Tokens : Spent(t)]_vars
  <2> SUFFICES ASSUME TypeOK, Story, Next, NEW t \in Tokens, draft[t].to # None
               PROVE  draft'[t].at = "live" /\ draft'[t].to # None
    OBVIOUS
  <2>1. draft[t].at = "live"
    BY DEF Story, Born
  <2>2. CASE UNCHANGED draft
    BY <2>1, <2>2
  <2>3. CASE Tick \/ Crash
    BY <2>2, <2>3 DEF Tick, Crash, rows
  <2>4. ASSUME NEW q \in Requests, Call(q) PROVE draft'[t].at = "live" /\ draft'[t].to # None
    <3>1. CASE \E c \in Contents : Purge(q, c)
      BY <2>1, <3>1 DEF Purge
    <3>2. CASE \/ TooMany(q) \/ Upload(q)
               \/ \E s \in Tokens : Get(q, s)
               \/ \E c \in Contents : CreateDirect(q, c)
      BY <2>2, <3>2 DEF TooMany, Get, Upload, CreateDirect, rows
    <3>3. CASE \/ \E s \in Tokens, c \in Contents : PatchRead(q, s, c)
               \/ \E s \in Tokens : ConvertRead(q, s)
      BY <2>2, <3>3 DEF PatchRead, ConvertRead, rows
    <3> QED BY <2>4, <3>1, <3>2, <3>3 DEF Call
  <2>5. ASSUME NEW q \in Requests, Handle(q) PROVE draft'[t].at = "live" /\ draft'[t].to # None
    <3>1. CASE \E s \in Tokens : Insert(q, s)
      BY <2>1, <3>1 DEF Insert, TypeOK
    <3>2. CASE PatchCommit(q)
      <4>1. CASE UNCHANGED draft
        BY <2>2, <4>1
      <4>2. CASE draft' = [draft EXCEPT ![req[q].token] = [@ EXCEPT !.content = req[q].content]]
        BY <2>1, <4>2, DraftFields DEF TypeOK, Drafts
      <4> QED BY <3>2, <4>1, <4>2 DEF PatchCommit
    <3>3. CASE MarkCommit(q)
      <4>1. draft' = [draft EXCEPT ![req[q].token] = [@ EXCEPT !.to = q]]
        BY <3>3 DEF MarkCommit
      <4> QED BY <2>1, <4>1, DraftFields, IntakeAssumption DEF TypeOK, Drafts
    <3>4. CASE ConvertEnter(q) \/ CreateCommit(q) \/ CreateCollides(q) \/ CreateFails(q)
      BY <2>2, <3>4 DEF ConvertEnter, CreateCommit, CreateCollides, CreateFails
    <3>5. CASE MarkFails(q) \/ Cleanup(q) \/ InsertFails(q)
      BY <2>2, <3>5 DEF MarkFails, Cleanup, InsertFails, rows
    <3> QED BY <2>5, <3>1, <3>2, <3>3, <3>4, <3>5 DEF Handle
  <2> QED BY <2>3, <2>4, <2>5 DEF Next
<1> QED
  BY <1>1, RunsInit, RunsStep, StoryInit, StoryStep, TypeCorrect, PTL DEF Spec, TraceKept

-----------------------------------------------------------------------------
(* Files.                                                                  *)

\* A request goes on with its path, and fails only if it has made no Demande
\* or is torn.
Passes(r) ==
  /\ req'[r].path = req[r].path
  /\ req'[r].at # "done" => req[r].at # "done"
  /\ req'[r].at = "done" => \/ req'[r] = req[r]
                            \/ req'[r].ok
                            \/ ~demande[r].made \/ r \in torn'

LEMMA FilesAside ==
  ASSUME Files, UNCHANGED <<stored, demande>>, torn \subseteq torn',
         \A r \in Requests : Passes(r)
  PROVE  Files'
BY DEF Files, Kept, MediaStored, Passes

LEMMA AnsweredPath == \A ok, path : Answered(ok, path).path = path
BY DEF Answered

LEMMA AnsweredWell == \A path : Answered(TRUE, path).ok
BY DEF Answered

\* An answer, or a wait, of a request that has made nothing.
LEMMA FilesWait ==
  ASSUME TypeOK, Files, NEW q \in Requests, NEW x, Awaits(q, x), req[q].at # "done",
         UNCHANGED <<stored, demande>>, torn \subseteq torn',
         x.path = req[q].path, x.at = "done" => x.ok \/ ~demande[q].made
  PROVE  Files'
<1>1. \A r \in Requests : req'[r] = IF r = q THEN x ELSE req[r]
  BY AwaitsMoves
<1> QED BY <1>1, FilesAside DEF Passes

LEMMA FilesAnswered ==
  ASSUME TypeOK, Files, NEW q \in Requests, NEW ok, Awaits(q, Answered(ok, req[q].path)),
         req[q].at # "done", ~demande[q].made,
         UNCHANGED <<stored, demande>>, torn \subseteq torn'
  PROVE  Files'
<1> DEFINE x == Answered(ok, req[q].path)
<1>1. x.path = req[q].path /\ Awaits(q, x)
  BY AnsweredPath
<1> HIDE DEF x
<1> QED BY <1>1, FilesWait

\* The end of a conversion: its followers have made nothing.
LEMMA FilesSettled ==
  ASSUME TypeOK, Files, Makes, NEW q \in Requests, NEW ok, Settles(q, ok),
         req[q].at \in {"create", "mark"},
         UNCHANGED <<stored, demande>>, torn \subseteq torn',
         Answered(ok, req[q].path).ok \/ ~demande[q].made \/ q \in torn'
  PROVE  Files'
<1>0. Answers(q, ok)
  BY SettlesMoves
<1>1. ASSUME NEW r \in Requests PROVE Passes(r)
  <2>1. CASE req'[r] = req[r]
    BY <2>1 DEF Passes
  <2>2. CASE req'[r] = Answered(ok, req[r].path) /\ (r = q \/ req[r].at = "follow")
    <3>1. req'[r].path = req[r].path /\ req'[r].at = "done"
      BY <2>2, AnsweredAt, AnsweredPath
    <3>2. req'[r].ok \/ ~demande[r].made \/ r \in torn'
      BY <2>2 DEF Makes
    <3> QED BY <3>1, <3>2 DEF Passes
  <2> QED BY <1>0, <2>1, <2>2 DEF Answers
<1> QED BY <1>1, FilesAside

LEMMA FilesCall ==
  ASSUME TypeOK, Story, Files, NEW q \in Requests, req[q].at = "new", Call(q)
  PROVE  Files'
<1>0. Makes /\ ~demande[q].made
  BY DEF Story, Makes
<1>1. CASE Upload(q)
  <2> DEFINE x == [at |-> "new", path |-> TRUE]
  <2>1. \A r \in Requests : req'[r] = IF r = q THEN x ELSE req[r]
    BY <1>1, AwaitsMoves DEF Upload
  <2>2. stored' = stored \cup {q} /\ UNCHANGED <<demande, torn>>
    BY <1>1 DEF Upload, rows
  <2> QED BY <2>1, <2>2 DEF Files, Kept, MediaStored
<1>2. CASE TooMany(q) \/ \E t \in Tokens : Get(q, t)
  <2>1. \E ok : Awaits(q, Answered(ok, req[q].path)) /\ UNCHANGED <<stored, demande, torn>>
    BY <1>2 DEF TooMany, Get, rows
  <2>2. PICK ok : Awaits(q, Answered(ok, req[q].path))
    BY <2>1
  <2> QED BY <1>0, <2>1, <2>2, FilesAnswered
<1>3. ASSUME NEW c \in Contents, Purge(q, c) \/ CreateDirect(q, c) PROVE Files'
  <2>1. \E x : /\ Awaits(q, x) /\ UNCHANGED <<stored, demande, torn>>
               /\ x.path = req[q].path /\ x.at # "done"
    BY <1>3 DEF Purge, CreateDirect, rows
  <2> QED BY <2>1, FilesWait
<1>4. ASSUME NEW t \in Tokens, NEW c \in Contents, PatchRead(q, t, c)
      PROVE  Files'
  <2>1. UNCHANGED <<stored, demande, torn>>
    BY <1>4 DEF PatchRead, rows
  <2>2. CASE Usable(t)
    <3>1. \E x : Awaits(q, x) /\ x.path = req[q].path /\ x.at = "patch"
      BY <1>4, <2>2 DEF PatchRead
    <3> QED BY <2>1, <3>1, FilesWait
  <2>3. CASE ~Usable(t)
    <3>1. Awaits(q, Answered(FALSE, req[q].path))
      BY <1>4, <2>3 DEF PatchRead
    <3> QED BY <1>0, <2>1, <3>1, FilesAnswered
  <2> QED BY <2>2, <2>3
<1>5. ASSUME NEW t \in Tokens, ConvertRead(q, t) PROVE Files'
  <2>1. UNCHANGED <<stored, demande, torn>>
    BY <1>5 DEF ConvertRead, rows
  <2>2. CASE Usable(t)
    <3>1. \E x : Awaits(q, x) /\ x.path = req[q].path /\ x.at = "convert"
      BY <1>5, <2>2 DEF ConvertRead
    <3> QED BY <2>1, <3>1, FilesWait
  <2>3. CASE ~Usable(t)
    <3>1. Awaits(q, Answered(FALSE, req[q].path))
      BY <1>5, <2>3 DEF ConvertRead
    <3> QED BY <1>0, <2>1, <3>1, FilesAnswered
  <2> QED BY <2>2, <2>3
<1> QED BY <1>1, <1>2, <1>3, <1>4, <1>5 DEF Call

LEMMA FilesHandle ==
  ASSUME TypeOK, Story, Files, NEW q \in Requests, Handle(q)
  PROVE  Files'
<1>0. Makes /\ (req[q].at \notin {"mark", "done"} => ~demande[q].made)
  BY DEF Story, Makes
<1>1. ASSUME NEW t \in Tokens, Insert(q, t) PROVE Files'
  <2>1. /\ Awaits(q, Answered(TRUE, req[q].path)) /\ UNCHANGED <<stored, demande, torn>>
        /\ req[q].at = "insert"
    BY <1>1 DEF Insert
  <2> QED BY <1>0, <2>1, FilesAnswered
<1>2. CASE PatchCommit(q) \/ InsertFails(q)
  <2>1. req[q].at \in {"patch", "insert"} /\ UNCHANGED <<stored, demande, torn>>
    BY <1>2 DEF PatchCommit, InsertFails, rows
  <2>2. PICK ok : Awaits(q, Answered(ok, req[q].path))
    BY <1>2 DEF PatchCommit, InsertFails
  <2> QED BY <1>0, <2>1, <2>2, FilesAnswered
<1>3. CASE ConvertEnter(q)
  <2>1. req[q].at = "convert" /\ UNCHANGED <<stored, demande>> /\ torn \subseteq torn'
    BY <1>3 DEF ConvertEnter
  <2>2. \E x : Awaits(q, x) /\ x.path = req[q].path
    BY <1>3 DEF ConvertEnter
  <2> QED BY <1>0, <2>1, <2>2, FilesWait
<1>4. CASE CreateCollides(q)
  <2>1. req[q].at = "create" /\ UNCHANGED <<stored, demande, torn>> /\ req[q] \in Pending
    BY <1>4, Fields DEF CreateCollides
  <2>2. CASE Settles(q, FALSE)
    BY <1>0, <2>1, <2>2, FilesSettled
  <2>3. CASE Awaits(q, [req[q] EXCEPT !.attempts = @ + 1])
    <3>1. \E x : Awaits(q, x) /\ x.path = req[q].path
      BY <2>1, <2>3 DEF Pending
    <3> QED BY <1>0, <2>1, <3>1, FilesWait
  <2> QED BY <1>4, <2>2, <2>3 DEF CreateCollides
<1>5. CASE CreateFails(q) \/ MarkFails(q)
  <2>1. /\ req[q].at \in {"create", "mark"} /\ Settles(q, FALSE)
        /\ UNCHANGED <<stored, demande>> /\ torn \subseteq torn'
        /\ ~demande[q].made \/ q \in torn'
    BY <1>0, <1>5 DEF CreateFails, MarkFails
  <2> QED BY <1>0, <2>1, FilesSettled
<1>6. CASE MarkCommit(q)
  <2>1. req[q].at = "mark" /\ UNCHANGED <<stored, demande>> /\ torn \subseteq torn'
    BY <1>6 DEF MarkCommit
  <2>2. CASE Settles(q, TRUE)
    BY <1>0, <2>1, <2>2, FilesSettled, AnsweredWell
  <2>3. CASE Settles(q, FALSE) /\ q \in torn'
    BY <1>0, <2>1, <2>3, FilesSettled
  <2>4. Settles(q, TRUE) \/ (Settles(q, FALSE) /\ q \in torn')
    BY <1>6 DEF MarkCommit
  <2> QED BY <2>2, <2>3, <2>4
<1>7. CASE Cleanup(q)
  <2> DEFINE x == Answered(FALSE, FALSE)
  <2>1. \A r \in Requests : req'[r] = IF r = q THEN x ELSE req[r]
    BY <1>7, AwaitsMoves DEF Cleanup
  <2>2. /\ req[q].at = "done" /\ ~req[q].ok /\ stored' = stored \ {q}
        /\ UNCHANGED <<demande, torn>>
    BY <1>7 DEF Cleanup, rows
  <2>3. x.at = "done" /\ x.path = FALSE
    BY AnsweredAt, AnsweredPath
  <2> HIDE DEF x
  <2>4. ~demande[q].made \/ q \in torn
    BY <2>2 DEF Files, Kept
  <2>5. MediaStored'
    BY <1>0, <2>2, <2>4 DEF Files, Kept, MediaStored
  <2>6. Kept'
    BY <2>1, <2>2, <2>3, <2>4 DEF Files, Kept
  <2> QED BY <2>5, <2>6 DEF Files
<1>8. CASE CreateCommit(q)
  <2>1. /\ req[q].at = "create" /\ UNCHANGED stored /\ torn \subseteq torn'
        /\ \A r \in Requests : r # q => demande'[r] = demande[r]
        /\ demande'[q].media = req[q].path /\ demande'[q].made
    BY <1>8 DEF CreateCommit, TypeOK
  <2>2. req[q].path => q \in stored
    BY <2>1 DEF Files, Kept
  <2>3. MediaStored'
    BY <2>1, <2>2 DEF Files, MediaStored
  <2>4. ASSUME NEW r \in Requests
        PROVE  /\ req'[r].path = req[r].path
               /\ req'[r].at # "done" => req[r].at # "done"
               /\ req'[r].at = "done" => \/ req'[r] = req[r] /\ r # q
                                         \/ req'[r].ok
                                         \/ r \in torn'
                                         \/ r # q /\ ~demande[r].made
    <3>1. CASE req[q].token = None
      <4>1. PICK ok : Settles(q, ok) /\ (Answered(ok, req[r].path).ok \/ q \in torn')
        BY <1>8, <3>1, AnsweredWell DEF CreateCommit
      <4>2. Answers(q, ok)
        BY <4>1, SettlesMoves
      <4>3. CASE req'[r] = Answered(ok, req[r].path) /\ (r = q \/ req[r].at = "follow")
        <5>1. req'[r].path = req[r].path
          BY <4>3, AnsweredPath
        <5>2. req'[r].at = "done"
          BY <4>3, AnsweredAt
        <5>3. req[r].at # "done"
          BY <2>1, <4>3
        <5>4. r # q => ~demande[r].made
          BY <1>0, <4>3 DEF Makes
        <5> QED BY <4>1, <4>3, <5>1, <5>2, <5>3, <5>4
      <4>4. CASE req'[r] = req[r] /\ r # q
        BY <4>4
      <4> QED BY <4>2, <4>3, <4>4 DEF Answers
    <3>2. CASE req[q].token # None
      <4>1. req'[r] = IF r = q THEN [at |-> "mark", token |-> req[q].token, path |-> req[q].path]
                               ELSE req[r]
        BY <1>8, <3>2, AwaitsMoves DEF CreateCommit
      <4> QED BY <2>1, <4>1
    <3> QED BY <3>1, <3>2
  <2>5. Kept'
    BY <2>1, <2>4 DEF Files, Kept
  <2> QED BY <2>3, <2>5 DEF Files
<1> QED BY <1>1, <1>2, <1>3, <1>4, <1>5, <1>6, <1>7, <1>8 DEF Handle

LEMMA FilesStep == TypeOK /\ Story /\ Files /\ [Next]_vars => Files'
<1> SUFFICES ASSUME TypeOK, Story, Files, [Next]_vars PROVE Files'
  OBVIOUS
<1>1. CASE Tick \/ UNCHANGED vars
  BY <1>1 DEF Tick, vars, rows, Files, Kept, MediaStored
<1>2. CASE Crash
  <2>1. UNCHANGED <<stored, demande>> /\ torn \subseteq torn'
    BY <1>2 DEF Crash
  <2>2. ASSUME NEW r \in Requests PROVE Passes(r)
    <3>1. CASE req[r].at \in {"new", "done"}
      <4>1. req'[r] = req[r]
        BY <1>2, <3>1 DEF Crash
      <4> QED BY <4>1 DEF Passes
    <3>2. CASE req[r].at \notin {"new", "done"}
      <4>1. req'[r] = Answered(FALSE, req[r].path)
        BY <1>2, <3>2 DEF Crash
      <4>2. ~demande[r].made \/ r \in torn'
        BY <1>2, <3>2 DEF Crash, Story, Makes
      <4>3. req'[r].path = req[r].path
        BY <4>1, AnsweredPath
      <4>4. req'[r].at = "done"
        BY <4>1, AnsweredAt
      <4> QED BY <3>2, <4>2, <4>3, <4>4 DEF Passes
    <3> QED BY <3>1, <3>2
  <2> QED BY <2>1, <2>2, FilesAside
<1>3. ASSUME NEW q \in Requests, req[q].at = "new", Call(q) PROVE Files'
  BY <1>3, FilesCall
<1>4. ASSUME NEW q \in Requests, Handle(q) PROVE Files'
  BY <1>4, FilesHandle
<1> QED BY <1>1, <1>2, <1>3, <1>4 DEF Next

LEMMA FilesInit == Init => Files
BY DEF Init, NoDemande, Files, Kept, MediaStored

\* A Demande is never left without the file it names.
THEOREM FilesRemain == Spec => []MediaStored
<1>1. Files => MediaStored
  BY DEF Files
<1> QED
  BY <1>1, RunsInit, RunsStep, StoryInit, StoryStep, FilesInit, FilesStep, TypeCorrect, PTL
     DEF Spec

-----------------------------------------------------------------------------
(* The guard.                                                              *)

\* The calls of a route that a window ending at t has let in.
In(route, t) == {h \in accepted : h.route = route /\ t - Window < h.at /\ h.at <= t}

LEMMA GuardAside ==
  ASSUME Counted, QuotaHolds, UNCHANGED <<now, accepted>>, hits' = hits \/ hits' = Recent,
         TypeOK
  PROVE  Counted' /\ QuotaHolds'
<1>1. Recent \subseteq hits
  BY DEF Recent
<1>2. IsFiniteSet(hits')
  BY <1>1, FS_Subset DEF Counted
<1>3. \A h \in accepted : h.at > now - Window => h \in hits'
  BY DEF Counted, Recent
<1> QED BY <1>2, <1>3 DEF Counted, QuotaHolds

\* A call let in finds fewer calls in its window than its route allows, and
\* no window that holds it holds a call that the list has forgotten.
LEMMA GuardAdmits ==
  ASSUME TypeOK, Counted, QuotaHolds, NEW q \in Requests, NEW route \in Routes,
         Admit(q, route), UNCHANGED now
  PROVE  Counted' /\ QuotaHolds'
<1> DEFINE h == [by |-> q, route |-> route, at |-> now]
<1>0. /\ Cardinality(Recent) < Limit[route] /\ hits' = Recent \cup {h}
      /\ accepted' = accepted \cup {h} /\ h.at = now /\ h.route = route
  BY DEF Admit
<1> HIDE DEF h
<1>1. now \in Nat /\ Window \in Nat \ {0} /\ \A g \in accepted : g.at \in Nat
  BY IntakeAssumption DEF TypeOK, Hits
<1>2. IsFiniteSet(Recent) /\ IsFiniteSet(hits') /\ IsFiniteSet(accepted')
  <2>1. IsFiniteSet(Recent)
    BY FS_Subset DEF Recent, Counted
  <2> QED BY <1>0, <2>1, FS_AddElement DEF Counted
<1>3. Counted'
  <2>1. \A g \in accepted' : g.at <= now /\ (g.at > now - Window => g \in hits')
    BY <1>0, <1>1 DEF Counted, Recent
  <2> QED BY <1>2, <2>1 DEF Counted
<1>4. ASSUME NEW s \in Routes, NEW t \in 0 .. MaxTime
      PROVE  Cardinality(In(s, t)') <= Limit[s]
  <2>1. IsFiniteSet(In(s, t)') /\ IsFiniteSet(In(s, t))
    BY <1>2, FS_Subset DEF In, Counted
  <2>2. Cardinality(In(s, t)) <= Limit[s]
    BY DEF QuotaHolds, In
  <2>3. CASE h \in In(s, t)'
    <3>1. s = route /\ now <= t
      BY <1>0, <2>3 DEF In
    <3>2. In(s, t)' \subseteq Recent \cup {h}
      BY <1>0, <1>1, <3>1 DEF In, Counted, Recent
    <3>3. /\ IsFiniteSet(Recent \cup {h})
          /\ Cardinality(Recent \cup {h}) \in {Cardinality(Recent), Cardinality(Recent) + 1}
      BY <1>2, FS_AddElement
    <3>4. Cardinality(In(s, t)') <= Cardinality(Recent \cup {h})
      BY <3>2, <3>3, FS_Subset
    <3>5. /\ Cardinality(Recent) \in Nat /\ Cardinality(In(s, t)') \in Nat
          /\ Limit[s] \in Nat
      BY <1>2, <2>1, FS_CardinalityType, IntakeAssumption
    <3> QED BY <1>0, <3>1, <3>3, <3>4, <3>5
  <2>4. CASE h \notin In(s, t)'
    <3>1. In(s, t)' = In(s, t)
      BY <1>0, <2>4 DEF In
    <3> QED BY <2>2, <3>1
  <2> QED BY <2>3, <2>4
<1>5. QuotaHolds'
  BY <1>4 DEF QuotaHolds, In
<1> QED BY <1>3, <1>5

LEMMA GuardStep == TypeOK /\ Counted /\ QuotaHolds /\ [Next]_vars => Counted' /\ QuotaHolds'
<1> SUFFICES ASSUME TypeOK, Counted, QuotaHolds, [Next]_vars PROVE Counted' /\ QuotaHolds'
  OBVIOUS
<1>1. CASE UNCHANGED vars
  BY <1>1, GuardAside DEF vars, guard
<1>2. CASE Tick
  <2>1. UNCHANGED <<hits, accepted>> /\ now' = now + 1
    BY <1>2 DEF Tick, guard
  <2>2. now \in Nat /\ Window \in Nat \ {0} /\ \A g \in accepted : g.at \in Nat
    BY IntakeAssumption DEF TypeOK, Hits
  <2> QED BY <2>1, <2>2 DEF Counted, QuotaHolds
<1>3. CASE Crash
  <2>1. hits' = {} /\ accepted' = {}
    BY <1>3 DEF Crash
  <2>2. Counted'
    BY <2>1, FS_EmptySet DEF Counted
  <2>3. \A s \in Routes : Limit[s] \in Nat
    BY IntakeAssumption
  <2>4. ASSUME NEW s \in Routes, NEW t \in 0 .. MaxTime 
        PROVE  Cardinality(In(s, t)') <= Limit[s]
    <3>1. In(s, t)' = {}
      BY <2>1 DEF In
    <3>2. Cardinality(In(s, t)') = 0
      BY <3>1, FS_EmptySet
    <3> QED BY <2>3, <3>2
  <2>5. QuotaHolds'
    BY <2>4 DEF QuotaHolds, In
  <2> QED BY <2>2, <2>5
<1>4. ASSUME NEW q \in Requests, Call(q) PROVE Counted' /\ QuotaHolds'
  <2>1. CASE TooMany(q)
    BY <2>1, GuardAside DEF TooMany
  <2>2. CASE (\E c \in Contents : Purge(q, c)) \/ \E t \in Tokens : Get(q, t)
    <3>1. \E route \in Routes : Admit(q, route) /\ UNCHANGED now
      BY <2>2 DEF Purge, Get, Routes
    <3> QED BY <3>1, GuardAdmits
  <2>3. CASE \E t \in Tokens, c \in Contents : PatchRead(q, t, c)
    <3>1. \E route \in Routes : Admit(q, route) /\ UNCHANGED now
      BY <2>3 DEF PatchRead, Routes
    <3> QED BY <3>1, GuardAdmits
  <2>4. CASE \/ \E t \in Tokens : ConvertRead(q, t)
             \/ \E c \in Contents : CreateDirect(q, c)
             \/ Upload(q)
    <3>1. UNCHANGED <<now, hits, accepted>>
      BY <2>4 DEF ConvertRead, CreateDirect, Upload, guard
    <3> QED BY <3>1, GuardAside
  <2> QED BY <1>4, <2>1, <2>2, <2>3, <2>4 DEF Call
<1>5. ASSUME NEW q \in Requests, Handle(q) PROVE Counted' /\ QuotaHolds'
  <2>1. UNCHANGED <<now, hits, accepted>>
    BY <1>5 DEF Handle, Insert, InsertFails, PatchCommit, ConvertEnter, CreateCommit, CreateCollides,
                CreateFails, MarkCommit, MarkFails, Cleanup, guard
  <2> QED BY <2>1, GuardAside
<1> QED BY <1>1, <1>2, <1>3, <1>4, <1>5 DEF Next

LEMMA GuardInit == Init => Counted /\ QuotaHolds
<1> SUFFICES ASSUME Init PROVE Counted /\ QuotaHolds
  OBVIOUS
<1>1. hits = {} /\ accepted = {}
  BY DEF Init
<1>2. \A s \in Routes : Limit[s] \in Nat
  BY IntakeAssumption
<1>3. ASSUME NEW s \in Routes, NEW t \in 0 .. MaxTime PROVE In(s, t) = {}
  BY <1>1 DEF In
<1> QED BY <1>1, <1>2, <1>3, FS_EmptySet DEF Counted, QuotaHolds, In

\* No window holds more calls than the quota of a route.
THEOREM QuotaKept == Spec => []QuotaHolds
BY GuardInit, GuardStep, TypeCorrect, PTL DEF Spec
=============================================================================
