------------------------------ MODULE Sessions ------------------------------
(***************************************************************************)
(* One client account after its registration: the sessions signed for it,  *)
(* the password reset, the profile picture and the deletion by an          *)
(* administrator.                                                          *)
(*                                                                         *)
(*   login, verifyEmail, verifyToken, requestPasswordReset, resetPassword, *)
(*   uploadAvatar (auth.service), deleteUserAccount (admin.service) and    *)
(*   the demandes a session creates                                        *)
(*                                                                         *)
(* Every request is cut at its awaits: what it has read of the row may be  *)
(* stale when it writes.  A request that dies is one that takes no further *)
(* step.  The clock counts hours: a reset link and the window of the rate  *)
(* limit last one.  verifyEmail is one step here; module Verification cuts *)
(* it.  Text fields of the profile, the address of the caller (its limit   *)
(* of 10 is looser than the limit of 3 of the account) and the journal's   *)
(* purge, which only removes rows out of the window, are left out.         *)
(***************************************************************************)
EXTENDS Integers, FiniteSetsExt

CONSTANTS
  Callers,     \* concurrent requests
  Passwords,
  First,       \* the password of the registration
  NoPassword,
  MaxPerEmail, \* PASSWORD_RESET_MAX_PER_EMAIL_PER_HOUR
  MaxLinks,    \* bound on the reset links
  MaxPictures, \* bound on the pictures uploaded
  MaxDemandes  \* bound on the demandes created

ASSUME SessionsAssumption ==
  /\ IsFiniteSet(Callers)
  /\ First \in Passwords /\ NoPassword \notin Passwords
  /\ MaxPerEmail \in Nat \ {0}
  /\ MaxLinks \in Nat /\ MaxPictures \in Nat /\ MaxDemandes \in Nat

VARIABLES
  user,      \* the row of User, exists FALSE once deleted
  attempts,  \* PasswordResetAttempt rows of the last hour
  issued,    \* reset tokens drawn so far
  mailbox,   \* reset links that arrived
  pictures,  \* pictures in the bucket, numbered by upload
  uploads,   \* pictures uploaded so far
  demandes,  \* demandes of the account
  sessions,  \* cookies signed: the version, the password presented
  call       \* what each request is doing

reset        == <<attempts, issued, mailbox>>
picture      == <<pictures, uploads>>
sessionsVars == <<user, reset, picture, demandes, sessions, call>>

Link    == 0 .. MaxLinks        \* 0 for none
Picture == 0 .. MaxPictures     \* 0 for none

UserRow == [exists : BOOLEAN, active : BOOLEAN, verified : BOOLEAN, password : Passwords,
            version : Nat, link : Link, alive : BOOLEAN, avatar : Picture]

Session == [version : Nat, by : Passwords \cup {NoPassword}]

CallSet ==
       [pc : {"idle", "record", "issue", "demande", "erase", "deactivate"}]
  \cup [pc : {"sign"}, session : Session]
  \cup [pc : {"mail"}, link : Link]
  \cup [pc : {"reset"}, password : Passwords]
  \cup [pc : {"point"}, picture : Picture, previous : Picture]
  \cup [pc : {"remove"}, previous : Picture]

Idle == [pc |-> "idle"]

SessionsTypeOK ==
  /\ user \in UserRow
  /\ attempts \in Nat
  /\ issued \in Link
  /\ mailbox \subseteq Link
  /\ pictures \subseteq Picture
  /\ uploads \in Picture
  /\ demandes \in Nat
  /\ sessions \subseteq Session
  /\ call \in [Callers -> CallSet]

-----------------------------------------------------------------------------

\* register signs a session too: version 0, the password just chosen.
SessionsInit ==
  /\ user = [exists |-> TRUE, active |-> TRUE, verified |-> FALSE, password |-> First,
             version |-> 0, link |-> 0, alive |-> FALSE, avatar |-> 0]
  /\ attempts = 0 /\ issued = 0 /\ mailbox = {}
  /\ pictures = {} /\ uploads = 0
  /\ demandes = 0
  /\ sessions = {[version |-> 0, by |-> First]}
  /\ call = [w \in Callers |-> Idle]

Goto(w, c) == call' = [call EXCEPT ![w] = c]
At(w, pc)  == call[w].pc = pc

Accepted(s) == user.exists /\ user.active /\ s.version = user.version

HourPasses ==
  /\ attempts' = 0
  /\ user' = [user EXCEPT !.alive = FALSE]
  /\ UNCHANGED <<issued, mailbox, picture, demandes, sessions, call>>

LoginRead(w, p) ==
  /\ At(w, "idle")
  /\ user.exists /\ user.active /\ user.verified
  /\ p = user.password
  /\ Goto(w, [pc |-> "sign", session |-> [version |-> user.version, by |-> p]])
  /\ UNCHANGED <<user, reset, picture, demandes, sessions>>

Sign(w) ==
  /\ At(w, "sign")
  /\ sessions' = sessions \cup {call[w].session}
  /\ Goto(w, Idle)
  /\ UNCHANGED <<user, reset, picture, demandes>>

VerifyEmail(w) ==
  /\ At(w, "idle")
  /\ user.exists
  /\ user' = [user EXCEPT !.verified = TRUE]
  /\ Goto(w, [pc |-> "sign", session |-> [version |-> user.version, by |-> NoPassword]])
  /\ UNCHANGED <<reset, picture, demandes, sessions>>

-----------------------------------------------------------------------------

\* The check of the limit and the row that counts are two statements: requests
\* that run together may all pass it.
ForgotCount(w) ==
  /\ At(w, "idle")
  /\ attempts < MaxPerEmail
  /\ Goto(w, [pc |-> "record"])
  /\ UNCHANGED <<user, reset, picture, demandes, sessions>>

ForgotRecord(w) ==
  /\ At(w, "record")
  /\ attempts' = attempts + 1
  /\ Goto(w, [pc |-> "issue"])
  /\ UNCHANGED <<user, issued, mailbox, picture, demandes, sessions>>

ForgotIssue(w) ==
  /\ At(w, "issue")
  /\ \/ /\ user.exists
        /\ issued < MaxLinks
        /\ issued' = issued + 1
        /\ user' = [user EXCEPT !.link = issued', !.alive = TRUE]
        /\ Goto(w, [pc |-> "mail", link |-> issued'])
     \/ /\ ~user.exists
        /\ Goto(w, Idle)
        /\ UNCHANGED <<user, issued>>
  /\ UNCHANGED <<attempts, mailbox, picture, demandes, sessions>>

\* A failure of the mailer is swallowed: the link is one that nobody opens.
MailLink(w) ==
  /\ At(w, "mail")
  /\ mailbox' = mailbox \cup {call[w].link}
  /\ Goto(w, Idle)
  /\ UNCHANGED <<user, attempts, issued, picture, demandes, sessions>>

LinkValid(l) == user.exists /\ l # 0 /\ user.link = l /\ user.alive

ResetRead(w, l, p) ==
  /\ At(w, "idle")
  /\ l \in mailbox
  /\ LinkValid(l)
  /\ Goto(w, [pc |-> "reset", password |-> p])
  /\ UNCHANGED <<user, reset, picture, demandes, sessions>>

\* Mutant: the version is left alone.
ResetCommitKeepsVersion(w) ==
  /\ At(w, "reset")
  /\ IF user.exists
       THEN user' = [user EXCEPT !.password = call[w].password, !.link = 0, !.alive = FALSE]
       ELSE UNCHANGED user
  /\ Goto(w, Idle)
  /\ UNCHANGED <<reset, picture, demandes, sessions>>

\* The update is by id: it does not ask for the link again.
ResetCommit(w) ==
  /\ At(w, "reset")
  /\ IF user.exists
       THEN user' = [user EXCEPT !.password = call[w].password, !.link = 0, !.alive = FALSE,
                                 !.version = @ + 1]
       ELSE UNCHANGED user
  /\ Goto(w, Idle)
  /\ UNCHANGED <<reset, picture, demandes, sessions>>

-----------------------------------------------------------------------------

\* Mutant: the previous picture goes before the row points at the new one.
AvatarUploadRemoves(w) ==
  /\ At(w, "idle")
  /\ \E s \in sessions : Accepted(s)
  /\ uploads < MaxPictures
  /\ uploads' = uploads + 1
  /\ pictures' = (pictures \ {user.avatar}) \cup {uploads'}
  /\ Goto(w, [pc |-> "point", picture |-> uploads', previous |-> user.avatar])
  /\ UNCHANGED <<user, reset, demandes, sessions>>

\* verifyToken reads the row at each request.
AvatarUpload(w) ==
  /\ At(w, "idle")
  /\ \E s \in sessions : Accepted(s)
  /\ uploads < MaxPictures
  /\ uploads' = uploads + 1
  /\ pictures' = pictures \cup {uploads'}
  /\ Goto(w, [pc |-> "point", picture |-> uploads', previous |-> user.avatar])
  /\ UNCHANGED <<user, reset, demandes, sessions>>

AvatarPoint(w) ==
  /\ At(w, "point")
  /\ \/ /\ user.exists
        /\ user' = [user EXCEPT !.avatar = call[w].picture]
        /\ Goto(w, [pc |-> "remove", previous |-> call[w].previous])
     \/ /\ ~user.exists
        /\ UNCHANGED user
        /\ Goto(w, Idle)
  /\ UNCHANGED <<reset, picture, demandes, sessions>>

\* A failure of the removal is swallowed.
AvatarRemove(w) ==
  /\ At(w, "remove")
  /\ pictures' \in {pictures, pictures \ {call[w].previous}}
  /\ Goto(w, Idle)
  /\ UNCHANGED <<user, reset, uploads, demandes, sessions>>

-----------------------------------------------------------------------------

\* The guard admits the session; the handler writes later.
DemandeAdmit(w) ==
  /\ At(w, "idle")
  /\ \E s \in sessions : Accepted(s)
  /\ Goto(w, [pc |-> "demande"])
  /\ UNCHANGED <<user, reset, picture, demandes, sessions>>

DemandeCreate(w) ==
  /\ At(w, "demande")
  /\ demandes < MaxDemandes
  /\ demandes' = IF user.exists THEN demandes + 1 ELSE demandes
  /\ Goto(w, Idle)
  /\ UNCHANGED <<user, reset, picture, sessions>>

\* countUserDependencies: of all that is counted, the requests.
Dependencies == demandes

\* deleteUserAccount counts the dependencies, then acts on the count.
DeleteCount(w) ==
  /\ At(w, "idle")
  /\ user.exists
  /\ Goto(w, [pc |-> IF Dependencies = 0 THEN "erase" ELSE "deactivate"])
  /\ UNCHANGED <<user, reset, picture, demandes, sessions>>

DeleteErase(w) ==
  /\ At(w, "erase")
  /\ user' = [user EXCEPT !.exists = FALSE]
  /\ demandes' = 0
  /\ Goto(w, Idle)
  /\ UNCHANGED <<reset, picture, sessions>>

DeleteDeactivate(w) ==
  /\ At(w, "deactivate")
  /\ user' = [user EXCEPT !.active = FALSE]
  /\ Goto(w, Idle)
  /\ UNCHANGED <<reset, picture, demandes, sessions>>

SessionsNext ==
  \/ HourPasses
  \/ \E w \in Callers :
       \/ \E p \in Passwords : LoginRead(w, p)
       \/ Sign(w) \/ VerifyEmail(w)
       \/ ForgotCount(w) \/ ForgotRecord(w) \/ ForgotIssue(w) \/ MailLink(w)
       \/ \E l \in mailbox, p \in Passwords : ResetRead(w, l, p)
       \/ ResetCommit(w)
       \/ AvatarUpload(w) \/ AvatarPoint(w) \/ AvatarRemove(w)
       \/ DemandeAdmit(w) \/ DemandeCreate(w)
       \/ DeleteCount(w) \/ DeleteErase(w) \/ DeleteDeactivate(w)

SessionsSpec == SessionsInit /\ [][SessionsNext]_sessionsVars

-----------------------------------------------------------------------------

\* A session opened with a password is accepted only while that password is
\* the one of the account: no reset, whatever logins and other resets it
\* crosses, leaves a session of an older password alive.
SessionFollowsPassword ==
  \A s \in sessions : Accepted(s) /\ s.by # NoPassword => s.by = user.password

\* The account points at a picture that is still in the bucket, whatever
\* uploads cross and whichever step of one fails.
AvatarExists == user.avatar # 0 => user.avatar \in pictures
=============================================================================
