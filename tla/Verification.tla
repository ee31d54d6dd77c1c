---------------------------- MODULE Verification ----------------------------
(***************************************************************************)
(* The verification of the e-mail of one client account: its registration, *)
(* the links it receives, the sweeps of the reminder scheduler.            *)
(*                                                                         *)
(*   register, verifyEmail, resendVerification (auth.service), sweep and   *)
(*   sendReminder (verification-reminder.scheduler)                        *)
(*                                                                         *)
(* A request is cut between what it reads and what it writes, a sweep at   *)
(* each of its awaits.  The clock counts days since the registration: a    *)
(* window of two hours around day n is day n, and the gap of 20 hours      *)
(* between two reminders is "an earlier day".  The timer fires every hour, *)
(* and a mail is given up after ten seconds, so no day passes without a     *)
(* sweep that begins.                                                      *)
(***************************************************************************)
EXTENDS Integers, FiniteSets

CONSTANTS
  Requests,     \* concurrent requests about the account
  Never,
  Windows,      \* REMINDER_WINDOWS: the day of window number 0, 1, ...
  MaxReminders, \* MAX_VERIFICATION_REMINDERS
  Ttl,          \* life of a link, in days
  MaxTime,      \* bound on the clock
  MaxLinks,     \* bound on the links that requests draw
  MaxFaults     \* bound on the failures of the mailer and the database

ASSUME VerificationAssumption ==
  /\ MaxReminders \in Nat /\ Ttl \in Nat /\ MaxTime \in Nat /\ MaxLinks \in Nat
  /\ MaxFaults \in Nat /\ Never \notin Nat
  /\ DOMAIN Windows \subseteq 0 .. MaxReminders - 1
  /\ \A c \in DOMAIN Windows : Windows[c] \in Nat

VARIABLES
  now,
  user,      \* the row of User
  issued,    \* links drawn so far
  mailbox,   \* links that arrived
  call,      \* what each request is doing
  running,   \* the flag of the scheduler
  sweep,     \* the sweep under way: its instant, its window, its link
  swept,     \* a sweep has begun since the clock moved
  sent,      \* reminders handed to the mailer (history)
  faults,    \* failures so far
  uncounted  \* those whose count was not written (history)

scheduler        == <<running, sweep, swept, sent, faults, uncounted>>
verificationVars == <<now, user, issued, mailbox, call, scheduler>>

Link == Nat   \* 0 for none

UserRow == [state : {"none", "active", "inactive", "deleted"}, verified : BOOLEAN,
            link : Link, expires : Nat, reminders : 0 .. MaxReminders, last : Nat \cup {Never}]

CallSet  == [pc : {"idle", "mail", "verify", "resend"}, link : Link]
SweepSet == [pc : {"idle", "select", "check", "renew", "mail", "count"}, at : Nat,
             window : 0 .. MaxReminders, link : Link]

Call(pc, l)        == [pc |-> pc, link |-> l]
Sweep(pc, t, c, l) == [pc |-> pc, at |-> t, window |-> c, link |-> l]

VerificationTypeOK ==
  /\ now \in Nat
  /\ user \in UserRow
  /\ issued \in Link
  /\ mailbox \subseteq Link
  /\ call \in [Requests -> CallSet]
  /\ running \in BOOLEAN /\ swept \in BOOLEAN
  /\ sweep \in SweepSet
  /\ sent \in Nat /\ faults \in Nat /\ uncounted \in Nat

VerificationInit ==
  /\ now = 0
  /\ user = [state |-> "none", verified |-> FALSE, link |-> 0, expires |-> 0,
             reminders |-> 0, last |-> Never]
  /\ issued = 0 /\ mailbox = {}
  /\ call = [w \in Requests |-> Call("idle", 0)]
  /\ running = FALSE /\ swept = FALSE
  /\ sweep = Sweep("idle", 0, 0, 0)
  /\ sent = 0 /\ faults = 0 /\ uncounted = 0

Exists == user.state \in {"active", "inactive"}

-----------------------------------------------------------------------------

DayPasses ==
  /\ user.state # "none"
  /\ now < MaxTime
  /\ swept
  /\ now' = now + 1
  /\ swept' = FALSE
  /\ UNCHANGED <<user, issued, mailbox, call, running, sweep, sent, faults, uncounted>>

Goto(w, pc, l) == call' = [call EXCEPT ![w] = Call(pc, l)]

\* A link is drawn; it lives Ttl from the instant its writer looked at the clock.
Draw(from) ==
  /\ issued' = issued + 1
  /\ user' = [user EXCEPT !.link = issued', !.expires = from + Ttl]

Register(w) ==
  /\ call[w].pc = "idle"
  /\ user.state = "none"   \* otherwise P2002
  /\ issued < MaxLinks
  /\ issued' = issued + 1
  /\ user' = [user EXCEPT !.state = "active", !.link = issued', !.expires = now + Ttl]
  /\ Goto(w, "mail", issued')
  /\ UNCHANGED <<now, mailbox, scheduler>>

\* A failure of this mail is swallowed: the link is one that nobody opens.
MailLink(w) ==
  /\ call[w].pc = "mail"
  /\ mailbox' = mailbox \cup {call[w].link}
  /\ Goto(w, "idle", 0)
  /\ UNCHANGED <<now, user, issued, scheduler>>

VerifyRead(w, l) ==
  /\ call[w].pc = "idle"
  /\ l \in mailbox
  /\ Exists /\ user.link = l
  /\ ~user.verified /\ now <= user.expires
  /\ Goto(w, "verify", l)
  /\ UNCHANGED <<now, user, issued, mailbox, scheduler>>

\* By id; the link stays, to answer "already verified" to a replay.
VerifyCommit(w) ==
  /\ call[w].pc = "verify"
  /\ user' = IF Exists THEN [user EXCEPT !.verified = TRUE] ELSE user
  /\ Goto(w, "idle", 0)
  /\ UNCHANGED <<now, issued, mailbox, scheduler>>

ResendRead(w) ==
  /\ call[w].pc = "idle"
  /\ Exists /\ ~user.verified
  /\ Goto(w, "resend", 0)
  /\ UNCHANGED <<now, user, issued, mailbox, scheduler>>

ResendWrite(w) ==
  /\ call[w].pc = "resend"
  /\ \/ /\ Exists
        /\ issued < MaxLinks
        /\ Draw(now)
        /\ Goto(w, "mail", issued')
     \/ /\ ~Exists
        /\ Goto(w, "idle", 0)
        /\ UNCHANGED <<user, issued>>
  /\ UNCHANGED <<now, mailbox, scheduler>>

\* deleteUserAccount: the account has no demande, or has some.
Leave ==
  /\ user.state = "active"
  /\ \E s \in {"inactive", "deleted"} : user' = [user EXCEPT !.state = s]
  /\ UNCHANGED <<now, issued, mailbox, call, scheduler>>

-----------------------------------------------------------------------------

SweepBegin ==
  /\ ~running   \* otherwise the timer's call returns at once
  /\ running' = TRUE /\ swept' = TRUE
  /\ sweep' = Sweep("select", now, 0, 0)
  /\ UNCHANGED <<now, user, issued, mailbox, call, sent, faults, uncounted>>

SweepEnd ==
  /\ running' = FALSE
  /\ sweep' = Sweep("idle", 0, 0, 0)

Fault == faults < MaxFaults /\ faults' = faults + 1

\* The clauses of the windows are joined by AND.
Selected(t) ==
  /\ user.state = "active" /\ ~user.verified
  /\ user.reminders < MaxReminders
  /\ user.last # Never => user.last < t
  /\ \A c \in DOMAIN Windows : user.reminders = c /\ Windows[c] = t

\* The window kept is the first one the age falls in.
SweepSelect ==
  /\ sweep.pc = "select"
  /\ \/ /\ Selected(sweep.at)
        /\ \E c \in DOMAIN Windows :
             /\ Windows[c] = sweep.at
             /\ \A d \in DOMAIN Windows : Windows[d] = sweep.at => c <= d
             /\ sweep' = Sweep("check", sweep.at, c, 0)
        /\ UNCHANGED <<running, faults>>
     \/ /\ ~Selected(sweep.at) \/ \A c \in DOMAIN Windows : Windows[c] # sweep.at
        /\ SweepEnd
        /\ UNCHANGED faults
     \/ Fault /\ SweepEnd
  /\ UNCHANGED <<now, user, issued, mailbox, call, swept, sent, uncounted>>

\* The account is read again just before the mail.
SweepCheck ==
  /\ sweep.pc = "check"
  /\ \/ /\ IF Exists /\ ~user.verified /\ user.reminders < MaxReminders
             THEN sweep' = [sweep EXCEPT !.pc = "renew"] /\ UNCHANGED running
             ELSE SweepEnd
        /\ UNCHANGED faults
     \/ Fault /\ SweepEnd
  /\ UNCHANGED <<now, user, issued, mailbox, call, swept, sent, uncounted>>

\* The link lives from the instant of the sweep.
SweepRenew ==
  /\ sweep.pc = "renew"
  /\ \/ /\ Exists
        /\ Draw(sweep.at)
        /\ sweep' = Sweep("mail", sweep.at, sweep.window, issued')
        /\ UNCHANGED <<running, faults>>
     \/ /\ Fault \/ (~Exists /\ UNCHANGED faults)
        /\ SweepEnd
        /\ UNCHANGED <<user, issued>>
  /\ UNCHANGED <<now, mailbox, call, swept, sent, uncounted>>

\* The mailer swallows its failures: a reminder that is lost goes on to be
\* counted.
SweepMail ==
  /\ sweep.pc = "mail"
  /\ \/ mailbox' = mailbox \cup {sweep.link} /\ UNCHANGED faults
     \/ Fault /\ UNCHANGED mailbox
  /\ sent' = sent + 1
  /\ sweep' = [sweep EXCEPT !.pc = "count"]
  /\ UNCHANGED <<now, user, issued, call, running, swept, uncounted>>

\* Mutant: the count is the one of the window, not the next.
SweepCountWindow ==
  /\ sweep.pc = "count"
  /\ user' = [user EXCEPT !.reminders = sweep.window, !.last = sweep.at]
  /\ SweepEnd
  /\ UNCHANGED <<now, issued, mailbox, call, swept, sent, faults, uncounted>>

\* Mutant: a failure after the mail leaves the flag up.
SweepCountStuck ==
  /\ sweep.pc = "count"
  /\ Fault
  /\ uncounted' = uncounted + 1
  /\ sweep' = Sweep("idle", 0, 0, 0)
  /\ UNCHANGED <<now, user, issued, mailbox, call, running, swept, sent>>

\* Written as a value, not as an increment.
SweepCount ==
  /\ sweep.pc = "count"
  /\ \/ /\ Exists
        /\ user' = [user EXCEPT !.reminders = sweep.window + 1, !.last = sweep.at]
        /\ UNCHANGED <<faults, uncounted>>
     \/ /\ Fault \/ (~Exists /\ UNCHANGED faults)
        /\ uncounted' = uncounted + 1
        /\ UNCHANGED user
  /\ SweepEnd
  /\ UNCHANGED <<now, issued, mailbox, call, swept, sent>>

-----------------------------------------------------------------------------

Request(w) ==
  \/ Register(w) \/ MailLink(w)
  \/ \E l \in mailbox : VerifyRead(w, l)
  \/ VerifyCommit(w) \/ ResendRead(w) \/ ResendWrite(w)

SweepStep == SweepSelect \/ SweepCheck \/ SweepRenew \/ SweepMail \/ SweepCount

VerificationNext ==
  \/ DayPasses \/ Leave \/ SweepBegin \/ SweepStep
  \/ \E w \in Requests : Request(w)

VerificationSpec == VerificationInit /\ [][VerificationNext]_verificationVars

\* The clock runs, the timer fires, a sweep goes on.  Nothing obliges a
\* client to open a link nor a request to end.
FairVerificationSpec ==
  /\ VerificationSpec
  /\ WF_verificationVars(DayPasses)
  /\ WF_verificationVars(SweepBegin)
  /\ WF_verificationVars(SweepStep)

-----------------------------------------------------------------------------

\* The absolute value written after the mail loses no reminder: those handed to
\* the mailer are those counted, those whose count failed, and the one under way.
MailsAreCounted ==
  user.state # "deleted" =>
    sent = user.reminders + uncounted + IF sweep.pc = "count" THEN 1 ELSE 0

\* No failure and no early exit leaves the flag of the scheduler up: a sweep
\* that runs ends, and others follow.
SweepsGoOn == running ~> ~running

\* A client who does not verify the account receives a reminder, unless it
\* leaves or a failure eats the sweep of its window.
Reminded ==
  user.state = "active" ~> (sent > 0 \/ user.verified \/ user.state # "active" \/ faults > 0)
=============================================================================
