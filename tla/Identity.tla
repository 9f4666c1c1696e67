------------------------------ MODULE Identity ------------------------------
(***************************************************************************)
(* One identity: its email credential, the links mailed to it, and its      *)
(* sessions.  Sign-up, verification, login, logout, use, password reset and *)
(* session pruning run concurrently; each reads what it decides on in one   *)
(* or more database accesses and then commits.                              *)
(*                                                                          *)
(* The identity, a link and a session each change status once, so a commit  *)
(* that requires the loaded version finds it exactly while the status is    *)
(* still the loaded one.  The credential has no version: its updated_at     *)
(* stands in for it, a clock reading, and clocks of different processes     *)
(* need not agree.                                                          *)
(*                                                                          *)
(* A login holds the credential FOR SHARE (stage "opening") and a reset     *)
(* holds it exclusively (stage "resetting") until its transaction ends.     *)
(***************************************************************************)
EXTENDS Integers, FiniteSets

CONSTANTS
  Calls,       \* concurrent command executions
  Links,       \* ids of mailed challenges; also names the password set by it
  Sessions,    \* ids of sessions
  None,        \* no link; as a password, the one chosen at sign-up
  MaxActive,   \* SessionPolicy.maxActivePerIdentity
  MaxTime      \* bound on the clock readings that set a password

ASSUME IdentityAssumption ==
  /\ None \notin Links \cup Sessions
  /\ MaxActive \in Nat \ {0}
  /\ MaxTime \in Nat
  /\ IsFiniteSet(Sessions)

VARIABLES
  identity,    \* its status
  cred,        \* updated_at and the current password
  links,       \* challenges by id
  sessions,    \* status by id
  openedWith,  \* the password each session was opened with
  lapsed,      \* links and sessions past their expiry
  idle,        \* sessions unused for longer than the idle timeout
  facts,       \* events enqueued so far, by kind and row
  pc,          \* where each call is
  link,        \* the link it presents
  at,          \* the time it has read from its clock
  seen,        \* the credential it has read
  pending,     \* calls that found the identity pending
  list         \* the sessions it is about to revoke, or uses

rows == <<identity, cred, links, sessions, openedWith, facts>>
time == <<lapsed, idle>>
callVars == <<pc, link, at, seen, pending, list>>
vars == <<rows, time, callVars>>

Times == 0 .. MaxTime
Passwords == Links \cup {None}
Purposes == {"email_verification", "password_reset"}
Credentials == [updatedAt : Times, password : Passwords]
Challenges == [purpose : Purposes, status : {"none", "issued", "consumed"}]
Fact(kind, x) == [kind |-> kind, id |-> x]

(* Identity.register and Identity.verify: the status a row gets. *)
Registered == "pending_verification"
Verified == "active"

(* Credential.createEmailPassword. *)
NewCredential == [updatedAt |-> 0, password |-> None]

(* VerificationChallenge.issue. *)
NewChallenge(purpose) == [purpose |-> purpose, status |-> "issued"]

(* What the readers return: the identity alone, the identity joined with its
   credential, and a challenge. *)
FindIdentity == identity
FindAccount == [identity |-> identity, credential |-> cred]
FindChallenge(l) == links[l]

ActiveSessions == {s \in Sessions : sessions[s] = "active"}

(* Session.assertUsable. *)
Usable == ActiveSessions \ (lapsed \cup idle)

Issued(l) == links[l].status = "issued"

-----------------------------------------------------------------------------
Init ==
  /\ identity = "none"
  /\ cred = NewCredential
  /\ links = [l \in Links |-> [purpose |-> "email_verification",
                               status |-> "none"]]
  /\ sessions = [s \in Sessions |-> "none"]
  /\ openedWith = [s \in Sessions |-> None]
  /\ lapsed = {} /\ idle = {} /\ facts = {}
  /\ pc = [c \in Calls |-> "idle"]
  /\ link = [c \in Calls |-> None]
  /\ at = [c \in Calls |-> 0]
  /\ seen = [c \in Calls |-> cred]
  /\ pending = {}
  /\ list = [c \in Calls |-> {}]

Return(c) ==
  /\ pc' = [pc EXCEPT ![c] = "idle"]
  /\ link' = [link EXCEPT ![c] = None]
  /\ at' = [at EXCEPT ![c] = 0]
  /\ seen' = [seen EXCEPT ![c] = NewCredential]
  /\ pending' = pending \ {c}
  /\ list' = [list EXCEPT ![c] = {}]

(* A storage failure, an abort, a wrong token or password, a refused write:
   the transaction, if there is one, is rolled back. *)
CallFails(c) ==
  /\ pc[c] # "idle"
  /\ Return(c)
  /\ UNCHANGED <<rows, time>>

Goto(c, stage) == pc' = [pc EXCEPT ![c] = stage]

-----------------------------------------------------------------------------
(* The unique index n2f_identity_credentials_email_key. *)
EmailFree == identity = "none"

(* PostgresRegistrationWriter: both rows and the event, or nothing. *)
RegistrationCommit(status, credential) ==
  /\ identity' = status
  /\ cred' = credential
  /\ facts' = facts \cup {Fact("registered", None)}
  /\ UNCHANGED <<links, sessions, openedWith, time, callVars>>

(* RegisterIdentity: the unique email lets one in. *)
Register ==
  /\ EmailFree
  /\ RegistrationCommit(Registered, NewCredential)

(* IssueVerificationChallenge (from SignUp and ResendVerification) and
   RequestPasswordReset look at the identity first ... *)
IssueCheck(c, purpose) ==
  /\ pc[c] = "idle"
  /\ FindIdentity # "none"
  /\ purpose = "email_verification" => FindIdentity = "pending_verification"
  /\ Goto(c, purpose)
  /\ UNCHANGED <<rows, time, link, at, seen, pending, list>>

(* PostgresVerificationChallengeWriter. *)
InsertChallenge(l, challenge) ==
  /\ links[l].status = "none"
  /\ links' = [links EXCEPT ![l] = challenge]
  /\ facts' = facts \cup {Fact("issued", l)}

(* ... and then insert the challenge; mailing the link changes no state. *)
IssueCommit(c) ==
  /\ pc[c] \in Purposes
  /\ \E l \in Links : InsertChallenge(l, NewChallenge(pc[c]))
  /\ Return(c)
  /\ UNCHANGED <<identity, cred, sessions, openedWith, time>>

-----------------------------------------------------------------------------
(* VerifyIdentity.                                                          *)

VerifyLoad(c, l) ==
  /\ pc[c] = "idle"
  /\ FindChallenge(l) = NewChallenge("email_verification")
  /\ Goto(c, "verify")
  /\ link' = [link EXCEPT ![c] = l]
  /\ UNCHANGED <<rows, time, at, seen, pending, list>>

VerifyCheck(c) ==
  /\ pc[c] = "verify"
  /\ FindIdentity = "pending_verification"
  /\ link[c] \notin lapsed
  /\ Goto(c, "verifying")
  /\ UNCHANGED <<rows, time, link, at, seen, pending, list>>

(* UPDATE identities ... WHERE version = $loaded. *)
StillPending == identity = "pending_verification"

(* UPDATE challenges ... WHERE version = $loaded. *)
LinkUnspent(l) == Issued(l)

(* VerificationChallenge.consume. *)
Consumed(l) == [links EXCEPT ![l].status = "consumed"]

VerifyCommit(c) ==
  /\ pc[c] = "verifying"
  /\ StillPending /\ LinkUnspent(link[c])
  /\ identity' = Verified
  /\ links' = Consumed(link[c])
  /\ facts' = facts \cup {Fact("verified", link[c])}
  /\ Return(c)
  /\ UNCHANGED <<cred, sessions, openedWith, time>>

-----------------------------------------------------------------------------
(* AuthenticateIdentity.                                                    *)

(* The password given is the stored one. *)
LoginCheck(c) ==
  /\ pc[c] = "idle"
  /\ FindAccount.identity = "active"
  /\ Goto(c, "login")
  /\ seen' = [seen EXCEPT ![c] = FindAccount.credential]
  /\ UNCHANGED <<rows, time, link, at, pending, list>>

(* Seeded fault: no session is evicted. *)
EvictionsNone(usable) == {{}}

(* All usable sessions but the newest MaxActive - 1; creation times come from
   the clocks of concurrent processes, so any of them may be the newest. *)
Evictions(usable) ==
  {usable \ keep : keep \in {k \in SUBSET usable :
     Cardinality(k) = IF Cardinality(usable) < MaxActive
                      THEN Cardinality(usable) ELSE MaxActive - 1}}

(* The usable sessions are listed; which of them are evicted is decided by
   the list alone. *)
LoginList(c) ==
  /\ pc[c] = "login"
  /\ list' = [list EXCEPT ![c] = Usable]
  /\ Goto(c, "opens")
  /\ UNCHANGED <<rows, time, link, at, seen, pending>>

(* WHERE updated_at = $loaded. *)
SameSecret(c) == cred.updatedAt = seen[c].updatedAt

(* SELECT ... FOR SHARE waits for a reset that has locked the row. *)
LoginLock(c) ==
  /\ pc[c] = "opens"
  /\ \A q \in Calls : pc[q] # "resetting"
  /\ SameSecret(c)
  /\ Goto(c, "opening")
  /\ UNCHANGED <<rows, time, link, at, seen, pending, list>>

(* A version-checked revocation of each of the sessions. *)
Revocable(ss) == \A s \in ss : sessions[s] = "active"

(* The sessions once ss are revoked. *)
Without(ss) == [s \in Sessions |-> IF s \in ss THEN "revoked" ELSE sessions[s]]

Revoked(ss) == {Fact("closed", s) : s \in ss}

LoginCommit(c) ==
  /\ pc[c] = "opening"
  /\ \E s \in Sessions, evicted \in Evictions(list[c]) :
       /\ sessions[s] = "none"
       /\ Revocable(evicted)
       /\ sessions' = [Without(evicted) EXCEPT ![s] = "active"]
       /\ openedWith' = [openedWith EXCEPT ![s] = seen[c].password]
       /\ facts' = facts \cup Revoked(evicted) \cup {Fact("opened", s)}
  /\ Return(c)
  /\ UNCHANGED <<identity, cred, links, time>>

-----------------------------------------------------------------------------
(* RevokeSession (logout) and GetCurrentIdentity (every other request).     *)

LogoutLoad(c, s) ==
  /\ pc[c] = "idle"
  /\ sessions[s] = "active"
  /\ Goto(c, "logout")
  /\ list' = [list EXCEPT ![c] = {s}]
  /\ UNCHANGED <<rows, time, link, at, seen, pending>>

LogoutCommit(c) ==
  /\ pc[c] = "logout"
  /\ Revocable(list[c])
  /\ sessions' = Without(list[c])
  /\ facts' = facts \cup Revoked(list[c])
  /\ Return(c)
  /\ UNCHANGED <<identity, cred, links, openedWith, time>>

UseLoad(c, s) ==
  /\ pc[c] = "idle"
  /\ s \in Usable
  /\ identity = "active"
  /\ Goto(c, "using")
  /\ list' = [list EXCEPT ![c] = {s}]
  /\ UNCHANGED <<rows, time, link, at, seen, pending>>

(* Seeded fault: use writes back the whole loaded row. *)
UseRecordRow(c) ==
  /\ pc[c] = "using"
  /\ idle' = idle \ list[c]
  /\ sessions' = [s \in Sessions |->
       IF s \in list[c] THEN "active" ELSE sessions[s]]
  /\ Return(c)
  /\ UNCHANGED <<identity, cred, links, openedWith, facts, lapsed>>

(* PostgresSessionActivityWriter: last_seen_at only, and no version. *)
UseRecord(c) ==
  /\ pc[c] = "using"
  /\ idle' = idle \ list[c]
  /\ Return(c)
  /\ UNCHANGED <<rows, lapsed>>

-----------------------------------------------------------------------------
(* ConfirmPasswordReset.                                                    *)

ResetLoad(c, l, t) ==
  /\ pc[c] = "idle"
  /\ FindChallenge(l) = NewChallenge("password_reset")
  /\ l \notin lapsed
  /\ Goto(c, "reset")
  /\ link' = [link EXCEPT ![c] = l]
  /\ at' = [at EXCEPT ![c] = t]
  /\ UNCHANGED <<rows, time, seen, pending, list>>

(* Credential.changeSecret: the time moves strictly forward. *)
Forward(t) == t > cred.updatedAt

(* Credential and identity are read; a pending identity will be verified. *)
ResetAccount(c) ==
  /\ pc[c] = "reset"
  /\ FindAccount.identity # "none"
  /\ Forward(at[c])
  /\ Goto(c, "resetList")
  /\ seen' = [seen EXCEPT ![c] = FindAccount.credential]
  /\ pending' = IF FindAccount.identity = "pending_verification"
                THEN pending \cup {c} ELSE pending
  /\ UNCHANGED <<rows, time, link, at, list>>

ResetList(c) ==
  /\ pc[c] = "resetList"
  /\ list' = [list EXCEPT ![c] = ActiveSessions]
  /\ Goto(c, "resets")
  /\ UNCHANGED <<rows, time, link, at, seen, pending>>

(* Seeded fault: the credential is locked by logins in vain. *)
ResetLockAtOnce(c) ==
  /\ pc[c] = "resets"
  /\ \A q \in Calls : pc[q] # "resetting"
  /\ SameSecret(c)
  /\ Goto(c, "resetting")
  /\ UNCHANGED <<rows, time, link, at, seen, pending, list>>

(* The UPDATE of the credential comes first and waits for its lock. *)
ResetLock(c) ==
  /\ pc[c] = "resets"
  /\ \A q \in Calls : pc[q] \notin {"opening", "resetting"}
  /\ SameSecret(c)
  /\ Goto(c, "resetting")
  /\ UNCHANGED <<rows, time, link, at, seen, pending, list>>

(* Seeded fault: sessions opened since the list was read are not looked for. *)
NoSurvivorsUnchecked(c) == TRUE

(* No session is active but the ones about to be revoked. *)
NoSurvivors(c) == ActiveSessions \subseteq list[c]

ResetCommit(c) ==
  /\ pc[c] = "resetting"
  /\ LinkUnspent(link[c])
  /\ c \in pending => StillPending
  /\ Revocable(list[c])
  /\ NoSurvivors(c)
  /\ cred' = [updatedAt |-> at[c], password |-> link[c]]
  /\ links' = Consumed(link[c])
  /\ identity' = IF c \in pending THEN Verified ELSE identity
  /\ sessions' = Without(list[c])
  /\ facts' = facts \cup Revoked(list[c]) \cup {Fact("reset", link[c])}
                \cup (IF c \in pending THEN {Fact("verified", link[c])} ELSE {})
  /\ Return(c)
  /\ UNCHANGED <<openedWith, time>>

-----------------------------------------------------------------------------
(* Time passes.                                                             *)

LinkLapses(l) ==
  /\ Issued(l) /\ l \notin lapsed
  /\ lapsed' = lapsed \cup {l}
  /\ UNCHANGED <<rows, idle, callVars>>

SessionLapses(s) ==
  /\ sessions[s] = "active" /\ s \notin lapsed
  /\ lapsed' = lapsed \cup {s}
  /\ UNCHANGED <<rows, idle, callVars>>

SessionIdles(s) ==
  /\ sessions[s] = "active" /\ s \notin idle
  /\ idle' = idle \cup {s}
  /\ UNCHANGED <<rows, lapsed, callVars>>

(* Revoked, expired or idle; for long enough, which the model lets pass. *)
Ended(s) ==
  \/ sessions[s] = "revoked"
  \/ sessions[s] = "active" /\ s \in lapsed \cup idle

(* PruneSessions deletes sessions that ended long enough ago ... *)
Prune(s) ==
  /\ Ended(s)
  /\ sessions' = [sessions EXCEPT ![s] = "deleted"]
  /\ UNCHANGED <<identity, cred, links, openedWith, facts, time, callVars>>

(* ... in sweeps of several batches, any of which may fail. *)
SessionPruning == \E s \in Sessions : Prune(s)

-----------------------------------------------------------------------------
Step(c) ==
  \/ \E purpose \in Purposes : IssueCheck(c, purpose)
  \/ IssueCommit(c)
  \/ \E l \in Links : VerifyLoad(c, l)
  \/ VerifyCheck(c)
  \/ VerifyCommit(c)
  \/ LoginCheck(c)
  \/ LoginList(c)
  \/ LoginLock(c)
  \/ LoginCommit(c)
  \/ \E s \in Sessions : LogoutLoad(c, s)
  \/ LogoutCommit(c)
  \/ \E s \in Sessions : UseLoad(c, s)
  \/ UseRecord(c)
  \/ \E l \in Links, t \in Times : ResetLoad(c, l, t)
  \/ ResetAccount(c)
  \/ ResetList(c)
  \/ ResetLock(c)
  \/ ResetCommit(c)
  \/ CallFails(c)

Next ==
  \/ Register
  \/ \E c \in Calls : Step(c)
  \/ \E l \in Links : LinkLapses(l)
  \/ \E s \in Sessions : SessionLapses(s) \/ SessionIdles(s)
  \/ SessionPruning

Spec == Init /\ [][Next]_vars

-----------------------------------------------------------------------------
(* Properties.                                                              *)

Stages == Purposes \cup
  {"idle", "verify", "verifying", "login", "opens", "opening", "logout",
   "using", "reset", "resetList", "resets", "resetting"}

FactKinds == {"registered", "issued", "verified", "opened", "closed", "reset"}

(* Rows, facts and calls are well formed. *)
TypeOK ==
  /\ identity \in {"none", "pending_verification", "active"}
  /\ cred \in Credentials
  /\ links \in [Links -> Challenges]
  /\ sessions \in [Sessions -> {"none", "active", "revoked", "deleted"}]
  /\ openedWith \in [Sessions -> Passwords]
  /\ lapsed \in SUBSET (Links \cup Sessions) /\ idle \in SUBSET Sessions
  /\ facts \in SUBSET [kind : FactKinds, id : Links \cup Sessions \cup {None}]
  /\ pc \in [Calls -> Stages]
  /\ link \in [Calls -> Links \cup {None}]
  /\ at \in [Calls -> Times]
  /\ seen \in [Calls -> Credentials]
  /\ pending \in SUBSET Calls
  /\ list \in [Calls -> SUBSET Sessions]

(* Whoever knew the old password is signed out: every active session was
   opened with the current password, also when logins race the reset. *)
OldPasswordSignedOut ==
  \A s \in ActiveSessions : openedWith[s] = cred.password

ResetLinks == {l \in Links : links[l].purpose = "password_reset"}

(* A reset link sets one password once, and the password in force is that of
   a link that was consumed: no reset is half done or done twice. *)
LinkSetsOnePassword ==
  /\ cred.password # None =>
       cred.password \in ResetLinks /\ links[cred.password].status = "consumed"
  /\ \A l \in ResetLinks :
       links[l].status = "consumed" <=> Fact("reset", l) \in facts

VerifiedBy == {l \in Links : Fact("verified", l) \in facts}

(* An identity is verified exactly once, by one link that was mailed to it,
   however many verification and reset links race. *)
VerifiedOnce ==
  /\ identity = "active" <=> VerifiedBy # {}
  /\ \A l \in VerifiedBy : links[l].status = "consumed"
  /\ \A l, k \in VerifiedBy : l = k

(* A session that has ended never authenticates again: neither recorded use
   nor a stale write brings it back. *)
SessionEndIsFinal ==
  [][\A s \in Sessions :
       sessions[s] \in {"revoked", "deleted"} => sessions'[s] # "active"]_vars

(* Every session that was revoked was announced, and only those. *)
RevocationsAnnounced ==
  \A s \in Sessions :
    /\ sessions[s] = "revoked" => Fact("closed", s) \in facts
    /\ Fact("closed", s) \in facts => sessions[s] \in {"revoked", "deleted"}

(* A login exceeds the limit only by the sessions that were opened after it
   had listed them: one that nobody overtakes restores the cap. *)
SessionLimit ==
  [][\A c \in Calls :
       pc[c] = "opening" /\ pc'[c] # "opening" /\ sessions' # sessions =>
         Cardinality(Usable') <= MaxActive + Cardinality(Usable \ list[c])]_vars

-----------------------------------------------------------------------------
(* The inductive invariant behind the state properties.                     *)

Resetting == {"resetList", "resets", "resetting"}

(* A transaction that holds the credential exclusively is alone with it. *)
LocksExclude ==
  \A c, q \in Calls :
    pc[c] = "resetting" /\ q # c => pc[q] \notin {"opening", "resetting"}

(* updated_at tells passwords apart: a call that has seen the stored time has
   seen the stored password, and whoever holds the lock has. *)
SeenCredential(c) ==
  pc[c] \in {"login", "opens", "opening"} \cup Resetting =>
    /\ seen[c].updatedAt <= cred.updatedAt
    /\ seen[c].updatedAt = cred.updatedAt => seen[c] = cred
    /\ pc[c] \in {"opening", "resetting"} => seen[c] = cred
    /\ pc[c] \in Resetting => at[c] > seen[c].updatedAt

(* The link in hand exists and is of the right kind. *)
LinkInHand(c) ==
  /\ pc[c] \in {"verify", "verifying"} =>
       /\ link[c] \in Links /\ links[link[c]].status # "none"
       /\ links[link[c]].purpose = "email_verification"
  /\ pc[c] \in {"reset"} \cup Resetting =>
       /\ link[c] \in Links /\ links[link[c]].status # "none"
       /\ links[link[c]].purpose = "password_reset"
  /\ pc[c] \in Resetting => identity # "none"

(* Only sessions that were once opened are about to be revoked. *)
ListExists(c) == \A s \in list[c] : sessions[s] # "none"

CallOK(c) == SeenCredential(c) /\ LinkInHand(c) /\ ListExists(c)
CallsOK == \A c \in Calls : CallOK(c)

ResetFacts == \A l \in Links : Fact("reset", l) \in facts => l \in ResetLinks

(* No password is set before the identity registers. *)
Unregistered == identity = "none" => cred = NewCredential

RowsInv ==
  /\ Unregistered /\ ResetFacts
  /\ OldPasswordSignedOut /\ LinkSetsOnePassword
  /\ VerifiedOnce /\ RevocationsAnnounced

(* What the rows keep, what each call relies on, and the row lock. *)
IInv == TypeOK /\ LocksExclude /\ CallsOK /\ RowsInv

=============================================================================
