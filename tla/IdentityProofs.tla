---------------------------- MODULE IdentityProofs --------------------------
(***************************************************************************)
(* Proofs about Identity, for any numbers of calls, links and sessions, any *)
(* session limit and any clock readings.                                    *)
(***************************************************************************)
EXTENDS Identity, FiniteSetTheorems, TLAPS

-----------------------------------------------------------------------------
(* What a step may do to the rows.                                         *)

(* Rows do not disappear, a link keeps its purpose, and a session that has
   ended is not active again. *)
KeepsRows ==
  /\ identity # "none" => identity' # "none"
  /\ \A l \in Links : links[l].status # "none" =>
       links'[l].status # "none" /\ links'[l].purpose = links[l].purpose
  /\ \A s \in Sessions :
       /\ sessions[s] # "none" => sessions'[s] # "none"
       /\ sessions[s] \in {"revoked", "deleted"} => sessions'[s] # "active"

(* The credential changes only forward in time and under nobody's lock. *)
KeepsCredential(q) ==
  \/ cred' = cred
  \/ cred'.updatedAt > cred.updatedAt /\ pc[q] \notin {"opening", "resetting"}

(* The step is somebody else's. *)
SameCall(q) ==
  /\ pc'[q] = pc[q] /\ link'[q] = link[q] /\ at'[q] = at[q]
  /\ seen'[q] = seen[q] /\ list'[q] = list[q]

(* The type of what the calls keep. *)
CallTypes ==
  /\ pc \in [Calls -> Stages]
  /\ link \in [Calls -> Links \cup {None}]
  /\ at \in [Calls -> Times]
  /\ seen \in [Calls -> Credentials]
  /\ pending \in SUBSET Calls
  /\ list \in [Calls -> SUBSET Sessions]

(* Clock readings are numbers. *)
LEMMA TimesAreNumbers ==
  /\ Times \subseteq Nat
  /\ \A k \in Credentials : k.updatedAt \in Nat
  BY IdentityAssumption DEF Times, Credentials

(* What is known of a call survives the steps of others. *)
LEMMA CallKept ==
  ASSUME TypeOK, TypeOK', NEW q \in Calls, CallOK(q),
         KeepsRows, KeepsCredential(q), SameCall(q)
  PROVE  CallOK(q)'
  <1>1. /\ seen[q].updatedAt \in Nat /\ cred.updatedAt \in Nat
        /\ cred'.updatedAt \in Nat
    BY TimesAreNumbers DEF TypeOK
  <1>2. SeenCredential(q)'
    BY <1>1 DEF CallOK, SeenCredential, KeepsCredential, SameCall, Resetting
  <1>3. LinkInHand(q)'
    BY DEF CallOK, LinkInHand, KeepsRows, SameCall, Resetting
  <1>4. ListExists(q)'
    BY DEF CallOK, ListExists, KeepsRows, SameCall, TypeOK
  <1> QED
    BY <1>2, <1>3, <1>4 DEF CallOK

(* A step that writes no row keeps what holds of the rows. *)
LEMMA RowsUnchanged ==
  ASSUME UNCHANGED rows
  PROVE  (RowsInv => RowsInv') /\ KeepsRows /\ \A q \in Calls : KeepsCredential(q)
  BY DEF rows, RowsInv, Unregistered, ResetFacts, ResetLinks,
     OldPasswordSignedOut, ActiveSessions, LinkSetsOnePassword, VerifiedOnce,
     VerifiedBy, RevocationsAnnounced, KeepsRows, KeepsCredential

(* A call that takes no lock does not disturb the locks held. *)
LEMMA LocksKept ==
  ASSUME LocksExclude, NEW c \in Calls,
         \A q \in Calls \ {c} : pc'[q] = pc[q],
         pc'[c] = pc[c] \/ pc'[c] \notin {"opening", "resetting"}
  PROVE  LocksExclude'
  BY DEF LocksExclude

-----------------------------------------------------------------------------
(* How a call moves on.                                                    *)

(* What one step owes. *)
StepOK == IInv' /\ KeepsRows

(* A step of one call that writes no row has to account for itself only. *)
LEMMA CallStep ==
  ASSUME IInv, NEW c \in Calls, UNCHANGED rows, TypeOK', LocksExclude',
         \A q \in Calls \ {c} : SameCall(q), CallOK(c)'
  PROVE  StepOK
  <1>1. RowsInv' /\ KeepsRows /\ \A q \in Calls : KeepsCredential(q)
    BY RowsUnchanged DEF IInv
  <1>2. CallsOK'
    BY <1>1, CallKept DEF IInv, CallsOK
  <1> QED
    BY <1>1, <1>2 DEF StepOK, IInv

(* A call that returns holds nothing to be wrong about. *)
LEMMA Returned ==
  ASSUME TypeOK, LocksExclude, NEW c \in Calls, Return(c)
  PROVE  /\ CallTypes' /\ CallOK(c)' /\ LocksExclude'
         /\ \A q \in Calls \ {c} : SameCall(q)
  <1>1. NewCredential \in Credentials /\ 0 \in Times
    BY IdentityAssumption DEF NewCredential, Credentials, Times, Passwords
  <1>2. CallTypes'
    BY <1>1 DEF TypeOK, Return, CallTypes, Stages
  <1>3. pc'[c] = "idle" /\ list'[c] = {}
    BY DEF TypeOK, Return
  <1>4. CallOK(c)'
    BY <1>3 DEF CallOK, SeenCredential, LinkInHand, ListExists, Resetting
  <1>5. \A q \in Calls \ {c} : SameCall(q)
    BY DEF TypeOK, Return, SameCall
  <1>6. LocksExclude'
    BY <1>3, <1>5, LocksKept DEF SameCall
  <1> QED
    BY <1>2, <1>4, <1>5, <1>6

(* A step that ends a call and keeps the rows' invariant. *)
LEMMA CommitStep ==
  ASSUME IInv, NEW c \in Calls, Return(c), TypeOK', RowsInv', KeepsRows,
         \A q \in Calls \ {c} : KeepsCredential(q)
  PROVE  StepOK
  <1>1. /\ CallOK(c)' /\ LocksExclude'
        /\ \A q \in Calls \ {c} : SameCall(q)
    BY Returned DEF IInv
  <1>2. CallsOK'
    BY <1>1, CallKept DEF IInv, CallsOK
  <1> QED
    BY <1>1, <1>2 DEF StepOK, IInv

(* A call may fail at any point. *)
LEMMA CallFailsOK ==
  ASSUME IInv, NEW c \in Calls, CallFails(c)
  PROVE  StepOK
  <1>1. UNCHANGED <<rows, time>> /\ Return(c)
    BY DEF CallFails
  <1>2. TypeOK'
    BY <1>1, Returned DEF IInv, TypeOK, CallTypes, rows, time
  <1> QED
    BY <1>1, <1>2, RowsUnchanged, CommitStep DEF IInv

-----------------------------------------------------------------------------
(* The steps that write no row.                                            *)

LEMMA IssueCheckOK ==
  ASSUME IInv, NEW c \in Calls, NEW purpose \in Purposes, IssueCheck(c, purpose)
  PROVE  StepOK
  <1>1. TypeOK'
    BY DEF IInv, TypeOK, IssueCheck, Goto, Stages, rows, time
  <1>2. pc'[c] = purpose /\ UNCHANGED <<rows, list>>
        /\ \A q \in Calls \ {c} : SameCall(q)
    BY DEF IInv, TypeOK, IssueCheck, Goto, SameCall
  <1>3. LocksExclude'
    BY <1>2, LocksKept DEF IInv, SameCall, Purposes
  <1>4. CallOK(c)'
    BY <1>2 DEF IInv, CallsOK, CallOK, SeenCredential, LinkInHand, ListExists,
       Resetting, Purposes, rows
  <1> QED
    BY <1>1, <1>2, <1>3, <1>4, CallStep

LEMMA VerifyLoadOK ==
  ASSUME IInv, NEW c \in Calls, NEW l \in Links, VerifyLoad(c, l)
  PROVE  StepOK
  <1>1. TypeOK'
    BY DEF IInv, TypeOK, VerifyLoad, Goto, Stages, rows, time
  <1>2. pc'[c] = "verify" /\ link'[c] = l /\ UNCHANGED <<rows, list>>
        /\ \A q \in Calls \ {c} : SameCall(q)
    BY DEF IInv, TypeOK, VerifyLoad, Goto, SameCall
  <1>3. LocksExclude'
    BY <1>2, LocksKept DEF IInv, SameCall
  <1>4. CallOK(c)'
    BY <1>2 DEF IInv, CallsOK, CallOK, SeenCredential, LinkInHand, ListExists,
       Resetting, rows, VerifyLoad, FindChallenge, NewChallenge
  <1> QED
    BY <1>1, <1>2, <1>3, <1>4, CallStep

LEMMA VerifyCheckOK ==
  ASSUME IInv, NEW c \in Calls, VerifyCheck(c)
  PROVE  StepOK
  <1>1. TypeOK'
    BY DEF IInv, TypeOK, VerifyCheck, Goto, Stages, rows, time
  <1>2. pc[c] = "verify" /\ pc'[c] = "verifying" /\ UNCHANGED <<rows, link, list>>
        /\ \A q \in Calls \ {c} : SameCall(q)
    BY DEF IInv, TypeOK, VerifyCheck, Goto, SameCall
  <1>3. LocksExclude'
    BY <1>2, LocksKept DEF IInv, SameCall
  <1>4. CallOK(c)'
    BY <1>2 DEF IInv, CallsOK, CallOK, SeenCredential, LinkInHand, ListExists,
       Resetting, rows
  <1> QED
    BY <1>1, <1>2, <1>3, <1>4, CallStep

(* A login reads the credential ... *)
LEMMA LoginCheckOK ==
  ASSUME IInv, NEW c \in Calls, LoginCheck(c)
  PROVE  StepOK
  <1>1. TypeOK'
    BY DEF IInv, TypeOK, LoginCheck, FindAccount, Goto, Stages, rows, time
  <1>2. pc'[c] = "login" /\ seen'[c] = cred /\ UNCHANGED <<rows, link, list>>
        /\ \A q \in Calls \ {c} : SameCall(q)
    BY DEF IInv, TypeOK, LoginCheck, FindAccount, Goto, SameCall
  <1>3. LocksExclude'
    BY <1>2, LocksKept DEF IInv, SameCall
  <1>4. CallOK(c)'
    BY <1>2, TimesAreNumbers DEF IInv, TypeOK, CallsOK, CallOK, SeenCredential,
       LinkInHand, ListExists, Resetting, rows
  <1> QED
    BY <1>1, <1>2, <1>3, <1>4, CallStep

(* ... then the usable sessions ... *)
LEMMA LoginListOK ==
  ASSUME IInv, NEW c \in Calls, LoginList(c)
  PROVE  StepOK
  <1>0. Usable \in SUBSET Sessions /\ \A s \in Usable : sessions[s] = "active"
    BY DEF Usable, ActiveSessions
  <1>1. TypeOK'
    BY <1>0 DEF IInv, TypeOK, LoginList, Goto, Stages, rows, time
  <1>2. /\ pc[c] = "login" /\ pc'[c] = "opens" /\ list'[c] = Usable
        /\ UNCHANGED <<rows, link, seen>>
        /\ \A q \in Calls \ {c} : SameCall(q)
    BY DEF IInv, TypeOK, LoginList, Goto, SameCall
  <1>3. LocksExclude'
    BY <1>2, LocksKept DEF IInv, SameCall
  <1>4. CallOK(c)'
    BY <1>0, <1>2 DEF IInv, CallsOK, CallOK, SeenCredential,
       LinkInHand, ListExists, Resetting, rows
  <1> QED
    BY <1>1, <1>2, <1>3, <1>4, CallStep

(* ... and locks the credential, which is still the one it has read. *)
LEMMA LoginLockOK ==
  ASSUME IInv, NEW c \in Calls, LoginLock(c)
  PROVE  StepOK
  <1>1. TypeOK'
    BY DEF IInv, TypeOK, LoginLock, Goto, Stages, rows, time
  <1>2. /\ pc[c] = "opens" /\ pc'[c] = "opening"
        /\ UNCHANGED <<rows, link, seen, list>>
        /\ \A q \in Calls \ {c} : SameCall(q)
    BY DEF IInv, TypeOK, LoginLock, Goto, SameCall
  <1>3. LocksExclude'
    BY <1>2 DEF IInv, LocksExclude, LoginLock, SameCall
  <1>4. CallOK(c)'
    BY <1>2 DEF IInv, CallsOK, CallOK, SeenCredential, LoginLock, SameSecret,
       LinkInHand, ListExists, Resetting, rows
  <1> QED
    BY <1>1, <1>2, <1>3, <1>4, CallStep

LEMMA LogoutLoadOK ==
  ASSUME IInv, NEW c \in Calls, NEW s \in Sessions, LogoutLoad(c, s)
  PROVE  StepOK
  <1>1. TypeOK'
    BY DEF IInv, TypeOK, LogoutLoad, Goto, Stages, rows, time
  <1>2. pc'[c] = "logout" /\ list'[c] = {s} /\ UNCHANGED rows
        /\ \A q \in Calls \ {c} : SameCall(q)
    BY DEF IInv, TypeOK, LogoutLoad, Goto, SameCall
  <1>3. LocksExclude'
    BY <1>2, LocksKept DEF IInv, SameCall
  <1>4. CallOK(c)'
    BY <1>2 DEF CallOK, SeenCredential, LinkInHand, ListExists,
       Resetting, rows, LogoutLoad
  <1> QED
    BY <1>1, <1>2, <1>3, <1>4, CallStep

LEMMA UseLoadOK ==
  ASSUME IInv, NEW c \in Calls, NEW s \in Sessions, UseLoad(c, s)
  PROVE  StepOK
  <1>1. TypeOK'
    BY DEF IInv, TypeOK, UseLoad, Goto, Stages, rows, time
  <1>2. pc'[c] = "using" /\ list'[c] = {s} /\ UNCHANGED rows
        /\ \A q \in Calls \ {c} : SameCall(q)
    BY DEF IInv, TypeOK, UseLoad, Goto, SameCall
  <1>3. LocksExclude'
    BY <1>2, LocksKept DEF IInv, SameCall
  <1>4. CallOK(c)'
    BY <1>2 DEF CallOK, SeenCredential, LinkInHand, ListExists,
       Resetting, rows, UseLoad, Usable, ActiveSessions
  <1> QED
    BY <1>1, <1>2, <1>3, <1>4, CallStep

(* Recorded use touches no status. *)
LEMMA UseRecordOK ==
  ASSUME IInv, NEW c \in Calls, UseRecord(c)
  PROVE  StepOK
  <1>1. Return(c) /\ UNCHANGED rows /\ UNCHANGED lapsed /\ idle' = idle \ list[c]
    BY DEF UseRecord
  <1>2. TypeOK'
    BY <1>1, Returned DEF IInv, TypeOK, CallTypes, rows
  <1> QED
    BY <1>1, <1>2, RowsUnchanged, CommitStep DEF IInv

(* A reset reads the clock and the link ... *)
LEMMA ResetLoadOK ==
  ASSUME IInv, NEW c \in Calls, NEW l \in Links, NEW t \in Times,
         ResetLoad(c, l, t)
  PROVE  StepOK
  <1>1. TypeOK'
    BY DEF IInv, TypeOK, ResetLoad, Goto, Stages, rows, time
  <1>2. pc'[c] = "reset" /\ link'[c] = l /\ UNCHANGED <<rows, list>>
        /\ \A q \in Calls \ {c} : SameCall(q)
    BY DEF IInv, TypeOK, ResetLoad, Goto, SameCall
  <1>3. LocksExclude'
    BY <1>2, LocksKept DEF IInv, SameCall
  <1>4. CallOK(c)'
    BY <1>2 DEF IInv, CallsOK, CallOK, SeenCredential, LinkInHand, ListExists,
       Resetting, rows, ResetLoad, FindChallenge, NewChallenge
  <1> QED
    BY <1>1, <1>2, <1>3, <1>4, CallStep

(* ... the account, whose credential is older ... *)
LEMMA ResetAccountOK ==
  ASSUME IInv, NEW c \in Calls, ResetAccount(c)
  PROVE  StepOK
  <1>1. TypeOK'
    BY DEF IInv, TypeOK, ResetAccount, FindAccount, Goto, Stages, rows, time
  <1>2. /\ pc[c] = "reset" /\ pc'[c] = "resetList" /\ seen'[c] = cred
        /\ UNCHANGED <<rows, link, at, list>>
        /\ \A q \in Calls \ {c} : SameCall(q)
    BY DEF IInv, TypeOK, ResetAccount, FindAccount, Goto, SameCall
  <1>3. LocksExclude'
    BY <1>2, LocksKept DEF IInv, SameCall
  <1>4. CallOK(c)'
    BY <1>2, TimesAreNumbers DEF IInv, TypeOK, CallsOK, CallOK, SeenCredential,
       LinkInHand, ListExists, Resetting, rows, ResetAccount, Forward,
       FindAccount
  <1> QED
    BY <1>1, <1>2, <1>3, <1>4, CallStep

(* ... the active sessions ... *)
LEMMA ResetListOK ==
  ASSUME IInv, NEW c \in Calls, ResetList(c)
  PROVE  StepOK
  <1>0. /\ ActiveSessions \in SUBSET Sessions
        /\ \A s \in ActiveSessions : sessions[s] = "active"
    BY DEF ActiveSessions
  <1>1. TypeOK'
    BY <1>0 DEF IInv, TypeOK, ResetList, Goto, Stages, rows, time
  <1>2. /\ pc[c] = "resetList" /\ pc'[c] = "resets" /\ list'[c] = ActiveSessions
        /\ UNCHANGED <<rows, link, at, seen>>
        /\ \A q \in Calls \ {c} : SameCall(q)
    BY DEF IInv, TypeOK, ResetList, Goto, SameCall
  <1>3. LocksExclude'
    BY <1>2, LocksKept DEF IInv, SameCall
  <1>4. CallOK(c)'
    BY <1>0, <1>2 DEF IInv, CallsOK, CallOK, SeenCredential,
       LinkInHand, ListExists, Resetting, rows
  <1> QED
    BY <1>1, <1>2, <1>3, <1>4, CallStep

(* ... and takes the credential's lock when nobody holds it. *)
LEMMA ResetLockOK ==
  ASSUME IInv, NEW c \in Calls, ResetLock(c)
  PROVE  StepOK
  <1>1. TypeOK'
    BY DEF IInv, TypeOK, ResetLock, Goto, Stages, rows, time
  <1>2. /\ pc[c] = "resets" /\ pc'[c] = "resetting"
        /\ UNCHANGED <<rows, link, at, seen, list>>
        /\ \A q \in Calls \ {c} : SameCall(q)
    BY DEF IInv, TypeOK, ResetLock, Goto, SameCall
  <1>3. LocksExclude'
    BY <1>2 DEF IInv, LocksExclude, ResetLock, SameCall
  <1>4. CallOK(c)'
    BY <1>2 DEF IInv, CallsOK, CallOK, SeenCredential, ResetLock, SameSecret,
       LinkInHand, ListExists, Resetting, rows
  <1> QED
    BY <1>1, <1>2, <1>3, <1>4, CallStep

(* Time only marks rows. *)
LEMMA TimePassesOK ==
  ASSUME IInv, UNCHANGED <<rows, callVars>>,
         lapsed' \in SUBSET (Links \cup Sessions), idle' \in SUBSET Sessions
  PROVE  StepOK
  <1>1. TypeOK' /\ LocksExclude'
    BY DEF IInv, TypeOK, LocksExclude, rows, callVars
  <1>2. RowsInv' /\ KeepsRows /\ \A q \in Calls : KeepsCredential(q)
    BY RowsUnchanged DEF IInv
  <1>3. \A q \in Calls : SameCall(q)
    BY DEF SameCall, callVars
  <1>4. CallsOK'
    BY <1>1, <1>2, <1>3, CallKept DEF IInv, CallsOK
  <1> QED
    BY <1>1, <1>2, <1>4 DEF StepOK, IInv

-----------------------------------------------------------------------------
(* The steps that write rows.                                              *)

(* Registration finds no credential but the one it writes. *)
LEMMA RegisterOK ==
  ASSUME IInv, Register
  PROVE  StepOK
  <1>1. /\ identity = "none" /\ identity' = "pending_verification"
        /\ facts' = facts \cup {Fact("registered", None)}
        /\ UNCHANGED <<links, sessions, openedWith, time, callVars>>
    BY DEF Register, RegistrationCommit, EmailFree, Registered
  <1>2. cred' = cred
    BY <1>1 DEF IInv, RowsInv, Unregistered, Register, RegistrationCommit
  <1>3. TypeOK' /\ LocksExclude'
    BY <1>1, <1>2 DEF IInv, TypeOK, LocksExclude, callVars, time, Fact, FactKinds
  <1>4. KeepsRows /\ \A q \in Calls : KeepsCredential(q) /\ SameCall(q)
    BY <1>1, <1>2 DEF KeepsRows, KeepsCredential, SameCall, callVars
  <1>5. CallsOK'
    BY <1>3, <1>4, CallKept DEF IInv, CallsOK
  <1>6. Unregistered' /\ OldPasswordSignedOut'
    BY <1>1, <1>2
       DEF IInv, RowsInv, Unregistered, OldPasswordSignedOut, ActiveSessions
  <1>7. ResetFacts' /\ LinkSetsOnePassword' /\ RevocationsAnnounced'
    BY <1>1, <1>2 DEF IInv, RowsInv, ResetFacts, LinkSetsOnePassword,
       ResetLinks, RevocationsAnnounced, Fact
  <1>8. VerifiedOnce'
    BY <1>1 DEF IInv, RowsInv, VerifiedOnce, VerifiedBy, Fact
  <1> QED
    BY <1>3, <1>4, <1>5, <1>6, <1>7, <1>8 DEF StepOK, IInv, RowsInv

(* A new link has an id that no fact, password or call names yet. *)
LEMMA IssueCommitOK ==
  ASSUME IInv, NEW c \in Calls, IssueCommit(c)
  PROVE  StepOK
  <1>1. PICK l \in Links :
          /\ links[l].status = "none"
          /\ links' = [links EXCEPT ![l] = NewChallenge(pc[c])]
          /\ facts' = facts \cup {Fact("issued", l)}
    BY DEF IssueCommit, InsertChallenge
  <1>2. /\ pc[c] \in Purposes /\ Return(c)
        /\ UNCHANGED <<identity, cred, sessions, openedWith, time>>
    BY DEF IssueCommit
  <1>3. /\ links' \in [Links -> Challenges]
        /\ links'[l].status = "issued"
        /\ \A k \in Links \ {l} : links'[k] = links[k]
    BY <1>1, <1>2 DEF IInv, TypeOK, NewChallenge, Challenges
  <1>4. TypeOK'
    BY <1>1, <1>2, <1>3, Returned
       DEF IInv, TypeOK, CallTypes, Fact, FactKinds, time
  <1>5. KeepsRows /\ \A q \in Calls : KeepsCredential(q)
    BY <1>1, <1>2, <1>3 DEF KeepsRows, KeepsCredential
  <1>6. Unregistered' /\ OldPasswordSignedOut'
    BY <1>2
       DEF IInv, RowsInv, Unregistered, OldPasswordSignedOut, ActiveSessions
  <1>7. Fact("reset", l) \notin facts
    BY <1>1 DEF IInv, RowsInv, ResetFacts, LinkSetsOnePassword
  <1>8. ResetFacts'
    BY <1>1, <1>3, <1>7 DEF IInv, RowsInv, ResetFacts, ResetLinks, Fact
  <1>9. LinkSetsOnePassword'
    BY <1>1, <1>2, <1>3, <1>7 DEF IInv, RowsInv, LinkSetsOnePassword,
       ResetLinks, Fact
  <1>10. VerifiedOnce'
    BY <1>1, <1>2, <1>3 DEF IInv, RowsInv, VerifiedOnce, VerifiedBy, Fact
  <1>11. RevocationsAnnounced'
    BY <1>1, <1>2 DEF IInv, RowsInv, RevocationsAnnounced, Fact
  <1> QED
    BY <1>2, <1>4, <1>5, <1>6, <1>8, <1>9, <1>10, <1>11, CommitStep
       DEF RowsInv

(* What consuming the link in hand does to the links. *)
LEMMA ConsumedLink ==
  ASSUME TypeOK, NEW l \in Links, links' = Consumed(l)
  PROVE  /\ links' \in [Links -> Challenges]
         /\ links'[l].status = "consumed"
         /\ links'[l].purpose = links[l].purpose
         /\ \A k \in Links \ {l} : links'[k] = links[k]
  BY DEF TypeOK, Consumed, Challenges

(* The first link to verify the identity finds no other that has. *)
LEMMA VerifyCommitOK ==
  ASSUME IInv, NEW c \in Calls, VerifyCommit(c)
  PROVE  StepOK
  <1> DEFINE l == link[c]
  <1>1. /\ l \in Links /\ links[l].status = "issued"
        /\ links[l].purpose = "email_verification"
    BY DEF IInv, CallsOK, CallOK, LinkInHand, VerifyCommit, LinkUnspent, Issued
  <1>2. /\ identity = "pending_verification" /\ identity' = "active"
        /\ links' = Consumed(l)
        /\ facts' = facts \cup {Fact("verified", l)}
        /\ Return(c) /\ UNCHANGED <<cred, sessions, openedWith, time>>
    BY DEF VerifyCommit, StillPending, Verified
  <1> HIDE DEF l
  <1>3. /\ links' \in [Links -> Challenges]
        /\ links'[l].status = "consumed"
        /\ links'[l].purpose = "email_verification"
        /\ \A k \in Links \ {l} : links'[k] = links[k]
    BY <1>1, <1>2, ConsumedLink DEF IInv
  <1>4. TypeOK'
    BY <1>1, <1>2, <1>3, Returned
       DEF IInv, TypeOK, CallTypes, Fact, FactKinds, time
  <1>5. KeepsRows /\ \A q \in Calls : KeepsCredential(q)
    BY <1>1, <1>2, <1>3 DEF KeepsRows, KeepsCredential
  <1>6. Unregistered' /\ OldPasswordSignedOut'
    BY <1>2
       DEF IInv, RowsInv, Unregistered, OldPasswordSignedOut, ActiveSessions
  <1>7. ResetFacts' /\ LinkSetsOnePassword'
    BY <1>1, <1>2, <1>3 DEF IInv, RowsInv, ResetFacts, LinkSetsOnePassword,
       ResetLinks, Fact
  <1>8. VerifiedOnce'
    BY <1>1, <1>2, <1>3 DEF IInv, RowsInv, VerifiedOnce, VerifiedBy, Fact
  <1>9. RevocationsAnnounced'
    BY <1>2 DEF IInv, RowsInv, RevocationsAnnounced, Fact
  <1> QED
    BY <1>2, <1>4, <1>5, <1>6, <1>7, <1>8, <1>9, CommitStep DEF RowsInv

(* Under its lock a login opens a session with the current password. *)
LEMMA LoginCommitOK ==
  ASSUME IInv, NEW c \in Calls, LoginCommit(c)
  PROVE  StepOK
  <1>1. PICK s \in Sessions, evicted \in Evictions(list[c]) :
          /\ sessions[s] = "none" /\ Revocable(evicted)
          /\ sessions' = [Without(evicted) EXCEPT ![s] = "active"]
          /\ openedWith' = [openedWith EXCEPT ![s] = seen[c].password]
          /\ facts' = facts \cup Revoked(evicted) \cup {Fact("opened", s)}
    BY DEF LoginCommit
  <1>2. Return(c) /\ UNCHANGED <<identity, cred, links, time>>
    BY DEF LoginCommit
  <1>3. seen[c] = cred
    BY DEF IInv, CallsOK, CallOK, SeenCredential, LoginCommit
  <1>4. /\ evicted \in SUBSET Sessions
        /\ \A x \in evicted : sessions[x] = "active" /\ x # s
    BY <1>1 DEF IInv, TypeOK, Evictions, Revocable
  <1>5. /\ sessions' \in [Sessions -> {"none", "active", "revoked", "deleted"}]
        /\ sessions'[s] = "active"
        /\ \A x \in evicted : sessions'[x] = "revoked"
        /\ \A x \in Sessions \ (evicted \cup {s}) : sessions'[x] = sessions[x]
    BY <1>1, <1>4 DEF IInv, TypeOK, Without
  <1>6. /\ openedWith' \in [Sessions -> Passwords]
        /\ openedWith'[s] = cred.password
        /\ \A x \in Sessions \ {s} : openedWith'[x] = openedWith[x]
    BY <1>1, <1>3 DEF IInv, TypeOK, Credentials
  <1>7. \A x \in Sessions : Fact("closed", x) \in facts' <=>
          Fact("closed", x) \in facts \/ x \in evicted
    BY <1>1, <1>4 DEF Revoked, Fact
  <1>8. \A x \in Links : /\ Fact("reset", x) \in facts' <=> Fact("reset", x) \in facts
                         /\ Fact("verified", x) \in facts' <=>
                              Fact("verified", x) \in facts
    BY <1>1 DEF Revoked, Fact
  <1>9. TypeOK'
    <2>1. facts' \in SUBSET [kind : FactKinds, id : Links \cup Sessions \cup {None}]
      BY <1>1, <1>4 DEF IInv, TypeOK, Revoked, Fact, FactKinds
    <2> QED
      BY <1>2, <1>5, <1>6, <2>1, Returned DEF IInv, TypeOK, CallTypes, time
  <1>10. KeepsRows /\ \A q \in Calls : KeepsCredential(q)
    BY <1>1, <1>2, <1>4, <1>5 DEF KeepsRows, KeepsCredential
  <1>11. Unregistered'
    BY <1>2 DEF IInv, RowsInv, Unregistered
  <1>12. OldPasswordSignedOut'
    BY <1>2, <1>5, <1>6 DEF IInv, RowsInv, OldPasswordSignedOut, ActiveSessions
  <1>13. ResetFacts' /\ LinkSetsOnePassword'
    BY <1>2, <1>8 DEF IInv, RowsInv, ResetFacts, LinkSetsOnePassword, ResetLinks
  <1>14. VerifiedOnce'
    BY <1>2, <1>8 DEF IInv, RowsInv, VerifiedOnce, VerifiedBy
  <1>15. RevocationsAnnounced'
    BY <1>1, <1>4, <1>5, <1>7 DEF IInv, RowsInv, RevocationsAnnounced
  <1> QED
    BY <1>2, <1>9, <1>10, <1>11, <1>12, <1>13, <1>14, <1>15, CommitStep
       DEF RowsInv

(* Revoking a set of active sessions, as a logout and a reset do. *)
LEMMA RevokedSessions ==
  ASSUME TypeOK, RevocationsAnnounced, NEW ss \in SUBSET Sessions,
         Revocable(ss), sessions' = Without(ss),
         \A x \in Sessions : Fact("closed", x) \in facts' <=>
           Fact("closed", x) \in facts \/ x \in ss
  PROVE  /\ sessions' \in [Sessions -> {"none", "active", "revoked", "deleted"}]
         /\ \A s \in ss : sessions[s] = "active" /\ sessions'[s] = "revoked"
         /\ \A s \in Sessions \ ss : sessions'[s] = sessions[s]
         /\ RevocationsAnnounced'
  <1>1. /\ sessions' \in [Sessions -> {"none", "active", "revoked", "deleted"}]
        /\ \A s \in ss : sessions[s] = "active" /\ sessions'[s] = "revoked"
        /\ \A s \in Sessions \ ss : sessions'[s] = sessions[s]
    BY DEF TypeOK, Revocable, Without
  <1> QED
    BY <1>1 DEF RevocationsAnnounced

LEMMA LogoutCommitOK ==
  ASSUME IInv, NEW c \in Calls, LogoutCommit(c)
  PROVE  StepOK
  <1> DEFINE ss == list[c]
  <1>1. /\ Revocable(ss) /\ sessions' = Without(ss)
        /\ facts' = facts \cup Revoked(ss)
        /\ Return(c) /\ UNCHANGED <<identity, cred, links, openedWith, time>>
    BY DEF LogoutCommit
  <1>2. ss \in SUBSET Sessions
    BY DEF IInv, TypeOK
  <1> HIDE DEF ss
  <1>3. \A x \in Sessions : Fact("closed", x) \in facts' <=>
          Fact("closed", x) \in facts \/ x \in ss
    BY <1>1 DEF Revoked, Fact
  <1>4. /\ sessions' \in [Sessions -> {"none", "active", "revoked", "deleted"}]
        /\ \A s \in ss : sessions[s] = "active" /\ sessions'[s] = "revoked"
        /\ \A s \in Sessions \ ss : sessions'[s] = sessions[s]
        /\ RevocationsAnnounced'
    BY <1>1, <1>2, <1>3, RevokedSessions DEF IInv, RowsInv
  <1>5. \A x \in Links : /\ Fact("reset", x) \in facts' <=> Fact("reset", x) \in facts
                         /\ Fact("verified", x) \in facts' <=>
                              Fact("verified", x) \in facts
    BY <1>1 DEF Revoked, Fact
  <1>6. TypeOK'
    <2>1. facts' \in SUBSET [kind : FactKinds, id : Links \cup Sessions \cup {None}]
      BY <1>1, <1>2 DEF IInv, TypeOK, Revoked, Fact, FactKinds
    <2> QED
      BY <1>1, <1>4, <2>1, Returned DEF IInv, TypeOK, CallTypes, time
  <1>7. KeepsRows /\ \A q \in Calls : KeepsCredential(q)
    BY <1>1, <1>4 DEF KeepsRows, KeepsCredential
  <1>8. Unregistered'
    BY <1>1 DEF IInv, RowsInv, Unregistered
  <1>9. OldPasswordSignedOut'
    BY <1>1, <1>4 DEF IInv, RowsInv, OldPasswordSignedOut, ActiveSessions
  <1>10. ResetFacts' /\ LinkSetsOnePassword'
    BY <1>1, <1>5 DEF IInv, RowsInv, ResetFacts, LinkSetsOnePassword, ResetLinks
  <1>11. VerifiedOnce'
    BY <1>1, <1>5 DEF IInv, RowsInv, VerifiedOnce, VerifiedBy
  <1> QED
    BY <1>1, <1>4, <1>6, <1>7, <1>8, <1>9, <1>10, <1>11, CommitStep
       DEF RowsInv

(* Under its lock a reset consumes its link, replaces the password by a later
   one and leaves no session active. *)
LEMMA ResetCommitOK ==
  ASSUME IInv, NEW c \in Calls, ResetCommit(c)
  PROVE  StepOK
  <1> DEFINE ss == list[c]
             l == link[c]
  <1>1. /\ l \in Links /\ links[l].status = "issued"
        /\ links[l].purpose = "password_reset" /\ identity # "none"
    BY DEF IInv, CallsOK, CallOK, LinkInHand, ResetCommit, LinkUnspent, Issued,
       Resetting
  <1>2. /\ pc[c] = "resetting"
        /\ c \in pending => identity = "pending_verification"
        /\ Revocable(ss) /\ ActiveSessions \subseteq ss
    BY DEF ResetCommit, StillPending, NoSurvivors
  <1>3. /\ cred' = [updatedAt |-> at[c], password |-> l]
        /\ links' = Consumed(l) /\ sessions' = Without(ss)
        /\ identity' = IF c \in pending THEN "active" ELSE identity
        /\ facts' = facts \cup Revoked(ss) \cup {Fact("reset", l)}
             \cup (IF c \in pending THEN {Fact("verified", l)} ELSE {})
        /\ Return(c) /\ UNCHANGED <<openedWith, time>>
    BY DEF ResetCommit, Verified
  <1>4. /\ ss \in SUBSET Sessions /\ at[c] \in Times /\ at[c] > cred.updatedAt
        /\ cred.updatedAt \in Nat /\ at[c] \in Nat
    BY <1>2, TimesAreNumbers
       DEF IInv, TypeOK, CallsOK, CallOK, SeenCredential, Resetting
  <1> HIDE DEF ss, l
  <1>5. \A x \in Sessions : Fact("closed", x) \in facts' <=>
          Fact("closed", x) \in facts \/ x \in ss
    BY <1>3 DEF Revoked, Fact
  <1>6. \A x \in Links : /\ Fact("reset", x) \in facts' <=>
                              Fact("reset", x) \in facts \/ x = l
                         /\ Fact("verified", x) \in facts' <=>
                              Fact("verified", x) \in facts \/ (x = l /\ c \in pending)
    BY <1>3 DEF Revoked, Fact
  <1>7. /\ sessions' \in [Sessions -> {"none", "active", "revoked", "deleted"}]
        /\ \A s \in ss : sessions[s] = "active" /\ sessions'[s] = "revoked"
        /\ \A s \in Sessions \ ss : sessions'[s] = sessions[s]
        /\ RevocationsAnnounced'
    BY <1>2, <1>3, <1>4, <1>5, RevokedSessions DEF IInv, RowsInv
  <1>8. /\ links' \in [Links -> Challenges]
        /\ links'[l].status = "consumed"
        /\ links'[l].purpose = "password_reset"
        /\ \A k \in Links \ {l} : links'[k] = links[k]
    BY <1>1, <1>3, ConsumedLink DEF IInv
  <1>9. TypeOK'
    <2>1. facts' \in SUBSET [kind : FactKinds, id : Links \cup Sessions \cup {None}]
      BY <1>1, <1>3, <1>4 DEF IInv, TypeOK, Revoked, Fact, FactKinds
    <2>2. cred' \in Credentials
      BY <1>1, <1>3, <1>4 DEF Credentials, Passwords
    <2> QED
      BY <1>3, <1>7, <1>8, <2>1, <2>2, Returned DEF IInv, TypeOK, CallTypes, time
  <1>10. KeepsRows
    BY <1>1, <1>3, <1>7, <1>8 DEF KeepsRows
  <1>11. \A q \in Calls \ {c} : KeepsCredential(q)
    BY <1>2, <1>3, <1>4 DEF KeepsCredential, IInv, LocksExclude
  <1>12. Unregistered'
    BY <1>1, <1>3 DEF Unregistered
  <1>13. OldPasswordSignedOut'
    BY <1>2, <1>7 DEF OldPasswordSignedOut, ActiveSessions
  <1>14. ResetFacts' /\ LinkSetsOnePassword'
    BY <1>1, <1>3, <1>6, <1>8
       DEF IInv, RowsInv, ResetFacts, LinkSetsOnePassword, ResetLinks
  <1>15. VerifiedOnce'
    BY <1>1, <1>2, <1>3, <1>6, <1>8 DEF IInv, RowsInv, VerifiedOnce, VerifiedBy
  <1> QED
    BY <1>3, <1>7, <1>9, <1>10, <1>11, <1>12, <1>13, <1>14, <1>15, CommitStep
       DEF RowsInv

(* Pruning deletes what has ended. *)
LEMMA PruneOK ==
  ASSUME IInv, NEW s \in Sessions, Prune(s)
  PROVE  StepOK
  <1>1. /\ sessions[s] \in {"active", "revoked"}
        /\ sessions' = [sessions EXCEPT ![s] = "deleted"]
        /\ UNCHANGED <<identity, cred, links, openedWith, facts, time, callVars>>
    BY DEF Prune, Ended
  <1>2. /\ sessions' \in [Sessions -> {"none", "active", "revoked", "deleted"}]
        /\ sessions'[s] = "deleted"
        /\ \A x \in Sessions \ {s} : sessions'[x] = sessions[x]
    BY <1>1 DEF IInv, TypeOK
  <1>3. TypeOK' /\ LocksExclude'
    BY <1>1, <1>2 DEF IInv, TypeOK, LocksExclude, time, callVars
  <1>4. KeepsRows /\ \A q \in Calls : KeepsCredential(q) /\ SameCall(q)
    BY <1>1, <1>2 DEF KeepsRows, KeepsCredential, SameCall, callVars
  <1>5. CallsOK'
    BY <1>3, <1>4, CallKept DEF IInv, CallsOK
  <1>6. Unregistered' /\ OldPasswordSignedOut'
    BY <1>1, <1>2
       DEF IInv, RowsInv, Unregistered, OldPasswordSignedOut, ActiveSessions
  <1>7. ResetFacts' /\ LinkSetsOnePassword' /\ VerifiedOnce'
    BY <1>1 DEF IInv, RowsInv, ResetFacts, LinkSetsOnePassword,
       ResetLinks, VerifiedOnce, VerifiedBy
  <1>8. RevocationsAnnounced'
    BY <1>1, <1>2 DEF IInv, RowsInv, RevocationsAnnounced
  <1> QED
    BY <1>3, <1>4, <1>5, <1>6, <1>7, <1>8 DEF StepOK, IInv, RowsInv

-----------------------------------------------------------------------------
(* The theorems.                                                           *)

(* Initially there is no row but the placeholders of the types. *)
LEMMA InitOK == Init => IInv
  <1> SUFFICES ASSUME Init PROVE IInv
    OBVIOUS
  <1>1. NewCredential \in Credentials /\ 0 \in Times
    BY IdentityAssumption DEF NewCredential, Credentials, Times, Passwords
  <1>2. TypeOK
    BY <1>1 DEF Init, TypeOK, Challenges, Purposes, Passwords, Stages
  <1>3. LocksExclude /\ CallsOK
    BY DEF Init, LocksExclude, CallsOK, CallOK, SeenCredential, LinkInHand,
       ListExists, Resetting
  <1>4. RowsInv
    BY DEF Init, RowsInv, Unregistered, ResetFacts, ResetLinks,
       OldPasswordSignedOut, ActiveSessions, LinkSetsOnePassword, VerifiedOnce,
       VerifiedBy, RevocationsAnnounced, NewCredential
  <1> QED
    BY <1>2, <1>3, <1>4 DEF IInv

(* Every step keeps the invariant and the rows. *)
LEMMA StepKeeps == IInv /\ [Next]_vars => StepOK
  <1> SUFFICES ASSUME IInv, [Next]_vars PROVE StepOK
    OBVIOUS
  <1>1. CASE Register
    BY <1>1, RegisterOK
  <1>2. ASSUME NEW c \in Calls, Step(c) PROVE StepOK
    BY <1>2, IssueCheckOK, IssueCommitOK, VerifyLoadOK, VerifyCheckOK,
       VerifyCommitOK, LoginCheckOK, LoginListOK, LoginLockOK, LoginCommitOK,
       LogoutLoadOK, LogoutCommitOK, UseLoadOK, UseRecordOK, ResetLoadOK,
       ResetAccountOK, ResetListOK, ResetLockOK, ResetCommitOK, CallFailsOK
       DEF Step
  <1>3. ASSUME NEW l \in Links, LinkLapses(l) PROVE StepOK
    BY <1>3, TimePassesOK DEF LinkLapses, IInv, TypeOK
  <1>4. ASSUME NEW s \in Sessions, SessionLapses(s) \/ SessionIdles(s)
        PROVE  StepOK
    BY <1>4, TimePassesOK DEF SessionLapses, SessionIdles, IInv, TypeOK
  <1>5. CASE SessionPruning
    BY <1>5, PruneOK DEF SessionPruning
  <1>6. CASE UNCHANGED vars
    BY <1>6, TimePassesOK DEF vars, time, IInv, TypeOK
  <1> QED
    BY <1>1, <1>2, <1>3, <1>4, <1>5, <1>6 DEF Next

(* The rows, the facts, the lock on the credential and the calls under way
   agree, however registrations, verifications, logins and resets interleave
   and whatever their clocks say. *)
THEOREM IdentityInvariant == Spec => []IInv
  <1>1. IInv /\ [Next]_vars => IInv'
    BY StepKeeps DEF StepOK
  <1> QED
    BY InitOK, <1>1, PTL DEF Spec

(* Type correctness. *)
THEOREM IdentityTypes == Spec => []TypeOK
  <1>1. IInv => TypeOK
    BY DEF IInv
  <1> QED
    BY <1>1, IdentityInvariant, PTL

(* No session that was opened with an old password is active. *)
THEOREM ResetSignsOut == Spec => []OldPasswordSignedOut
  <1>1. IInv => OldPasswordSignedOut
    BY DEF IInv, RowsInv
  <1> QED
    BY <1>1, IdentityInvariant, PTL

(* A revoked or deleted session is never active again. *)
THEOREM SessionEnds == Spec => SessionEndIsFinal
  <1> DEFINE A == \A s \in Sessions :
                    sessions[s] \in {"revoked", "deleted"} => sessions'[s] # "active"
  <1>1. IInv /\ [Next]_vars => [A]_vars
    BY StepKeeps DEF StepOK, KeepsRows
  <1> QED
    BY <1>1, IdentityInvariant, PTL DEF Spec, SessionEndIsFinal

-----------------------------------------------------------------------------
(* The session limit.                                                      *)

(* An eviction leaves fewer of the listed sessions than the limit. *)
LEMMA EvictionLeavesRoom ==
  ASSUME NEW usable \in SUBSET Sessions, NEW evicted \in Evictions(usable)
  PROVE  \E keep \in SUBSET usable :
           /\ evicted = usable \ keep
           /\ IsFiniteSet(keep) /\ Cardinality(keep) <= MaxActive - 1
  <1>1. IsFiniteSet(usable) /\ Cardinality(usable) \in Nat
    BY IdentityAssumption, FS_Subset, FS_CardinalityType
  <1>2. PICK keep \in SUBSET usable :
          /\ evicted = usable \ keep
          /\ Cardinality(keep) = IF Cardinality(usable) < MaxActive
                                 THEN Cardinality(usable) ELSE MaxActive - 1
    BY DEF Evictions
  <1>3. IsFiniteSet(keep)
    BY <1>1, FS_Subset
  <1> QED
    BY <1>1, <1>2, <1>3, IdentityAssumption

(* A login that opens a session restores the limit over the sessions it had
   listed: what is usable afterwards is the new session, the listed ones that
   it kept, and those opened since. *)
LEMMA LoginRestoresLimit ==
  ASSUME IInv, NEW c \in Calls, LoginCommit(c)
  PROVE  Cardinality(Usable') <= MaxActive + Cardinality(Usable \ list[c])
  <1>1. PICK s \in Sessions, evicted \in Evictions(list[c]) :
          sessions' = [Without(evicted) EXCEPT ![s] = "active"]
    BY DEF LoginCommit
  <1>2. list[c] \in SUBSET Sessions
    BY DEF IInv, TypeOK
  <1>3. PICK keep \in SUBSET list[c] :
          /\ evicted = list[c] \ keep
          /\ IsFiniteSet(keep) /\ Cardinality(keep) <= MaxActive - 1
    BY <1>2, EvictionLeavesRoom
  <1> DEFINE late == Usable \ list[c]
             most == (late \cup keep) \cup {s}
  <1>4. Usable' \subseteq most
    <2>1. UNCHANGED <<lapsed, idle>>
      BY DEF LoginCommit, time
    <2>2. \A x \in Sessions : sessions'[x] = "active" /\ x # s =>
            sessions[x] = "active" /\ x \notin evicted
      BY <1>1 DEF Without
    <2> QED
      BY <1>3, <2>1, <2>2 DEF Usable, ActiveSessions
  <1>5. IsFiniteSet(late) /\ Cardinality(late) \in Nat
    BY IdentityAssumption, FS_Subset, FS_CardinalityType DEF Usable, ActiveSessions
  <1> HIDE DEF late
  <1>6. /\ IsFiniteSet(late \cup keep)
        /\ Cardinality(late \cup keep) <= Cardinality(late) + Cardinality(keep)
    <2>1. IsFiniteSet(late \cap keep)
      BY <1>3, FS_Subset
    <2>2. Cardinality(late \cap keep) \in Nat /\ Cardinality(keep) \in Nat
      BY <1>3, <2>1, FS_CardinalityType
    <2>3. /\ IsFiniteSet(late \cup keep)
          /\ Cardinality(late \cup keep) =
               Cardinality(late) + Cardinality(keep) - Cardinality(late \cap keep)
      BY <1>3, <1>5, FS_Union, Zenon
    <2> QED
      BY <1>5, <2>2, <2>3
  <1>7. /\ IsFiniteSet(most)
        /\ Cardinality(most) <= Cardinality(late \cup keep) + 1
    <2>1. Cardinality(late \cup keep) \in Nat
      BY <1>6, FS_CardinalityType
    <2>2. /\ IsFiniteSet(most)
          /\ Cardinality(most) =
               IF s \in late \cup keep THEN Cardinality(late \cup keep)
                                      ELSE Cardinality(late \cup keep) + 1
      BY <1>6, FS_AddElement, Zenon
    <2> QED
      BY <2>1, <2>2
  <1> HIDE DEF most
  <1>8. Cardinality(Usable') <= Cardinality(most)
    BY <1>4, <1>7, FS_Subset
  <1>9. /\ Cardinality(Usable') \in Nat /\ Cardinality(most) \in Nat
        /\ Cardinality(keep) \in Nat /\ Cardinality(late \cup keep) \in Nat
    BY <1>3, <1>4, <1>6, <1>7, FS_Subset, FS_CardinalityType
  <1> QED
    BY <1>3, <1>5, <1>6, <1>7, <1>8, <1>9, IdentityAssumption DEF late

(* A login exceeds the session limit by no more sessions than were opened
   after it had listed them. *)
THEOREM LoginKeepsLimit == Spec => SessionLimit
  <1> DEFINE A == \A c \in Calls :
       pc[c] = "opening" /\ pc'[c] # "opening" /\ sessions' # sessions =>
         Cardinality(Usable') <= MaxActive + Cardinality(Usable \ list[c])
  <1>1. IInv /\ [Next]_vars => [A]_vars
    <2> SUFFICES ASSUME IInv, Next, NEW c \in Calls,
                        pc[c] = "opening", pc'[c] # "opening", sessions' # sessions
                 PROVE  Cardinality(Usable') <= MaxActive + Cardinality(Usable \ list[c])
      OBVIOUS
    <2>1. pc' # pc
      OBVIOUS
    <2>2. PICK q \in Calls : Step(q)
      BY <2>1 DEF Next, Register, RegistrationCommit, LinkLapses, SessionLapses,
         SessionIdles, SessionPruning, Prune, callVars
    <2>3. q = c
      <3>1. \A z \in Calls \ {q} : pc'[z] = pc[z]
        BY <2>2 DEF IInv, TypeOK, Step, IssueCheck, IssueCommit, VerifyLoad,
           VerifyCheck, VerifyCommit, LoginCheck, LoginList, LoginLock,
           LoginCommit, LogoutLoad, LogoutCommit, UseLoad, UseRecord, ResetLoad,
           ResetAccount, ResetList, ResetLock, ResetCommit, CallFails, Return,
           Goto
      <3> QED
        BY <3>1
    <2>4. LoginCommit(c)
      BY <2>2, <2>3 DEF Step, IssueCheck, IssueCommit, VerifyLoad,
         VerifyCheck, VerifyCommit, LoginCheck, LoginList, LoginLock,
         LogoutLoad, LogoutCommit, UseLoad, UseRecord, ResetLoad,
         ResetAccount, ResetList, ResetLock, ResetCommit, CallFails, rows,
         Purposes
    <2> QED
      BY <2>4, LoginRestoresLimit
  <1> QED
    BY <1>1, IdentityInvariant, PTL DEF Spec, SessionLimit

=============================================================================
