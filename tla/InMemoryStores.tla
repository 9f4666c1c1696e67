--------------------------- MODULE InMemoryStores ---------------------------
(***************************************************************************)
(* The in-memory adapters of a process that runs without PostgreSQL: maps  *)
(* of rows, and writers that check and apply a change in one turn of the   *)
(* event loop, then publish its events and, when a publish fails, put back *)
(* what they found.  Calls interleave at every await, so others see a      *)
(* change that is still being sent, build on it and may be overwritten     *)
(* when it is undone.  Publishes fail through the fault injector's bus.    *)
(*                                                                         *)
(* A command reads each row in an access of its own; the writers compare   *)
(* the version of every row they replace, so the reads are one step here.  *)
(* A credential has no version: its updatedAt, which a change moves        *)
(* strictly forward, stands in for it.                                     *)
(***************************************************************************)
EXTENDS Naturals, FiniteSets

CONSTANTS
  Calls,       \* command executions; a row created by a call has its id
  Seed,        \* the id of the rows that exist at first
  Absent,      \* no row
  MaxActive,   \* SessionPolicy.maxActivePerIdentity
  MaxFaults    \* bound on how often a fault is armed

Statuses == {"active", "archived", "open", "no subject", "closed", "owner", "pending",
             "accepted", "revoked", "unverified", "verification", "reset", "consumed"}
Rows == [version : Nat, status : Statuses, trail : SUBSET Calls]

ASSUME StoresAssumption ==
  /\ Seed \notin Calls /\ IsFiniteSet(Calls)
  /\ Absent \notin Rows
  /\ MaxActive \in Nat \ {0}
  /\ MaxFaults \in Nat

VARIABLES
  rows,        \* the stored rows, by table and id
  pc,          \* where each call is
  op,          \* the command it executes
  loaded,      \* the rows it has read and means to replace
  undo,        \* the rows it has replaced, as it found them
  left,        \* events it has still to publish
  sent,        \* events accepted, as pairs of a call and a number
  pruned,      \* sessions the pruner has deleted
  armed,       \* faults left at each point of the bus
  armings      \* how often a fault was armed

calls == <<pc, op, loaded, undo, left>>
faults == <<armed, armings>>
storesVars == <<rows, calls, sent, pruned, faults>>

Tables == {"documents", "jobs", "organizations", "memberships", "invitations",
           "identities", "credentials", "challenges", "sessions"}
Ids == Calls \cup {Seed}
RowKeys == Tables \X Ids
Points == {"event.publish.before", "event.publish.after"}

(* saved(): a new row, and the next version of a loaded one.  The trail is
   the calls whose changes the row contains. *)
New(status, c) == [version |-> 1, status |-> status, trail |-> {c}]
Saved(row, status, c) ==
  [version |-> row.version + 1, status |-> status, trail |-> row.trail \cup {c}]

Present == DOMAIN rows
In(table, status) == {k \in Present : k[1] = table /\ rows[k].status = status}
Table(table) == {k \in Present : k[1] = table}
Row(table) == <<table, Seed>>

SeedRow(status) == [version |-> 1, status |-> status, trail |-> {}]

(* A document, an open job, an invitation, and an identity with its
   credential and a reset link; a verified one has a session. *)
SeedTables(verified) ==
  {"documents", "jobs", "invitations", "credentials", "challenges", "identities"}
    \cup (IF verified THEN {"sessions"} ELSE {})

SeedStatus(table, verified) ==
  CASE table = "jobs" -> "open"
    [] table = "invitations" -> "pending"
    [] table = "challenges" -> "reset"
    [] table = "identities" /\ ~verified -> "pending"
    [] OTHER -> "active"

StoresInit ==
  /\ \E verified \in BOOLEAN :
       rows = [k \in {Row(t) : t \in SeedTables(verified)} |->
                 SeedRow(SeedStatus(k[1], verified))]
  /\ pc = [c \in Calls |-> "idle"]
  /\ op = [c \in Calls |-> "none"]
  /\ loaded = [c \in Calls |-> <<>>]
  /\ undo = [c \in Calls |-> <<>>]
  /\ left = [c \in Calls |-> 0]
  /\ sent = {} /\ pruned = {}
  /\ armed = [p \in Points |-> 0]
  /\ armings = 0

-----------------------------------------------------------------------------
(* A command reads the rows it decides on.                                 *)

Read(c, command, keys) ==
  /\ pc[c] = "idle"
  /\ pc' = [pc EXCEPT ![c] = "decided"]
  /\ op' = [op EXCEPT ![c] = command]
  /\ loaded' = [loaded EXCEPT ![c] = [k \in keys |-> rows[k]]]
  /\ UNCHANGED <<rows, undo, left, sent, pruned, faults>>

(* The commands that only create. *)
Creations == {"create document", "submit job", "create organization",
              "add membership", "invite"}

Create(c) == \E command \in Creations : Read(c, command, {})

(* A job without a subject. *)
SubmitJob(c) == Read(c, "submit plain job", {})

(* SignUp registers; the link it then issues is a call of its own. *)
Register(c) == Read(c, "register", {})

(* The commands that take one row out of the status they require. *)
ArchiveDocument(c) == \E k \in In("documents", "active") : Read(c, "archive", {k})

CloseJob(c) == \E k \in In("jobs", "open") : Read(c, "close", {k})

RevokeMembership(c) == \E k \in In("memberships", "active") : Read(c, "revoke", {k})

AnswerInvitation(c) ==
  \E k \in In("invitations", "pending"), command \in {"withdraw", "accept"} :
    Read(c, command, {k})

Logout(c) == \E k \in In("sessions", "active") : Read(c, "logout", {k})

(* A verification link is issued to a pending identity. *)
Issue(c) ==
  /\ In("identities", "pending") # {}
  /\ Read(c, "issue", {})

Verify(c) ==
  \E l \in In("challenges", "verification"), i \in In("identities", "pending") :
    i = Row("identities") /\ Read(c, "verify", {i, l})

(* A login reads the credential and evicts all but the newest sessions. *)
Login(c) ==
  /\ rows[Row("identities")].status = "active"
  /\ \E evicted \in SUBSET In("sessions", "active") :
       /\ Cardinality(In("sessions", "active") \ evicted) =
            (IF Cardinality(In("sessions", "active")) < MaxActive
             THEN Cardinality(In("sessions", "active")) ELSE MaxActive - 1)
       /\ Read(c, "login", {Row("credentials")} \cup evicted)

(* A reset spends its link, changes the secret, ends every session and
   verifies a pending identity. *)
Reset(c) ==
  /\ rows[Row("challenges")].status = "reset"
  /\ Read(c, "reset",
          {Row("challenges"), Row("credentials")} \cup In("sessions", "active")
            \cup ({Row("identities")} \cap In("identities", "pending")))

-----------------------------------------------------------------------------
(* Writers.                                                                *)

(* Seeded fault: a row is replaced if it is still there, whatever became of
   it. *)
CurrentPresent(c) == DOMAIN loaded[c] \subseteq Present

(* Every loaded row is stored in the loaded version. *)
Current(c) ==
  /\ DOMAIN loaded[c] \subseteq Present
  /\ \A k \in DOMAIN loaded[c] : rows[k].version = loaded[c][k].version

(* The stores' add and replace. *)
Put(writes) ==
  [k \in DOMAIN writes \cup Present |-> IF k \in DOMAIN writes THEN writes[k] ELSE rows[k]]

(* commit / commitAll: refuse, or apply in the same turn and start to publish. *)
Commit(c, accepted, writes, events) ==
  /\ IF accepted
     THEN /\ rows' = Put(writes)
          /\ undo' = [undo EXCEPT ![c] =
               [k \in DOMAIN writes |-> IF k \in Present THEN rows[k] ELSE Absent]]
          /\ left' = [left EXCEPT ![c] = events]
          /\ pc' = [pc EXCEPT ![c] = "publishing"]
     ELSE /\ pc' = [pc EXCEPT ![c] = "refused"]
          /\ UNCHANGED <<rows, undo, left>>
  /\ UNCHANGED <<op, loaded, sent, pruned, faults>>

Decided(c, commands) == pc[c] = "decided" /\ op[c] \in commands

(* A row that the call creates, and one besides others. *)
Add(c, table, row) == [k \in {<<table, c>>} |-> row]
Also(writes, c, table, row) ==
  [k \in DOMAIN writes \cup {<<table, c>>} |-> IF k = <<table, c>> THEN row ELSE writes[k]]

(* The single row a call has loaded, in its next status. *)
Replace(c, status) ==
  [k \in DOMAIN loaded[c] |-> Saved(loaded[c][k], status, c)]

DocumentWriter(c) ==
  \/ /\ Decided(c, {"create document"})
     /\ Commit(c, TRUE, Add(c, "documents", New("active", c)), 1)
  \/ /\ Decided(c, {"archive"})
     /\ Commit(c, Current(c), Replace(c, "archived"), 1)

(* Seeded fault: a second open job of a subject is not looked for. *)
NoOpenJobUnchecked == TRUE

(* openJobBySubject. *)
NoOpenJob == In("jobs", "open") = {}

JobWriter(c) ==
  \/ /\ Decided(c, {"submit job"})
     /\ Commit(c, NoOpenJob, Add(c, "jobs", New("open", c)), 1)
  \/ /\ Decided(c, {"submit plain job"})
     /\ Commit(c, TRUE, Add(c, "jobs", New("no subject", c)), 1)
  \/ /\ Decided(c, {"close"})
     /\ Commit(c, Current(c), Replace(c, "closed"), 1)

(* All creations ask for one slug; the owner's membership is of the new
   organization. *)
OrganizationWriter(c) ==
  /\ Decided(c, {"create organization"})
  /\ Commit(c, Table("organizations") = {},
            Also(Add(c, "organizations", New("active", c)),
                 c, "memberships", New("owner", c)), 2)

(* The identity has no membership of the organization, in any status. *)
NoMembership == In("memberships", "active") \cup In("memberships", "revoked") = {}

MembershipWriter(c) ==
  \/ /\ Decided(c, {"add membership"})
     /\ Commit(c, NoMembership, Add(c, "memberships", New("active", c)), 1)
  \/ /\ Decided(c, {"revoke"})
     /\ Commit(c, Current(c), Replace(c, "revoked"), 1)

NonePending == In("invitations", "pending") = {}

InvitationWriter(c) ==
  \/ /\ Decided(c, {"invite"})
     /\ Commit(c, NonePending, Add(c, "invitations", New("pending", c)), 1)
  \/ /\ Decided(c, {"withdraw"})
     /\ Commit(c, Current(c), Replace(c, "revoked"), 1)

InvitationAcceptanceWriter(c) ==
  /\ Decided(c, {"accept"})
  /\ Commit(c,
            Current(c) /\ DOMAIN loaded[c] \subseteq In("invitations", "pending") /\ NoMembership,
            Also(Replace(c, "accepted"), c, "memberships", New("active", c)), 2)

(* All registrations are for one new email address. *)
RegistrationWriter(c) ==
  /\ Decided(c, {"register"})
  /\ Commit(c, Table("credentials") = {Row("credentials")},
            Also(Add(c, "identities", New("unverified", c)),
                 c, "credentials", New("active", c)), 1)

VerificationChallengeWriter(c) ==
  /\ Decided(c, {"issue"})
  /\ Commit(c, TRUE, Add(c, "challenges", New("verification", c)), 1)

VerificationWriter(c) ==
  /\ Decided(c, {"verify"})
  /\ Commit(c, Current(c),
            [k \in DOMAIN loaded[c] |->
               Saved(loaded[c][k], IF k[1] = "identities" THEN "active" ELSE "consumed", c)],
            1)

(* The credential is unchanged and only compared; the session's trail keeps
   the secret it was opened with. *)
SessionWriter(c) ==
  /\ Decided(c, {"login"})
  /\ LET credential == loaded[c][Row("credentials")]
         evicted == DOMAIN loaded[c] \ {Row("credentials")}
     IN Commit(c, Current(c),
               Also([k \in evicted |-> Saved(loaded[c][k], "revoked", c)], c, "sessions",
                    [version |-> 1, status |-> "active", trail |-> credential.trail \cup {c}]),
               1 + Cardinality(evicted))

SessionRevocationWriter(c) ==
  /\ Decided(c, {"logout"})
  /\ Commit(c, Current(c), Replace(c, "revoked"), 1)

(* Seeded fault: sessions opened since the list was read are not looked for. *)
AllListedUnchecked(c) == TRUE

(* Every active session is among those the reset has read. *)
AllListed(c) == In("sessions", "active") \subseteq DOMAIN loaded[c]

AfterReset(table) ==
  CASE table = "challenges" -> "consumed"
    [] table = "sessions" -> "revoked"
    [] OTHER -> "active"

PasswordResetWriter(c) ==
  /\ Decided(c, {"reset"})
  /\ Commit(c, Current(c) /\ AllListed(c),
            [k \in DOMAIN loaded[c] |-> Saved(loaded[c][k], AfterReset(k[1]), c)],
            Cardinality(DOMAIN loaded[c]) - 1)

(* SessionActivityWriter replaces a session by itself, seen now; the pruner
   deletes sessions that have ended or were not used for long. *)
Prune ==
  /\ \E k \in Table("sessions") :
       /\ rows' = [j \in Present \ {k} |-> rows[j]]
       /\ pruned' = pruned \cup {k}
  /\ UNCHANGED <<calls, sent, faults>>

Write(c) ==
  \/ DocumentWriter(c) \/ JobWriter(c) \/ OrganizationWriter(c)
  \/ MembershipWriter(c) \/ InvitationWriter(c) \/ InvitationAcceptanceWriter(c)
  \/ RegistrationWriter(c) \/ VerificationChallengeWriter(c)
  \/ VerificationWriter(c) \/ SessionWriter(c) \/ SessionRevocationWriter(c)
  \/ PasswordResetWriter(c)

-----------------------------------------------------------------------------
(* Publishing through ChaosEventBus, and undoing.                          *)

(* FaultInjector.arm, for one call. *)
Arm(p) ==
  /\ armings < MaxFaults
  /\ armed' = [armed EXCEPT ![p] = 1]
  /\ armings' = armings + 1
  /\ UNCHANGED <<rows, calls, sent, pruned>>

(* FaultInjector.disarm. *)
Disarm(p) ==
  /\ armed[p] > 0
  /\ armed' = [armed EXCEPT ![p] = 0]
  /\ UNCHANGED <<rows, calls, sent, pruned, armings>>

(* FaultInjector.hit: an armed fault is used up. *)
Hit(p) == armed[p] > 0 /\ armed' = [armed EXCEPT ![p] = @ - 1]
Miss(p) == armed[p] = 0 /\ UNCHANGED armed

(* What the writer found is put back over whatever is there now; rows it
   created are removed. *)
Restored(c) ==
  LET found == {k \in DOMAIN undo[c] : undo[c][k] # Absent}
      kept == (Present \ DOMAIN undo[c]) \cup found
  IN [k \in kept |-> IF k \in found THEN undo[c][k] ELSE rows[k]]

PublishFails(c) ==
  /\ rows' = Restored(c)
  /\ pc' = [pc EXCEPT ![c] = "failed"]
  /\ UNCHANGED <<op, loaded, undo, left, pruned, armings>>

(* The fault before, or EventDelivery accepts the event. *)
PublishNext(c) ==
  /\ pc[c] = "publishing"
  /\ \/ Hit("event.publish.before") /\ PublishFails(c) /\ UNCHANGED sent
     \/ /\ Miss("event.publish.before")
        /\ sent' = sent \cup {<<c, left[c]>>}
        /\ pc' = [pc EXCEPT ![c] = "accepted"]
        /\ UNCHANGED <<rows, op, loaded, undo, left, pruned, armings>>

(* The fault after, or the next event, or the caller learns of success. *)
Confirm(c) ==
  /\ pc[c] = "accepted"
  /\ \/ Hit("event.publish.after") /\ PublishFails(c) /\ UNCHANGED sent
     \/ /\ Miss("event.publish.after")
        /\ left' = [left EXCEPT ![c] = @ - 1]
        /\ pc' = [pc EXCEPT ![c] = IF left[c] = 1 THEN "acknowledged" ELSE "publishing"]
        /\ UNCHANGED <<rows, op, loaded, undo, sent, pruned, armings>>

StoresNext ==
  \/ \E c \in Calls :
       \/ Create(c) \/ SubmitJob(c) \/ Register(c) \/ ArchiveDocument(c)
       \/ CloseJob(c) \/ RevokeMembership(c) \/ AnswerInvitation(c)
       \/ Issue(c) \/ Verify(c) \/ Login(c) \/ Logout(c) \/ Reset(c)
       \/ Write(c) \/ PublishNext(c) \/ Confirm(c)
  \/ Prune
  \/ \E p \in Points : Arm(p) \/ Disarm(p)

StoresSpec == StoresInit /\ [][StoresNext]_storesVars

-----------------------------------------------------------------------------
Commands ==
  Creations \cup {"none", "submit plain job", "register", "archive", "close", "revoke",
                  "withdraw", "accept", "logout", "issue", "verify", "login", "reset"}

Stages == {"idle", "decided", "publishing", "accepted", "acknowledged",
           "refused", "failed"}

Maps(f, values) == DOMAIN f \subseteq RowKeys /\ \A k \in DOMAIN f : f[k] \in values

StoresTypeOK ==
  /\ Maps(rows, Rows)
  /\ pc \in [Calls -> Stages] /\ op \in [Calls -> Commands]
  /\ DOMAIN loaded = Calls /\ DOMAIN undo = Calls
  /\ \A c \in Calls : Maps(loaded[c], Rows) /\ Maps(undo[c], Rows \cup {Absent})
  /\ left \in [Calls -> Nat]
  /\ \A c \in Calls : pc[c] \in {"publishing", "accepted"} => left[c] > 0
  /\ sent \subseteq Calls \X Nat
  /\ pruned \subseteq RowKeys
  /\ armed \in [Points -> Nat] /\ armings \in 0 .. MaxFaults

(* The rows a call has written, and those a failed one has put back. *)
Wrote(c) == DOMAIN undo[c]
PutBack == UNION {Wrote(c) : c \in {f \in Calls : pc[f] = "failed"}}

(* A change that was applied, and of whose success its caller may have been
   told, stays part of its row, however others interleave, unless the row was
   put back by a failed publish of a call that wrote the same row: what is
   undone never reaches other rows. *)
LostOnlyWhereUndone ==
  \A c \in Calls : pc[c] \in {"publishing", "accepted", "acknowledged"} =>
    \A k \in Wrote(c) \ (PutBack \cup pruned) : k \in Present /\ c \in rows[k].trail

(* Who finds the version it has loaded finds the row it has loaded: versions
   are used twice only for rows that were put back. *)
VersionNamesRow ==
  \A c \in Calls : pc[c] = "decided" =>
    \A k \in DOMAIN loaded[c] \ (PutBack \cup pruned) :
      /\ k \in Present /\ loaded[c][k].version <= rows[k].version
      /\ loaded[c][k].version = rows[k].version => loaded[c][k] = rows[k]

(* Nobody knows a row before the call that creates it has done so, only what
   a call has created does it remove, and a pruned session comes back only
   when it is put back. *)
IdsAreNew ==
  /\ \A c \in Calls : pc[c] \in {"idle", "decided"} =>
       /\ Wrote(c) = {}
       /\ \A t \in Tables :
            /\ <<t, c>> \notin Present \cup pruned
            /\ \A d \in Calls : <<t, c>> \notin DOMAIN loaded[d] \cup Wrote(d)
  /\ \A c \in Calls : \A k \in Wrote(c) : undo[c][k] = Absent => k[2] = c
  /\ {Row("credentials"), Row("challenges")} \subseteq Present
  /\ pruned \cap Present \subseteq PutBack

LastStatuses == {"archived", "closed", "revoked", "accepted", "consumed"}

(* Versions tell first statuses from last ones. *)
InOrder(k, row) ==
  /\ row.status \in LastStatuses => row.version = 2
  /\ row.status \in {"open", "pending", "reset", "verification"} => row.version = 1
  /\ row.status = "active" => row.version = 1 \/ k[1] \in {"credentials", "identities"}
  /\ k[1] = "credentials" => row.status = "active"

(* What each command loads: table and status. *)
Reads ==
  {<<"archive", "documents", "active">>, <<"close", "jobs", "open">>,
   <<"revoke", "memberships", "active">>, <<"withdraw", "invitations", "pending">>,
   <<"accept", "invitations", "pending">>, <<"logout", "sessions", "active">>,
   <<"verify", "challenges", "verification">>, <<"verify", "identities", "pending">>,
   <<"login", "credentials", "active">>, <<"login", "sessions", "active">>,
   <<"reset", "challenges", "reset">>, <<"reset", "credentials", "active">>,
   <<"reset", "sessions", "active">>, <<"reset", "identities", "pending">>}

StatusesInOrder ==
  /\ \A k \in Present : InOrder(k, rows[k])
  /\ \A c \in Calls : \A k \in Wrote(c) : undo[c][k] # Absent => InOrder(k, undo[c][k])
  /\ \A c \in Calls : \A k \in DOMAIN loaded[c] :
       /\ InOrder(k, loaded[c][k])
       /\ <<op[c], k[1], loaded[c][k].status>> \in Reads
       /\ k[1] = "credentials" => k = Row("credentials")
  /\ \A c \in Calls : op[c] \in {"login", "reset"} => Row("credentials") \in DOMAIN loaded[c]
  /\ \A c \in Calls : op[c] = "reset" => Row("challenges") \in DOMAIN loaded[c]

(* Types, no acknowledged change lost except where a publish failed, and what
   this rests on: ids are new, versions name rows and follow their statuses. *)
StoresInv ==
  StoresTypeOK /\ LostOnlyWhereUndone /\ VersionNamesRow /\ IdsAreNew /\ StatusesInOrder

(* The rows of which a table has at most one. *)
Sole(k, row) ==
  \/ k[1] = "jobs" /\ row.status = "open"
  \/ k[1] = "invitations" /\ row.status = "pending"
  \/ k[1] = "memberships" /\ row.status \in {"active", "revoked"}
  \/ k[1] = "organizations"
  \/ k[1] = "credentials" /\ k # Row("credentials")

(* The in-memory checks stand in for the unique indexes: one open job of a
   subject, one pending invitation and one membership of an identity, one
   organization of a slug and one credential of an email, also while changes
   are being published, not counting what a failed publish has put back. *)
UniqueUnlessUndone ==
  \A j, k \in Present \ PutBack :
    j[1] = k[1] /\ Sole(j, rows[j]) /\ Sole(k, rows[k]) => j = k

(* An active session was opened with the present password: a reset, even one
   still being published, leaves no older session, and no login on the older
   password commits after it, unless a failed publish put one of the rows
   back. *)
ResetSignsOut ==
  \A s \in In("sessions", "active") :
    {s, Row("credentials")} \cap PutBack = {} =>
      rows[Row("credentials")].trail \subseteq rows[s].trail

(* Closed, archived, consumed, revoked or accepted is for good: only undoing
   a failed publish takes a row out of its last status. *)
FinalUnlessUndone ==
  [][\A k \in Present :
       (rows[k].status \in LastStatuses /\ k \in DOMAIN rows' /\ rows'[k] # rows[k]) =>
         \E c \in Calls : pc[c] # "failed" /\ pc'[c] = "failed" /\ k \in Wrote(c)]_storesVars

=============================================================================
