---------------------------- MODULE Organization ----------------------------
(***************************************************************************)
(* Organizations, memberships and invitations, and the commands that change *)
(* them.  A command authorises its actor, reads the rows it decides on and  *)
(* commits, each in a database access of its own, while others do the same. *)
(* A commit writes the rows and their facts (events in the outbox) in one   *)
(* transaction; it is refused when a unique constraint would be violated or *)
(* the version of the loaded row is no longer current.  Only that           *)
(* comparison uses the version: fresh holds the calls for which it succeeds.*)
(***************************************************************************)
EXTENDS FiniteSets

CONSTANTS
  Orgs, Identities,
  Memberships,   \* ids of membership rows
  Invitations,   \* ids of invitation rows
  Calls,         \* concurrent command executions
  None           \* no row, no actor, no organization

ASSUME NoneAssumption ==
  None \notin Orgs \cup Identities \cup Memberships \cup Invitations

VARIABLES
  orgs,      \* organizations that exist
  members,   \* membership rows
  invites,   \* invitation rows
  expired,   \* invitations whose expiry time has passed
  facts,     \* events enqueued so far, by kind and row
  pc,        \* where each call is
  actor,     \* the identity on whose behalf it runs
  org,       \* the organization it was authorised for
  subject,   \* the row it is about to update
  draft,     \* the row it is about to write
  fresh      \* calls whose loaded row has its loaded version

rows == <<orgs, members, invites, facts>>
callVars == <<pc, actor, org, subject, draft>>
vars == <<rows, expired, callVars, fresh>>

-----------------------------------------------------------------------------
(* Rows.  Both aggregates name an organization, an identity and a role.     *)

Roles == {"owner", "admin", "member"}
InvitationRoles == {"admin", "member"}

Membership ==
  [org : Orgs, identity : Identities, role : Roles,
   status : {"active", "revoked"}]

Invitation ==
  [org : Orgs, identity : Identities, role : InvitationRoles,
   status : {"pending", "accepted", "revoked"}]

(* No row is not a row. *)
ASSUME NoRowAssumption == None \notin Membership \cup Invitation

FactKinds == {"added", "role_changed", "revoked",
              "invited", "accepted", "invitation_revoked"}

(* Membership.add and Invitation.issue. *)
Add(o, x, r) == [org |-> o, identity |-> x, role |-> r, status |-> "active"]
Issue(o, x, r) == [org |-> o, identity |-> x, role |-> r, status |-> "pending"]

(* A row of either aggregate that belongs to identity x in organization o. *)
Of(row, o, x) == row # None /\ row.org = o /\ row.identity = x

(* MembershipReader.findForIdentity: a membership of any status. *)
HasMembership(o, x) == \E m \in Memberships : Of(members[m], o, x)

(* MembershipReader.findActiveForIdentity, and the role it must have. *)
ActiveOwner(o, x) ==
  \E m \in Memberships :
    Of(members[m], o, x) /\ members[m].status = "active"
                         /\ members[m].role = "owner"

(* InvitationReader.findPendingForIdentity: expiry does not matter. *)
HasPending(o, x) ==
  \E v \in Invitations : Of(invites[v], o, x) /\ invites[v].status = "pending"

(* Seeded fault: revoked memberships do not count. *)
MembershipTakenByActive(o, x) ==
  \E m \in Memberships : Of(members[m], o, x) /\ members[m].status = "active"

(* The unique constraint on (organization_id, identity_id) refuses a row. *)
MembershipTaken(o, x) == HasMembership(o, x)

(* The partial unique index over pending invitations refuses a row. *)
PendingTaken(o, x) == HasPending(o, x)

-----------------------------------------------------------------------------
(* What every call does.                                                    *)

Return(c) ==
  /\ pc' = [pc EXCEPT ![c] = "idle"]
  /\ actor' = [actor EXCEPT ![c] = None]
  /\ org' = [org EXCEPT ![c] = None]
  /\ subject' = [subject EXCEPT ![c] = None]
  /\ draft' = [draft EXCEPT ![c] = None]

(* A storage failure, a refused write, an invalid input, an unknown or
   inactive identity, a clock that moved backwards, or a crash. *)
CallFails(c) ==
  /\ pc[c] # "idle"
  /\ Return(c)
  /\ fresh' = fresh \ {c}
  /\ UNCHANGED <<rows, expired>>

(* The five management commands first read the actor's own membership. *)
Commands == {"add", "invite", "changeRole", "revoke", "revokeInvitation"}

Authorise(c, op, x, o) ==
  /\ pc[c] = "idle"
  /\ ActiveOwner(o, x)
  /\ pc' = [pc EXCEPT ![c] = op]
  /\ actor' = [actor EXCEPT ![c] = x]
  /\ org' = [org EXCEPT ![c] = o]
  /\ UNCHANGED <<rows, expired, subject, draft, fresh>>

(* Go on to a later stage with a row to insert ... *)
Prepare(c, stage, row) ==
  /\ pc' = [pc EXCEPT ![c] = stage]
  /\ draft' = [draft EXCEPT ![c] = row]
  /\ UNCHANGED <<rows, expired, actor, org, subject, fresh>>

(* ... or with a loaded row s and what it is to become. *)
Load(c, stage, s, row) ==
  /\ pc' = [pc EXCEPT ![c] = stage]
  /\ subject' = [subject EXCEPT ![c] = s]
  /\ draft' = [draft EXCEPT ![c] = row]
  /\ fresh' = fresh \cup {c}
  /\ UNCHANGED <<rows, expired>>

(* Seeded fault: the version is not compared. *)
IsFreshAlways(c) == TRUE

(* WHERE version = $loaded. *)
IsFresh(c) == c \in fresh

(* The loads that a write of row s leaves current. *)
StillFresh(s) == {q \in fresh : subject[q] # s}

Fact(kind, s) == [kind |-> kind, id |-> s]
Facts == [kind : FactKinds, id : Memberships \cup Invitations]

-----------------------------------------------------------------------------
(* CreateOrganization: the organization and its owner in one commit.        *)

(* The organizations with a new one, which its slug names. *)
Created(o) == orgs \cup {o}

(* PostgresOrganizationWriter; the unique slug lets one in. *)
OrganizationCommit(o, owner) ==
  /\ o \notin orgs
  /\ orgs' = Created(o)
  /\ \E m \in Memberships :
       /\ members[m] = None
       /\ members' = [members EXCEPT ![m] = owner]
       /\ facts' = facts \cup {Fact("added", m)}

CreateOrganization(o, x) ==
  /\ OrganizationCommit(o, Add(o, x, "owner"))
  /\ UNCHANGED <<invites, expired, callVars, fresh>>

-----------------------------------------------------------------------------
(* AddMembership.                                                           *)

AddCheck(c, x, r) ==
  /\ pc[c] = "add"
  /\ ~HasMembership(org[c], x)
  /\ Prepare(c, "adding", Add(org[c], x, r))

AddCommit(c) ==
  /\ pc[c] = "adding"
  /\ ~MembershipTaken(draft[c].org, draft[c].identity)
  /\ \E m \in Memberships :
       /\ members[m] = None
       /\ members' = [members EXCEPT ![m] = draft[c]]
       /\ facts' = facts \cup {Fact("added", m)}
  /\ Return(c)
  /\ UNCHANGED <<orgs, invites, expired, fresh>>

-----------------------------------------------------------------------------
(* ChangeMembershipRole and RevokeMembership.                               *)

(* Seeded fault: the row may be of another organization. *)
ManageableInAnyOrg(c, m) ==
  members[m] # None /\ members[m].role # "owner"

(* The membership is one of the organization the actor was authorised for,
   and owners are locked. *)
Manageable(c, m) ==
  /\ members[m] # None
  /\ members[m].org = org[c]
  /\ members[m].role # "owner"

ChangeRoleLoad(c, m, r) ==
  /\ pc[c] = "changeRole"
  /\ Manageable(c, m)
  /\ members[m].status = "active"
  /\ Load(c, "changing", m, [members[m] EXCEPT !.role = r])
  /\ UNCHANGED <<actor, org>>

RevokeLoad(c, m) ==
  /\ pc[c] = "revoke"
  /\ Manageable(c, m)
  /\ members[m].status = "active"
  /\ Load(c, "revoking", m, [members[m] EXCEPT !.status = "revoked"])
  /\ UNCHANGED <<actor, org>>

MembershipCommit(c) ==
  /\ pc[c] \in {"changing", "revoking"}
  /\ IsFresh(c)
  /\ members' = [members EXCEPT ![subject[c]] = draft[c]]
  /\ facts' = facts \cup
       {Fact(IF pc[c] = "changing" THEN "role_changed" ELSE "revoked",
             subject[c])}
  /\ fresh' = StillFresh(subject[c])
  /\ Return(c)
  /\ UNCHANGED <<orgs, invites, expired>>

-----------------------------------------------------------------------------
(* InviteIdentity and RevokeInvitation.                                     *)

InviteCheck(c, x, r) ==
  /\ pc[c] = "invite"
  /\ r \in InvitationRoles
  /\ ~HasMembership(org[c], x)
  /\ Prepare(c, "inviting", Issue(org[c], x, r))

InviteFind(c) ==
  /\ pc[c] = "inviting"
  /\ ~HasPending(draft[c].org, draft[c].identity)
  /\ Prepare(c, "issuing", draft[c])

InviteCommit(c) ==
  /\ pc[c] = "issuing"
  /\ ~PendingTaken(draft[c].org, draft[c].identity)
  /\ \E v \in Invitations :
       /\ invites[v] = None
       /\ invites' = [invites EXCEPT ![v] = draft[c]]
       /\ facts' = facts \cup {Fact("invited", v)}
  /\ Return(c)
  /\ UNCHANGED <<orgs, members, expired, fresh>>

RevokeInvitationLoad(c, v) ==
  /\ pc[c] = "revokeInvitation"
  /\ invites[v] # None /\ invites[v].org = org[c]
  /\ invites[v].status = "pending"
  /\ Load(c, "withdrawing", v, [invites[v] EXCEPT !.status = "revoked"])
  /\ UNCHANGED <<actor, org>>

RevokeInvitationCommit(c) ==
  /\ pc[c] = "withdrawing"
  /\ IsFresh(c)
  /\ invites' = [invites EXCEPT ![subject[c]] = draft[c]]
  /\ facts' = facts \cup {Fact("invitation_revoked", subject[c])}
  /\ fresh' = StillFresh(subject[c])
  /\ Return(c)
  /\ UNCHANGED <<orgs, members, expired>>

(* Seven days pass. *)
InvitationExpires(v) ==
  /\ invites[v] # None /\ v \notin expired
  /\ expired' = expired \cup {v}
  /\ UNCHANGED <<rows, callVars, fresh>>

-----------------------------------------------------------------------------
(* AcceptInvitation: by the invited identity itself.                        *)

AcceptLoad(c, v) ==
  /\ pc[c] = "idle"
  /\ invites[v] # None
  /\ Load(c, "accept", v, invites[v])
  /\ actor' = [actor EXCEPT ![c] = invites[v].identity]
  /\ org' = [org EXCEPT ![c] = invites[v].org]

(* No membership yet; Invitation.accept on the loaded row, at this time. *)
AcceptCheck(c) ==
  /\ pc[c] = "accept"
  /\ ~HasMembership(org[c], actor[c])
  /\ draft[c].status = "pending"
  /\ subject[c] \notin expired
  /\ Prepare(c, "accepting", [draft[c] EXCEPT !.status = "accepted"])

(* The invitation and the membership, with both facts, or nothing. *)
AcceptCommit(c) ==
  /\ pc[c] = "accepting"
  /\ invites[subject[c]].status = "pending" /\ IsFresh(c)
  /\ ~MembershipTaken(draft[c].org, draft[c].identity)
  /\ invites' = [invites EXCEPT ![subject[c]].status = "accepted"]
  /\ \E m \in Memberships :
       /\ members[m] = None
       /\ members' = [members EXCEPT ![m] =
            Add(draft[c].org, draft[c].identity, draft[c].role)]
       /\ facts' = facts \cup {Fact("accepted", subject[c]), Fact("added", m)}
  /\ fresh' = StillFresh(subject[c])
  /\ Return(c)
  /\ UNCHANGED <<orgs, expired>>

-----------------------------------------------------------------------------
Init ==
  /\ orgs = {} /\ expired = {} /\ facts = {} /\ fresh = {}
  /\ members = [m \in Memberships |-> None]
  /\ invites = [v \in Invitations |-> None]
  /\ pc = [c \in Calls |-> "idle"]
  /\ actor = [c \in Calls |-> None]
  /\ org = [c \in Calls |-> None]
  /\ subject = [c \in Calls |-> None]
  /\ draft = [c \in Calls |-> None]

Manage(c) ==
  \/ \E op \in Commands, x \in Identities, o \in Orgs : Authorise(c, op, x, o)
  \/ \E x \in Identities, r \in Roles : AddCheck(c, x, r)
  \/ AddCommit(c)
  \/ \E m \in Memberships, r \in Roles : ChangeRoleLoad(c, m, r)
  \/ \E m \in Memberships : RevokeLoad(c, m)
  \/ MembershipCommit(c)
  \/ \E x \in Identities, r \in Roles : InviteCheck(c, x, r)
  \/ InviteFind(c)
  \/ InviteCommit(c)
  \/ \E v \in Invitations : RevokeInvitationLoad(c, v)
  \/ RevokeInvitationCommit(c)

AcceptInvitation(c) ==
  \/ \E v \in Invitations : AcceptLoad(c, v)
  \/ AcceptCheck(c)
  \/ AcceptCommit(c)

Next ==
  \/ \E o \in Orgs, x \in Identities : CreateOrganization(o, x)
  \/ \E v \in Invitations : InvitationExpires(v)
  \/ \E c \in Calls : Manage(c) \/ AcceptInvitation(c) \/ CallFails(c)

Spec == Init /\ [][Next]_vars

-----------------------------------------------------------------------------
(* Properties.                                                              *)

Stages == {"idle", "adding", "changing", "revoking", "inviting", "issuing",
           "withdrawing", "accept", "accepting"} \cup Commands

(* Rows, facts and calls are well formed. *)
TypeOK ==
  /\ orgs \in SUBSET Orgs
  /\ members \in [Memberships -> Membership \cup {None}]
  /\ invites \in [Invitations -> Invitation \cup {None}]
  /\ expired \in SUBSET Invitations
  /\ facts \in SUBSET Facts
  /\ pc \in [Calls -> Stages]
  /\ actor \in [Calls -> Identities \cup {None}]
  /\ org \in [Calls -> Orgs \cup {None}]
  /\ subject \in [Calls -> Memberships \cup Invitations \cup {None}]
  /\ draft \in [Calls -> Membership \cup Invitation \cup {None}]
  /\ fresh \in SUBSET Calls

(* An owner stays an active owner: a revocation or a demotion decided while
   the membership was not yet an owner's is refused once it is one. *)
OwnersAreLocked ==
  [][\A m \in Memberships :
       members[m] # None /\ members[m].role = "owner" =>
         members'[m] = members[m]]_vars

(* Authority read at the start of a management command still holds when the
   command writes, and it is authority over the organization of the row it
   writes, although nothing re-checks it. *)
AuthorityNeverStale ==
  \A c \in Calls :
    pc[c] \in {"adding", "changing", "revoking",
               "inviting", "issuing", "withdrawing"} =>
      ActiveOwner(draft[c].org, actor[c])

(* Every organization has an active owner from its creation on. *)
OrganizationHasOwner ==
  \A o \in orgs : \E x \in Identities : ActiveOwner(o, x)

ActiveMember(o, x) ==
  \E m \in Memberships : Of(members[m], o, x) /\ members[m].status = "active"

Revoked(o, x) ==
  \E m \in Memberships : Of(members[m], o, x) /\ members[m].status = "revoked"

(* Revocation is for good: by no path, direct, by invitation, or by a command
   that was already under way, does the identity become a member again. *)
RevokedStaysOut ==
  [][\A o \in Orgs, x \in Identities :
       Revoked(o, x) => ~ActiveMember(o, x)']_vars

(* Acceptance is all or nothing: the identity of an accepted invitation has a
   membership, and no identity has accepted two. *)
AcceptedIsMember ==
  \A v \in Invitations :
    invites[v] # None /\ invites[v].status = "accepted" =>
      /\ HasMembership(invites[v].org, invites[v].identity)
      /\ \A w \in Invitations \ {v} :
           Of(invites[w], invites[v].org, invites[v].identity) =>
             invites[w].status # "accepted"

(* The facts in the outbox tell what happened to the rows: what exists was
   announced, and so was every end.  An invitation is therefore decided once:
   an acceptance and a revocation that race cannot both take effect. *)
FactsTellRows ==
  /\ \A m \in Memberships :
       /\ members[m] # None <=> Fact("added", m) \in facts
       /\ Fact("revoked", m) \in facts <=>
            members[m] # None /\ members[m].status = "revoked"
  /\ \A v \in Invitations :
       /\ invites[v] # None <=> Fact("invited", v) \in facts
       /\ Fact("accepted", v) \in facts <=>
            invites[v] # None /\ invites[v].status = "accepted"
       /\ Fact("invitation_revoked", v) \in facts <=>
            invites[v] # None /\ invites[v].status = "revoked"

-----------------------------------------------------------------------------
(* The inductive invariant.                                                 *)

(* At most one membership per organization and identity, at most one pending
   invitation. *)
OneRowEach ==
  /\ \A m, n \in Memberships :
       members[m] # None /\ members[n] # None
         /\ members[m].org = members[n].org
         /\ members[m].identity = members[n].identity => m = n
  /\ \A v, w \in Invitations :
       invites[v] # None /\ invites[w] # None
         /\ invites[v].org = invites[w].org
         /\ invites[v].identity = invites[w].identity
         /\ invites[v].status = "pending" /\ invites[w].status = "pending"
         => v = w

(* Rows name organizations that exist: a new one has none. *)
RowsOfOrgs ==
  /\ \A m \in Memberships : members[m] # None => members[m].org \in orgs
  /\ \A v \in Invitations : invites[v] # None => invites[v].org \in orgs

OwnersActive ==
  \A m \in Memberships :
    members[m] # None /\ members[m].role = "owner" =>
      members[m].status = "active"

(* A management call acts for an owner of its organization, on rows of that
   organization. *)
ManagerCall(c) ==
  pc[c] \notin {"idle", "accept", "accepting"} =>
    /\ actor[c] \in Identities /\ org[c] \in Orgs
    /\ ActiveOwner(org[c], actor[c])
    /\ pc[c] \notin Commands => draft[c] # None /\ draft[c].org = org[c]

(* A current load of a membership is of one that is neither owner nor
   revoked, and the draft differs from it as the command says. *)
MembershipCall(c) ==
  /\ pc[c] = "adding" => draft[c] \in Membership /\ draft[c].status = "active"
  /\ pc[c] \in {"changing", "revoking"} =>
       /\ draft[c] \in Membership
       /\ subject[c] \in Memberships /\ members[subject[c]] # None
       /\ draft[c].status = (IF pc[c] = "changing" THEN "active" ELSE "revoked")
       /\ pc[c] = "revoking" => draft[c].role # "owner"
       /\ c \in fresh =>
            /\ members[subject[c]].role # "owner"
            /\ members[subject[c]].status = "active"
            /\ draft[c].org = members[subject[c]].org
            /\ draft[c].identity = members[subject[c]].identity

(* The same for invitations. *)
InvitationCall(c) ==
  /\ pc[c] \in {"inviting", "issuing"} =>
       draft[c] \in Invitation /\ draft[c].status = "pending"
  /\ pc[c] \in {"withdrawing", "accept", "accepting"} =>
       /\ draft[c] \in Invitation
       /\ subject[c] \in Invitations /\ invites[subject[c]] # None
       /\ org[c] = draft[c].org
       /\ pc[c] # "withdrawing" => actor[c] = draft[c].identity
       /\ pc[c] = "withdrawing" => draft[c].status = "revoked"
       /\ pc[c] = "accepting" => draft[c].status = "accepted"
       /\ draft[c].org = invites[subject[c]].org
       /\ draft[c].identity = invites[subject[c]].identity
       /\ c \in fresh /\ pc[c] = "withdrawing" =>
            invites[subject[c]].status = "pending"

CallOK(c) == ManagerCall(c) /\ MembershipCall(c) /\ InvitationCall(c)
CallsOK == \A c \in Calls : CallOK(c)

RowsInv ==
  /\ OneRowEach /\ RowsOfOrgs /\ OwnersActive
  /\ OrganizationHasOwner /\ AcceptedIsMember /\ FactsTellRows

(* What the calls rely on and the rows keep. *)
IInv == TypeOK /\ RowsInv /\ CallsOK

=============================================================================
