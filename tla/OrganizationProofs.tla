-------------------------- MODULE OrganizationProofs ------------------------
(***************************************************************************)
(* Proofs about Organization, for any sets of organizations, identities,   *)
(* rows and concurrent calls.                                              *)
(***************************************************************************)
EXTENDS Organization, TLAPS

-----------------------------------------------------------------------------
(* What a step may do to the rows.                                         *)

(* Rows stay, with their organization and identity; an owner's row and a
   revoked one stay as they are. *)
KeepsRows ==
  /\ \A m \in Memberships : members[m] # None =>
       /\ members'[m] # None
       /\ members'[m].org = members[m].org
       /\ members'[m].identity = members[m].identity
       /\ members[m].role = "owner" \/ members[m].status = "revoked" =>
            members'[m] = members[m]
  /\ \A v \in Invitations : invites[v] # None =>
       /\ invites'[v] # None
       /\ invites'[v].org = invites[v].org
       /\ invites'[v].identity = invites[v].identity

(* A call whose load is still current finds the row it has loaded. *)
KeepsLoad(q) ==
  q \in fresh' =>
    /\ q \in fresh
    /\ subject[q] \in Memberships /\ members[subject[q]] # None =>
         members'[subject[q]] = members[subject[q]]
    /\ subject[q] \in Invitations /\ invites[subject[q]] # None =>
         invites'[subject[q]] = invites[subject[q]]

(* The step is somebody else's. *)
SameCall(q) ==
  /\ pc'[q] = pc[q] /\ actor'[q] = actor[q] /\ org'[q] = org[q]
  /\ subject'[q] = subject[q] /\ draft'[q] = draft[q]

(* An owner of an organization goes on being one. *)
LEMMA OwnerStays ==
  ASSUME KeepsRows, NEW o, NEW x, ActiveOwner(o, x)
  PROVE  ActiveOwner(o, x)'
  BY DEF KeepsRows, ActiveOwner, Of

(* What is known of a call survives the steps of others. *)
LEMMA CallKept ==
  ASSUME NEW q \in Calls, CallOK(q), KeepsRows, KeepsLoad(q), SameCall(q)
  PROVE  CallOK(q)'
  <1>1. ManagerCall(q)'
    BY OwnerStays DEF CallOK, ManagerCall, SameCall
  <1>2. MembershipCall(q)'
    BY DEF CallOK, MembershipCall, SameCall, KeepsRows, KeepsLoad
  <1>3. InvitationCall(q)'
    BY DEF CallOK, InvitationCall, SameCall, KeepsRows, KeepsLoad
  <1> QED
    BY <1>1, <1>2, <1>3 DEF CallOK

(* A call that ends holds nothing to be wrong about. *)
LEMMA IdleOK ==
  ASSUME NEW q \in Calls, pc'[q] = "idle"
  PROVE  CallOK(q)'
  BY DEF CallOK, ManagerCall, MembershipCall, InvitationCall, Commands

(* Rows that do not change keep what holds of them. *)
LEMMA RowsUnchanged ==
  ASSUME UNCHANGED rows
  PROVE  (RowsInv => RowsInv') /\ KeepsRows
  BY DEF RowsInv, rows, KeepsRows, OneRowEach, RowsOfOrgs, OwnersActive,
     OrganizationHasOwner, ActiveOwner, AcceptedIsMember, HasMembership, FactsTellRows, Of

(* The step of one call leaves the others and their current loads alone. *)
OthersKept(c) == \A q \in Calls \ {c} : SameCall(q) /\ KeepsLoad(q)

(* So it has to account for its own call only. *)
LEMMA CallsKept ==
  ASSUME CallsOK, NEW c \in Calls, KeepsRows, OthersKept(c), CallOK(c)'
  PROVE  CallsOK'
  <1> SUFFICES ASSUME NEW q \in Calls, q # c PROVE CallOK(q)'
    BY DEF CallsOK
  <1> QED
    BY CallKept DEF CallsOK, OthersKept

-----------------------------------------------------------------------------
(* The four ways in which a call moves on.                                 *)

(* The type of what the calls keep. *)
CallTypes ==
  /\ pc \in [Calls -> Stages]
  /\ actor \in [Calls -> Identities \cup {None}]
  /\ org \in [Calls -> Orgs \cup {None}]
  /\ subject \in [Calls -> Memberships \cup Invitations \cup {None}]
  /\ draft \in [Calls -> Membership \cup Invitation \cup {None}]

(* A call that returns. *)
LEMMA Returned ==
  ASSUME TypeOK, NEW c \in Calls, Return(c)
  PROVE  CallTypes' /\ CallOK(c)' /\ \A q \in Calls \ {c} : SameCall(q)
  <1>1. pc'[c] = "idle"
    BY DEF TypeOK, Return
  <1>2. CallTypes'
    BY DEF TypeOK, Return, CallTypes, Stages
  <1>3. \A q \in Calls \ {c} : SameCall(q)
    BY DEF TypeOK, Return, SameCall
  <1> QED
    BY <1>1, <1>2, <1>3, IdleOK

(* A step that writes no row and invalidates no other load. *)
LEMMA CallOnly ==
  ASSUME IInv, NEW c \in Calls, UNCHANGED rows, fresh' \subseteq fresh \cup {c},
         \A q \in Calls \ {c} : SameCall(q)
  PROVE  KeepsRows /\ RowsInv' /\ OthersKept(c)
  BY RowsUnchanged DEF IInv, OthersKept, KeepsLoad, rows

(* A call goes on with a row to insert. *)
LEMMA Prepared ==
  ASSUME IInv, NEW c \in Calls, NEW stage \in Stages,
         NEW row \in Membership \cup Invitation, Prepare(c, stage, row)
  PROVE  /\ TypeOK' /\ RowsInv' /\ KeepsRows /\ OthersKept(c)
         /\ pc'[c] = stage /\ draft'[c] = row /\ fresh' = fresh
         /\ UNCHANGED <<members, invites, actor, org, subject>>
  <1>1. TypeOK'
    BY DEF IInv, TypeOK, Prepare, rows
  <1>2. \A q \in Calls \ {c} : SameCall(q)
    BY DEF IInv, TypeOK, Prepare, SameCall
  <1> QED
    BY <1>1, <1>2, CallOnly DEF IInv, TypeOK, Prepare, rows

(* A call goes on with a loaded row and what it is to become. *)
LEMMA Loaded ==
  ASSUME IInv, NEW c \in Calls, NEW stage \in Stages,
         NEW s \in Memberships \cup Invitations,
         NEW row \in Membership \cup Invitation, Load(c, stage, s, row),
         NEW x \in Identities \cup {None}, NEW o \in Orgs \cup {None},
         actor' = [actor EXCEPT ![c] = x], org' = [org EXCEPT ![c] = o]
  PROVE  /\ TypeOK' /\ RowsInv' /\ KeepsRows /\ OthersKept(c)
         /\ pc'[c] = stage /\ subject'[c] = s /\ draft'[c] = row
         /\ actor'[c] = x /\ org'[c] = o
         /\ UNCHANGED <<members, invites>>
  <1>1. TypeOK'
    BY DEF IInv, TypeOK, Load, rows
  <1>2. \A q \in Calls \ {c} : SameCall(q)
    BY DEF IInv, TypeOK, Load, SameCall
  <1> QED
    BY <1>1, <1>2, CallOnly DEF IInv, TypeOK, Load, rows

-----------------------------------------------------------------------------
(* Every action keeps the rows and the inductive invariant.                *)

(* What one step owes. *)
StepOK == IInv' /\ KeepsRows

(* A command is authorised: the owner it reads is the owner it acts for. *)
LEMMA AuthoriseOK ==
  ASSUME IInv, NEW c \in Calls, NEW op \in Commands, NEW x \in Identities,
         NEW o \in Orgs, Authorise(c, op, x, o)
  PROVE  StepOK
  <1>1. TypeOK'
    BY DEF IInv, TypeOK, Authorise, Stages, rows
  <1>2. \A q \in Calls \ {c} : SameCall(q)
    BY DEF IInv, TypeOK, Authorise, SameCall
  <1>3. KeepsRows /\ RowsInv' /\ OthersKept(c)
    BY <1>2, CallOnly DEF Authorise
  <1>4. pc'[c] = op /\ actor'[c] = x /\ org'[c] = o
    BY DEF IInv, TypeOK, Authorise
  <1>5. ActiveOwner(o, x)'
    BY <1>3, OwnerStays DEF Authorise
  <1>6. CallOK(c)'
    BY <1>4, <1>5
       DEF CallOK, ManagerCall, MembershipCall, InvitationCall, Commands
  <1> QED
    BY <1>1, <1>3, <1>6, CallsKept DEF StepOK, IInv

(* AddMembership drafts an active membership of the actor's organization. *)
LEMMA AddCheckOK ==
  ASSUME IInv, NEW c \in Calls, NEW x \in Identities, NEW r \in Roles,
         AddCheck(c, x, r)
  PROVE  StepOK
  <1> DEFINE row == Add(org[c], x, r)
  <1>1. ManagerCall(c) /\ pc[c] = "add"
    BY DEF IInv, CallsOK, CallOK, AddCheck
  <1>2. org[c] \in Orgs /\ ActiveOwner(org[c], actor[c])
    BY <1>1 DEF ManagerCall
  <1>3. row \in Membership /\ row.org = org[c] /\ row.status = "active"
    BY <1>2 DEF Add, Membership
  <1>4. "adding" \in Stages /\ Prepare(c, "adding", row)
    BY DEF AddCheck, Stages
  <1> HIDE DEF row
  <1>5. /\ TypeOK' /\ RowsInv' /\ KeepsRows /\ OthersKept(c)
        /\ pc'[c] = "adding" /\ draft'[c] = row
        /\ UNCHANGED <<members, invites, actor, org, subject>>
    BY <1>3, <1>4, Prepared
  <1>6. ManagerCall(c)'
    BY <1>1, <1>2, <1>3, <1>5, OwnerStays, NoRowAssumption
       DEF ManagerCall, Commands
  <1>7. CallOK(c)'
    BY <1>3, <1>5, <1>6
       DEF CallOK, MembershipCall, InvitationCall
  <1> QED
    BY <1>5, <1>7, CallsKept DEF StepOK, IInv

(* InviteIdentity drafts a pending invitation to the actor's organization. *)
LEMMA InviteCheckOK ==
  ASSUME IInv, NEW c \in Calls, NEW x \in Identities, NEW r \in Roles,
         InviteCheck(c, x, r)
  PROVE  StepOK
  <1> DEFINE row == Issue(org[c], x, r)
  <1>1. ManagerCall(c) /\ pc[c] = "invite"
    BY DEF IInv, CallsOK, CallOK, InviteCheck
  <1>2. org[c] \in Orgs /\ ActiveOwner(org[c], actor[c])
    BY <1>1 DEF ManagerCall
  <1>3. row \in Invitation /\ row.org = org[c] /\ row.status = "pending"
    BY <1>2 DEF Issue, Invitation, InviteCheck
  <1>4. "inviting" \in Stages /\ Prepare(c, "inviting", row)
    BY DEF InviteCheck, Stages
  <1> HIDE DEF row
  <1>5. /\ TypeOK' /\ RowsInv' /\ KeepsRows /\ OthersKept(c)
        /\ pc'[c] = "inviting" /\ draft'[c] = row
        /\ UNCHANGED <<members, invites, actor, org, subject>>
    BY <1>3, <1>4, Prepared
  <1>6. ManagerCall(c)'
    BY <1>1, <1>2, <1>3, <1>5, OwnerStays, NoRowAssumption
       DEF ManagerCall, Commands
  <1>7. CallOK(c)'
    BY <1>3, <1>5, <1>6
       DEF CallOK, MembershipCall, InvitationCall
  <1> QED
    BY <1>5, <1>7, CallsKept DEF StepOK, IInv

(* The draft is kept when no pending invitation is found. *)
LEMMA InviteFindOK ==
  ASSUME IInv, NEW c \in Calls, InviteFind(c)
  PROVE  StepOK
  <1>1. ManagerCall(c) /\ InvitationCall(c) /\ pc[c] = "inviting"
    BY DEF IInv, CallsOK, CallOK, InviteFind
  <1>2. /\ draft[c] \in Invitation /\ draft[c].status = "pending"
        /\ ActiveOwner(org[c], actor[c])
    BY <1>1 DEF InvitationCall, ManagerCall
  <1>3. "issuing" \in Stages /\ Prepare(c, "issuing", draft[c])
    BY DEF InviteFind, Stages
  <1>4. /\ TypeOK' /\ RowsInv' /\ KeepsRows /\ OthersKept(c)
        /\ pc'[c] = "issuing" /\ draft'[c] = draft[c]
        /\ UNCHANGED <<members, invites, actor, org, subject>>
    BY <1>2, <1>3, Prepared
  <1>5. ManagerCall(c)'
    BY <1>1, <1>2, <1>4, OwnerStays DEF ManagerCall, Commands
  <1>6. CallOK(c)'
    BY <1>2, <1>4, <1>5 DEF CallOK, MembershipCall, InvitationCall
  <1> QED
    BY <1>4, <1>6, CallsKept DEF StepOK, IInv

(* ChangeMembershipRole and RevokeMembership load a row that is active and not
   an owner's; the draft differs from it in one column. *)
LEMMA MembershipLoadOK ==
  ASSUME IInv, NEW c \in Calls, NEW m \in Memberships, NEW row \in Membership,
         NEW stage \in {"changing", "revoking"},
         pc[c] \in {"changeRole", "revoke"}, Manageable(c, m),
         members[m].status = "active", Load(c, stage, m, row),
         UNCHANGED <<actor, org>>,
         row.org = members[m].org, row.identity = members[m].identity,
         row.status = (IF stage = "changing" THEN "active" ELSE "revoked"),
         stage = "revoking" => row.role # "owner"
  PROVE  StepOK
  <1>1. ManagerCall(c)
    BY DEF IInv, CallsOK, CallOK
  <1>2. /\ actor[c] \in Identities /\ org[c] \in Orgs
        /\ ActiveOwner(org[c], actor[c])
    BY <1>1 DEF ManagerCall
  <1>3. actor' = [actor EXCEPT ![c] = actor[c]] /\ org' = [org EXCEPT ![c] = org[c]]
    BY DEF IInv, TypeOK
  <1>4. /\ stage \in Stages /\ m \in Memberships \cup Invitations
        /\ row \in Membership \cup Invitation
        /\ actor[c] \in Identities \cup {None} /\ org[c] \in Orgs \cup {None}
    BY <1>2 DEF Stages
  <1>5. /\ TypeOK' /\ RowsInv' /\ KeepsRows /\ OthersKept(c)
        /\ pc'[c] = stage /\ subject'[c] = m /\ draft'[c] = row
        /\ actor'[c] = actor[c] /\ org'[c] = org[c]
        /\ UNCHANGED <<members, invites>>
    BY ONLY IInv, c \in Calls, Load(c, stage, m, row), <1>3, <1>4, Loaded
  <1>6. ManagerCall(c)'
    BY <1>2, <1>5, OwnerStays, NoRowAssumption
       DEF ManagerCall, Commands, Manageable
  <1>7. MembershipCall(c)'
    BY <1>5 DEF MembershipCall, Manageable
  <1>8. InvitationCall(c)'
    BY <1>5 DEF InvitationCall
  <1> QED
    BY <1>5, <1>6, <1>7, <1>8, CallsKept DEF StepOK, IInv, CallOK

LEMMA ChangeRoleLoadOK ==
  ASSUME IInv, NEW c \in Calls, NEW m \in Memberships, NEW r \in Roles,
         ChangeRoleLoad(c, m, r)
  PROVE  StepOK
  <1>1. members[m] \in Membership
    BY DEF IInv, TypeOK, ChangeRoleLoad, Manageable
  <1>2. [members[m] EXCEPT !.role = r] \in Membership
    BY <1>1 DEF Membership
  <1> QED
    BY <1>1, <1>2, MembershipLoadOK DEF ChangeRoleLoad, Membership

LEMMA RevokeLoadOK ==
  ASSUME IInv, NEW c \in Calls, NEW m \in Memberships, RevokeLoad(c, m)
  PROVE  StepOK
  <1>1. members[m] \in Membership /\ members[m].role # "owner"
    BY DEF IInv, TypeOK, RevokeLoad, Manageable
  <1>2. [members[m] EXCEPT !.status = "revoked"] \in Membership
    BY <1>1 DEF Membership
  <1> QED
    BY <1>1, <1>2, MembershipLoadOK DEF RevokeLoad, Membership

(* RevokeInvitation loads a pending invitation to the actor's organization. *)
LEMMA RevokeInvitationLoadOK ==
  ASSUME IInv, NEW c \in Calls, NEW v \in Invitations,
         RevokeInvitationLoad(c, v)
  PROVE  StepOK
  <1> DEFINE row == [invites[v] EXCEPT !.status = "revoked"]
  <1>1. ManagerCall(c) /\ pc[c] = "revokeInvitation"
    BY DEF IInv, CallsOK, CallOK, RevokeInvitationLoad
  <1>2. /\ actor[c] \in Identities /\ org[c] \in Orgs
        /\ ActiveOwner(org[c], actor[c])
    BY <1>1 DEF ManagerCall
  <1>3. actor' = [actor EXCEPT ![c] = actor[c]] /\ org' = [org EXCEPT ![c] = org[c]]
    BY DEF IInv, TypeOK, RevokeInvitationLoad
  <1>4. invites[v] \in Invitation /\ invites[v].org = org[c]
    BY DEF IInv, TypeOK, RevokeInvitationLoad
  <1>5. /\ row \in Invitation /\ row.org = org[c] /\ row.status = "revoked"
        /\ row.identity = invites[v].identity
    BY <1>4 DEF Invitation
  <1>6. "withdrawing" \in Stages /\ Load(c, "withdrawing", v, row)
    BY DEF RevokeInvitationLoad, Stages
  <1> HIDE DEF row
  <1>7. /\ TypeOK' /\ RowsInv' /\ KeepsRows /\ OthersKept(c)
        /\ pc'[c] = "withdrawing" /\ subject'[c] = v /\ draft'[c] = row
        /\ actor'[c] = actor[c] /\ org'[c] = org[c]
        /\ UNCHANGED <<members, invites>>
    BY <1>2, <1>3, <1>5, <1>6, Loaded
  <1>8. ManagerCall(c)'
    BY <1>2, <1>5, <1>7, OwnerStays, NoRowAssumption DEF ManagerCall, Commands
  <1>9. MembershipCall(c)'
    BY <1>7 DEF MembershipCall
  <1>10. InvitationCall(c)'
    BY <1>4, <1>5, <1>7 DEF InvitationCall, RevokeInvitationLoad
  <1> QED
    BY <1>7, <1>8, <1>9, <1>10, CallsKept DEF StepOK, IInv, CallOK

(* AcceptInvitation loads the invitation, of any status ... *)
LEMMA AcceptLoadOK ==
  ASSUME IInv, NEW c \in Calls, NEW v \in Invitations, AcceptLoad(c, v)
  PROVE  StepOK
  <1>1. /\ invites[v] \in Invitation
        /\ invites[v].identity \in Identities /\ invites[v].org \in Orgs
    BY DEF IInv, TypeOK, AcceptLoad, Invitation
  <1>2. "accept" \in Stages /\ Load(c, "accept", v, invites[v])
    BY DEF AcceptLoad, Stages
  <1>3. /\ TypeOK' /\ RowsInv' /\ KeepsRows /\ OthersKept(c)
        /\ pc'[c] = "accept" /\ subject'[c] = v /\ draft'[c] = invites[v]
        /\ actor'[c] = invites[v].identity /\ org'[c] = invites[v].org
        /\ UNCHANGED <<members, invites>>
    BY <1>1, <1>2, Loaded DEF AcceptLoad
  <1>4. CallOK(c)'
    BY <1>1, <1>3, NoRowAssumption
       DEF CallOK, ManagerCall, MembershipCall, InvitationCall
  <1> QED
    BY <1>3, <1>4, CallsKept DEF StepOK, IInv

(* ... and goes on if the loaded one was pending. *)
LEMMA AcceptCheckOK ==
  ASSUME IInv, NEW c \in Calls, AcceptCheck(c)
  PROVE  StepOK
  <1> DEFINE row == [draft[c] EXCEPT !.status = "accepted"]
  <1>1. InvitationCall(c) /\ pc[c] = "accept"
    BY DEF IInv, CallsOK, CallOK, AcceptCheck
  <1>2. draft[c] \in Invitation
    BY <1>1 DEF InvitationCall
  <1>3. /\ row \in Invitation /\ row.status = "accepted"
        /\ row.org = draft[c].org /\ row.identity = draft[c].identity
    BY <1>2 DEF Invitation
  <1>4. "accepting" \in Stages /\ Prepare(c, "accepting", row)
    BY DEF AcceptCheck, Stages
  <1> HIDE DEF row
  <1>5. /\ TypeOK' /\ RowsInv' /\ KeepsRows /\ OthersKept(c)
        /\ pc'[c] = "accepting" /\ draft'[c] = row
        /\ UNCHANGED <<members, invites, actor, org, subject>>
    BY <1>3, <1>4, Prepared
  <1>6. CallOK(c)'
    BY <1>1, <1>3, <1>5
       DEF CallOK, ManagerCall, MembershipCall, InvitationCall
  <1> QED
    BY <1>5, <1>6, CallsKept DEF StepOK, IInv

(* A call may fail at any point. *)
LEMMA CallFailsOK ==
  ASSUME IInv, NEW c \in Calls, CallFails(c)
  PROVE  StepOK
  <1>1. CallTypes' /\ CallOK(c)' /\ \A q \in Calls \ {c} : SameCall(q)
    BY Returned DEF IInv, CallFails
  <1>2. KeepsRows /\ RowsInv' /\ OthersKept(c)
    BY <1>1, CallOnly DEF CallFails
  <1>3. TypeOK'
    BY <1>1 DEF IInv, TypeOK, CallTypes, CallFails, rows
  <1> QED
    BY <1>1, <1>2, <1>3, CallsKept DEF StepOK, IInv

(* Expiry is only a mark. *)
LEMMA InvitationExpiresOK ==
  ASSUME IInv, NEW v \in Invitations, InvitationExpires(v)
  PROVE  StepOK
  <1>1. TypeOK'
    BY DEF IInv, TypeOK, InvitationExpires, rows, callVars
  <1>2. KeepsRows /\ RowsInv'
    BY RowsUnchanged DEF IInv, InvitationExpires
  <1>3. \A q \in Calls : SameCall(q) /\ KeepsLoad(q)
    BY DEF InvitationExpires, SameCall, KeepsLoad, rows, callVars
  <1>4. CallsOK'
    BY <1>2, <1>3, CallKept DEF IInv, CallsOK
  <1> QED
    BY <1>1, <1>2, <1>4 DEF StepOK, IInv

-----------------------------------------------------------------------------
(* The steps that write rows.                                              *)

(* A membership row is inserted: the others stay. *)
LEMMA Inserted ==
  ASSUME TypeOK, NEW m \in Memberships, members[m] = None,
         NEW row \in Membership, members' = [members EXCEPT ![m] = row]
  PROVE  /\ members' \in [Memberships -> Membership \cup {None}]
         /\ members'[m] = row /\ row # None
         /\ \A n \in Memberships \ {m} : members'[n] = members[n]
  BY NoRowAssumption DEF TypeOK

(* CreateOrganization: a new organization, so no row of it, and its owner. *)
LEMMA CreateOrganizationOK ==
  ASSUME IInv, NEW o \in Orgs, NEW x \in Identities, CreateOrganization(o, x)
  PROVE  StepOK
  <1> DEFINE row == Add(o, x, "owner")
  <1>1. row \in Membership /\ row = [org |-> o, identity |-> x,
                                     role |-> "owner", status |-> "active"]
    BY DEF Add, Membership, Roles
  <1>2. PICK m \in Memberships : /\ members[m] = None
                                 /\ members' = [members EXCEPT ![m] = row]
                                 /\ facts' = facts \cup {Fact("added", m)}
    BY DEF CreateOrganization, OrganizationCommit
  <1>3. /\ o \notin orgs /\ orgs' = orgs \cup {o}
        /\ UNCHANGED <<invites, expired, callVars, fresh>>
    BY DEF CreateOrganization, OrganizationCommit, Created
  <1> HIDE DEF row
  <1>4. /\ members' \in [Memberships -> Membership \cup {None}]
        /\ members'[m] = row /\ row # None
        /\ \A n \in Memberships \ {m} : members'[n] = members[n]
    BY <1>1, <1>2, Inserted DEF IInv
  <1>5. TypeOK'
    BY <1>3, <1>4, <1>2 DEF IInv, TypeOK, Fact, Facts, FactKinds, callVars
  <1>6. KeepsRows
    BY <1>2, <1>3, <1>4 DEF KeepsRows
  <1>7. OneRowEach'
    BY <1>1, <1>3, <1>4 DEF IInv, RowsInv, OneRowEach, RowsOfOrgs
  <1>8. RowsOfOrgs'
    BY <1>1, <1>3, <1>4 DEF IInv, RowsInv, RowsOfOrgs
  <1>9. OwnersActive'
    BY <1>1, <1>4 DEF IInv, RowsInv, OwnersActive
  <1>10. OrganizationHasOwner'
    <2>1. ActiveOwner(o, x)'
      BY <1>1, <1>4 DEF ActiveOwner, Of
    <2> QED
      BY <1>3, <1>6, <2>1, OwnerStays DEF IInv, RowsInv, OrganizationHasOwner
  <1>11. AcceptedIsMember'
    BY <1>3, <1>6
       DEF IInv, RowsInv, AcceptedIsMember, HasMembership, Of, KeepsRows
  <1>12. FactsTellRows'
    BY <1>1, <1>2, <1>3, <1>4 DEF IInv, RowsInv, FactsTellRows, Fact
  <1>13. CallsOK'
    <2>1. \A q \in Calls : SameCall(q) /\ KeepsLoad(q)
      BY <1>2, <1>3, <1>4 DEF SameCall, KeepsLoad, callVars
    <2> QED
      BY <1>6, <2>1, CallKept DEF IInv, CallsOK
  <1> QED
    BY <1>5, <1>6, <1>7, <1>8, <1>9, <1>10, <1>11, <1>12, <1>13
       DEF StepOK, IInv, RowsInv

(* AddMembership inserts a row where the unique constraint finds none. *)
LEMMA AddCommitOK ==
  ASSUME IInv, NEW c \in Calls, AddCommit(c)
  PROVE  StepOK
  <1>1. ManagerCall(c) /\ MembershipCall(c) /\ pc[c] = "adding"
    BY DEF IInv, CallsOK, CallOK, AddCommit
  <1>2. /\ draft[c] \in Membership /\ draft[c].status = "active"
        /\ ActiveOwner(draft[c].org, actor[c])
    BY <1>1 DEF ManagerCall, MembershipCall, Commands
  <1>3. PICK m \in Memberships : /\ members[m] = None
                                 /\ members' = [members EXCEPT ![m] = draft[c]]
                                 /\ facts' = facts \cup {Fact("added", m)}
    BY DEF AddCommit
  <1>4. /\ ~HasMembership(draft[c].org, draft[c].identity)
        /\ Return(c) /\ UNCHANGED <<orgs, invites, expired, fresh>>
    BY DEF AddCommit, MembershipTaken
  <1>5. /\ members' \in [Memberships -> Membership \cup {None}]
        /\ members'[m] = draft[c] /\ draft[c] # None
        /\ \A n \in Memberships \ {m} : members'[n] = members[n]
    BY <1>2, <1>3, Inserted DEF IInv
  <1>6. CallTypes' /\ CallOK(c)' /\ \A q \in Calls \ {c} : SameCall(q)
    BY <1>4, Returned DEF IInv
  <1>7. TypeOK'
    BY <1>3, <1>4, <1>5, <1>6
       DEF IInv, TypeOK, CallTypes, Fact, Facts, FactKinds
  <1>8. KeepsRows
    BY <1>3, <1>4, <1>5 DEF KeepsRows
  <1>9. OneRowEach'
    BY <1>4, <1>5 DEF IInv, RowsInv, OneRowEach, HasMembership, Of
  <1>10. RowsOfOrgs'
    BY <1>2, <1>4, <1>5 DEF IInv, RowsInv, RowsOfOrgs, ActiveOwner, Of
  <1>11. OwnersActive'
    BY <1>2, <1>5 DEF IInv, RowsInv, OwnersActive
  <1>12. OrganizationHasOwner'
    BY <1>4, <1>8, OwnerStays DEF IInv, RowsInv, OrganizationHasOwner
  <1>13. AcceptedIsMember'
    BY <1>4, <1>8
       DEF IInv, RowsInv, AcceptedIsMember, HasMembership, Of, KeepsRows
  <1>14. FactsTellRows'
    BY <1>2, <1>3, <1>4, <1>5 DEF IInv, RowsInv, FactsTellRows, Fact
  <1>15. CallsOK'
    <2>1. OthersKept(c)
      BY <1>3, <1>4, <1>5, <1>6 DEF OthersKept, KeepsLoad
    <2> QED
      BY <1>6, <1>8, <2>1, CallsKept DEF IInv
  <1> QED
    BY <1>7, <1>8, <1>9, <1>10, <1>11, <1>12, <1>13, <1>14, <1>15
       DEF StepOK, IInv, RowsInv

(* ChangeMembershipRole and RevokeMembership overwrite a row that still has
   the version they loaded, so one that is active and not an owner's. *)
LEMMA MembershipCommitOK ==
  ASSUME IInv, NEW c \in Calls, MembershipCommit(c)
  PROVE  StepOK
  <1> DEFINE m == subject[c]
             kind == IF pc[c] = "changing" THEN "role_changed" ELSE "revoked"
  <1>1. /\ MembershipCall(c) /\ pc[c] \in {"changing", "revoking"}
        /\ c \in fresh
    BY DEF IInv, CallsOK, CallOK, MembershipCommit, IsFresh
  <1>2. /\ draft[c] \in Membership
        /\ m \in Memberships /\ members[m] # None
        /\ draft[c].status = (IF pc[c] = "changing" THEN "active" ELSE "revoked")
        /\ pc[c] = "revoking" => draft[c].role # "owner"
        /\ members[m].role # "owner" /\ members[m].status = "active"
        /\ draft[c].org = members[m].org
        /\ draft[c].identity = members[m].identity
    BY <1>1 DEF MembershipCall
  <1>3. /\ members' = [members EXCEPT ![m] = draft[c]]
        /\ facts' = facts \cup {Fact(kind, m)}
        /\ fresh' = StillFresh(m) /\ Return(c)
        /\ UNCHANGED <<orgs, invites, expired>>
    BY DEF MembershipCommit
  <1>4. kind \in {"role_changed", "revoked"}
        /\ (kind = "revoked" <=> draft[c].status = "revoked")
    BY <1>1, <1>2
  <1> HIDE DEF m, kind
  <1>5. /\ members' \in [Memberships -> Membership \cup {None}]
        /\ members'[m] = draft[c] /\ draft[c] # None
        /\ \A n \in Memberships \ {m} : members'[n] = members[n]
    BY <1>2, <1>3, NoRowAssumption DEF IInv, TypeOK
  <1>6. CallTypes' /\ CallOK(c)' /\ \A q \in Calls \ {c} : SameCall(q)
    BY <1>3, Returned DEF IInv
  <1>7. TypeOK'
    BY <1>2, <1>3, <1>4, <1>5, <1>6
       DEF IInv, TypeOK, CallTypes, Fact, Facts, FactKinds, StillFresh
  <1>8. KeepsRows
    BY <1>2, <1>3, <1>5 DEF KeepsRows
  <1>9. OneRowEach'
    BY <1>2, <1>3, <1>5 DEF IInv, RowsInv, OneRowEach
  <1>10. RowsOfOrgs'
    BY <1>2, <1>3, <1>5 DEF IInv, RowsInv, RowsOfOrgs
  <1>11. OwnersActive'
    BY <1>1, <1>2, <1>5 DEF IInv, RowsInv, OwnersActive
  <1>12. OrganizationHasOwner'
    BY <1>3, <1>8, OwnerStays DEF IInv, RowsInv, OrganizationHasOwner
  <1>13. AcceptedIsMember'
    BY <1>3, <1>8
       DEF IInv, RowsInv, AcceptedIsMember, HasMembership, Of, KeepsRows
  <1>14. FactsTellRows'
    BY <1>2, <1>3, <1>4, <1>5 DEF IInv, RowsInv, FactsTellRows, Fact
  <1>15. CallsOK'
    <2>1. OthersKept(c)
      BY <1>3, <1>5, <1>6 DEF OthersKept, KeepsLoad, StillFresh
    <2> QED
      BY <1>6, <1>8, <2>1, CallsKept DEF IInv
  <1> QED
    BY <1>7, <1>8, <1>9, <1>10, <1>11, <1>12, <1>13, <1>14, <1>15
       DEF StepOK, IInv, RowsInv

(* InviteIdentity inserts a row where the partial index finds none pending. *)
LEMMA InviteCommitOK ==
  ASSUME IInv, NEW c \in Calls, InviteCommit(c)
  PROVE  StepOK
  <1>1. ManagerCall(c) /\ InvitationCall(c) /\ pc[c] = "issuing"
    BY DEF IInv, CallsOK, CallOK, InviteCommit
  <1>2. /\ draft[c] \in Invitation /\ draft[c].status = "pending"
        /\ ActiveOwner(draft[c].org, actor[c])
    BY <1>1 DEF ManagerCall, InvitationCall, Commands
  <1>3. PICK v \in Invitations : /\ invites[v] = None
                                 /\ invites' = [invites EXCEPT ![v] = draft[c]]
                                 /\ facts' = facts \cup {Fact("invited", v)}
    BY DEF InviteCommit
  <1>4. /\ ~HasPending(draft[c].org, draft[c].identity)
        /\ Return(c) /\ UNCHANGED <<orgs, members, expired, fresh>>
    BY DEF InviteCommit, PendingTaken
  <1>5. /\ invites' \in [Invitations -> Invitation \cup {None}]
        /\ invites'[v] = draft[c] /\ draft[c] # None
        /\ \A w \in Invitations \ {v} : invites'[w] = invites[w]
    BY <1>2, <1>3, NoRowAssumption DEF IInv, TypeOK
  <1>6. CallTypes' /\ CallOK(c)' /\ \A q \in Calls \ {c} : SameCall(q)
    BY <1>4, Returned DEF IInv
  <1>7. TypeOK'
    BY <1>3, <1>4, <1>5, <1>6
       DEF IInv, TypeOK, CallTypes, Fact, Facts, FactKinds
  <1>8. KeepsRows
    BY <1>3, <1>4, <1>5 DEF KeepsRows
  <1>9. OneRowEach'
    BY <1>4, <1>5 DEF IInv, RowsInv, OneRowEach, HasPending, Of
  <1>10. RowsOfOrgs'
    BY <1>2, <1>4, <1>5 DEF IInv, RowsInv, RowsOfOrgs, ActiveOwner, Of
  <1>11. OwnersActive'
    BY <1>4 DEF IInv, RowsInv, OwnersActive
  <1>12. OrganizationHasOwner'
    BY <1>4, <1>8, OwnerStays DEF IInv, RowsInv, OrganizationHasOwner
  <1>13. AcceptedIsMember'
    BY <1>2, <1>4, <1>5
       DEF IInv, RowsInv, AcceptedIsMember, HasMembership, Of
  <1>14. FactsTellRows'
    BY <1>2, <1>3, <1>4, <1>5 DEF IInv, RowsInv, FactsTellRows, Fact
  <1>15. CallsOK'
    <2>1. OthersKept(c)
      BY <1>3, <1>4, <1>5, <1>6 DEF OthersKept, KeepsLoad
    <2> QED
      BY <1>6, <1>8, <2>1, CallsKept DEF IInv
  <1> QED
    BY <1>7, <1>8, <1>9, <1>10, <1>11, <1>12, <1>13, <1>14, <1>15
       DEF StepOK, IInv, RowsInv

(* RevokeInvitation overwrites a row that is still pending. *)
LEMMA RevokeInvitationCommitOK ==
  ASSUME IInv, NEW c \in Calls, RevokeInvitationCommit(c)
  PROVE  StepOK
  <1> DEFINE v == subject[c]
  <1>1. InvitationCall(c) /\ pc[c] = "withdrawing" /\ c \in fresh
    BY DEF IInv, CallsOK, CallOK, RevokeInvitationCommit, IsFresh
  <1>2. /\ draft[c] \in Invitation /\ draft[c].status = "revoked"
        /\ v \in Invitations /\ invites[v] # None
        /\ invites[v].status = "pending"
        /\ draft[c].org = invites[v].org
        /\ draft[c].identity = invites[v].identity
    BY <1>1 DEF InvitationCall
  <1>3. /\ invites' = [invites EXCEPT ![v] = draft[c]]
        /\ facts' = facts \cup {Fact("invitation_revoked", v)}
        /\ fresh' = StillFresh(v) /\ Return(c)
        /\ UNCHANGED <<orgs, members, expired>>
    BY DEF RevokeInvitationCommit
  <1> HIDE DEF v
  <1>4. /\ invites' \in [Invitations -> Invitation \cup {None}]
        /\ invites'[v] = draft[c] /\ draft[c] # None
        /\ \A w \in Invitations \ {v} : invites'[w] = invites[w]
    BY <1>2, <1>3, NoRowAssumption DEF IInv, TypeOK
  <1>5. CallTypes' /\ CallOK(c)' /\ \A q \in Calls \ {c} : SameCall(q)
    BY <1>3, Returned DEF IInv
  <1>6. TypeOK'
    BY <1>2, <1>3, <1>4, <1>5
       DEF IInv, TypeOK, CallTypes, Fact, Facts, FactKinds, StillFresh
  <1>7. KeepsRows
    BY <1>2, <1>3, <1>4 DEF KeepsRows
  <1>8. OneRowEach'
    BY <1>2, <1>3, <1>4 DEF IInv, RowsInv, OneRowEach
  <1>9. RowsOfOrgs'
    BY <1>2, <1>3, <1>4 DEF IInv, RowsInv, RowsOfOrgs
  <1>10. OwnersActive'
    BY <1>3 DEF IInv, RowsInv, OwnersActive
  <1>11. OrganizationHasOwner'
    BY <1>3, <1>7, OwnerStays DEF IInv, RowsInv, OrganizationHasOwner
  <1>12. AcceptedIsMember'
    BY <1>2, <1>3, <1>4
       DEF IInv, RowsInv, AcceptedIsMember, HasMembership, Of
  <1>13. FactsTellRows'
    BY <1>2, <1>3, <1>4 DEF IInv, RowsInv, FactsTellRows, Fact
  <1>14. CallsOK'
    <2>1. OthersKept(c)
      BY <1>3, <1>4, <1>5 DEF OthersKept, KeepsLoad, StillFresh
    <2> QED
      BY <1>5, <1>7, <2>1, CallsKept DEF IInv
  <1> QED
    BY <1>6, <1>7, <1>8, <1>9, <1>10, <1>11, <1>12, <1>13, <1>14
       DEF StepOK, IInv, RowsInv

(* AcceptInvitation turns a pending row into an accepted one and inserts the
   membership that the unique constraint lets in. *)
LEMMA AcceptCommitOK ==
  ASSUME IInv, NEW c \in Calls, AcceptCommit(c)
  PROVE  StepOK
  <1> DEFINE v == subject[c]
             row == Add(draft[c].org, draft[c].identity, draft[c].role)
             decided == [invites[v] EXCEPT !.status = "accepted"]
  <1>1. InvitationCall(c) /\ pc[c] = "accepting"
    BY DEF IInv, CallsOK, CallOK, AcceptCommit
  <1>2. /\ draft[c] \in Invitation
        /\ v \in Invitations /\ invites[v] # None
        /\ draft[c].org = invites[v].org
        /\ draft[c].identity = invites[v].identity
    BY <1>1 DEF InvitationCall
  <1>3. invites[v] \in Invitation /\ invites[v].status = "pending"
    BY <1>2 DEF IInv, TypeOK, AcceptCommit
  <1>4. /\ decided \in Invitation /\ decided.status = "accepted"
        /\ decided.org = draft[c].org /\ decided.identity = draft[c].identity
    BY <1>2, <1>3 DEF Invitation
  <1>5. /\ row \in Membership /\ row.status = "active" /\ row.role # "owner"
        /\ row.org = draft[c].org /\ row.identity = draft[c].identity
    BY <1>2 DEF Add, Membership, Invitation, Roles, InvitationRoles
  <1>6. PICK m \in Memberships :
          /\ members[m] = None
          /\ members' = [members EXCEPT ![m] = row]
          /\ facts' = facts \cup {Fact("accepted", v), Fact("added", m)}
    BY DEF AcceptCommit
  <1>7. /\ invites' = [invites EXCEPT ![v] = decided]
        /\ ~HasMembership(draft[c].org, draft[c].identity)
        /\ fresh' = StillFresh(v) /\ Return(c)
        /\ UNCHANGED <<orgs, expired>>
    BY DEF AcceptCommit, MembershipTaken
  <1> HIDE DEF v, row, decided
  <1>8. /\ members' \in [Memberships -> Membership \cup {None}]
        /\ members'[m] = row /\ row # None
        /\ \A n \in Memberships \ {m} : members'[n] = members[n]
    BY <1>5, <1>6, Inserted DEF IInv
  <1>9. /\ invites' \in [Invitations -> Invitation \cup {None}]
        /\ invites'[v] = decided /\ decided # None
        /\ \A w \in Invitations \ {v} : invites'[w] = invites[w]
    BY <1>2, <1>4, <1>7, NoRowAssumption DEF IInv, TypeOK
  <1>10. CallTypes' /\ CallOK(c)' /\ \A q \in Calls \ {c} : SameCall(q)
    BY <1>7, Returned DEF IInv
  <1>11. TypeOK'
    BY <1>2, <1>6, <1>7, <1>8, <1>9, <1>10
       DEF IInv, TypeOK, CallTypes, Fact, Facts, FactKinds, StillFresh
  <1>12. KeepsRows
    BY <1>2, <1>4, <1>6, <1>8, <1>9 DEF KeepsRows
  <1>13. OneRowEach'
    BY <1>4, <1>5, <1>7, <1>8, <1>9
       DEF IInv, RowsInv, OneRowEach, HasMembership, Of
  <1>14. RowsOfOrgs'
    BY <1>2, <1>4, <1>5, <1>7, <1>8, <1>9 DEF IInv, RowsInv, RowsOfOrgs
  <1>15. OwnersActive'
    BY <1>5, <1>8 DEF IInv, RowsInv, OwnersActive
  <1>16. OrganizationHasOwner'
    BY <1>7, <1>12, OwnerStays DEF IInv, RowsInv, OrganizationHasOwner
  <1>17. AcceptedIsMember'
    <2>1. \A o, x : HasMembership(o, x) => HasMembership(o, x)'
      BY <1>12 DEF HasMembership, Of, KeepsRows
    <2>2. \A o, x : Of(row, o, x) => HasMembership(o, x)'
      BY <1>8 DEF HasMembership, Of
    <2>3. \A w \in Invitations \ {v} :
            Of(invites[w], draft[c].org, draft[c].identity) =>
              invites[w].status # "accepted"
      BY <1>7 DEF IInv, RowsInv, AcceptedIsMember, Of
    <2>4. ASSUME NEW w \in Invitations,
                 invites'[w] # None, invites'[w].status = "accepted"
          PROVE  /\ HasMembership(invites[w].org, invites[w].identity)'
                 /\ \A u \in Invitations \ {w} :
                      Of(invites'[u], invites'[w].org, invites'[w].identity) =>
                        invites'[u].status # "accepted"
      <3>1. CASE w = v
        <4>1. HasMembership(invites[w].org, invites[w].identity)'
          BY <1>2, <1>4, <1>5, <1>8, <1>9, <2>2, <3>1 DEF Of
        <4> QED
          BY <1>2, <1>4, <1>9, <2>3, <3>1, <4>1
      <3>2. CASE w # v
        <4>1. invites'[w] = invites[w]
          BY <1>9, <3>2
        <4>2. HasMembership(invites[w].org, invites[w].identity)
          BY <2>4, <4>1 DEF IInv, RowsInv, AcceptedIsMember
        <4>3. HasMembership(invites[w].org, invites[w].identity)'
          BY <2>1, <4>1, <4>2
        <4>4. ~Of(decided, invites[w].org, invites[w].identity)
          BY <1>4, <1>7, <4>2 DEF Of
        <4> QED
          BY <1>9, <2>4, <4>1, <4>3, <4>4
             DEF IInv, RowsInv, AcceptedIsMember
      <3> QED
        BY <3>1, <3>2
    <2> QED
      BY <2>4 DEF AcceptedIsMember
  <1>18. FactsTellRows'
    BY <1>2, <1>3, <1>4, <1>5, <1>6, <1>8, <1>9
       DEF IInv, RowsInv, FactsTellRows, Fact
  <1>19. CallsOK'
    <2>1. OthersKept(c)
      BY <1>6, <1>7, <1>8, <1>9, <1>10 DEF OthersKept, KeepsLoad, StillFresh
    <2> QED
      BY <1>10, <1>12, <2>1, CallsKept DEF IInv
  <1> QED
    BY <1>11, <1>12, <1>13, <1>14, <1>15, <1>16, <1>17, <1>18, <1>19
       DEF StepOK, IInv, RowsInv

-----------------------------------------------------------------------------
(* The theorems.                                                           *)

(* Initially there is no row, no fact and no call. *)
LEMMA InitOK == Init => IInv
  BY DEF Init, IInv, TypeOK, RowsInv, OneRowEach, RowsOfOrgs, OwnersActive,
     OrganizationHasOwner, AcceptedIsMember, FactsTellRows, CallsOK, CallOK,
     ManagerCall, MembershipCall, InvitationCall, Commands, Stages

(* Every step keeps the invariant and the rows. *)
LEMMA StepKeeps == IInv /\ [Next]_vars => StepOK
  <1> SUFFICES ASSUME IInv, [Next]_vars PROVE StepOK
    OBVIOUS
  <1>1. ASSUME NEW o \in Orgs, NEW x \in Identities, CreateOrganization(o, x)
        PROVE  StepOK
    BY <1>1, CreateOrganizationOK
  <1>2. ASSUME NEW v \in Invitations, InvitationExpires(v) PROVE StepOK
    BY <1>2, InvitationExpiresOK
  <1>3. ASSUME NEW c \in Calls, Manage(c) PROVE StepOK
    BY <1>3, AuthoriseOK, AddCheckOK, AddCommitOK, ChangeRoleLoadOK,
       RevokeLoadOK, MembershipCommitOK, InviteCheckOK, InviteFindOK,
       InviteCommitOK, RevokeInvitationLoadOK, RevokeInvitationCommitOK
       DEF Manage
  <1>4. ASSUME NEW c \in Calls, AcceptInvitation(c) PROVE StepOK
    BY <1>4, AcceptLoadOK, AcceptCheckOK, AcceptCommitOK DEF AcceptInvitation
  <1>5. ASSUME NEW c \in Calls, CallFails(c) PROVE StepOK
    BY <1>5, CallFailsOK
  <1>6. CASE UNCHANGED vars
    <2>1. KeepsRows /\ RowsInv'
      BY <1>6, RowsUnchanged DEF IInv, vars
    <2>2. TypeOK'
      BY <1>6 DEF IInv, TypeOK, vars, rows, callVars
    <2>3. \A q \in Calls : SameCall(q) /\ KeepsLoad(q)
      BY <1>6 DEF vars, rows, callVars, SameCall, KeepsLoad
    <2>4. CallsOK'
      BY <2>1, <2>3, CallKept DEF IInv, CallsOK
    <2> QED
      BY <2>1, <2>2, <2>4 DEF StepOK, IInv
  <1> QED
    BY <1>1, <1>2, <1>3, <1>4, <1>5, <1>6 DEF Next

(* The rows, the facts and the calls under way agree, whatever the calls and
   however their reads and commits interleave. *)
THEOREM OrganizationInvariant == Spec => []IInv
  <1>1. IInv /\ [Next]_vars => IInv'
    BY StepKeeps DEF StepOK
  <1> QED
    BY InitOK, <1>1, PTL DEF Spec

(* Type correctness. *)
THEOREM OrganizationTypes == Spec => []TypeOK
  <1>1. IInv => TypeOK
    BY DEF IInv
  <1> QED
    BY <1>1, OrganizationInvariant, PTL

(* A management command writes with the authority it has read: the actor is
   still an active owner of the organization of the row. *)
THEOREM AuthorityHolds == Spec => []AuthorityNeverStale
  <1>1. IInv => AuthorityNeverStale
    BY DEF IInv, CallsOK, CallOK, ManagerCall, AuthorityNeverStale, Commands
  <1> QED
    BY <1>1, OrganizationInvariant, PTL

(* An owner is never revoked or demoted. *)
THEOREM OwnersLocked == Spec => OwnersAreLocked
  <1> DEFINE A == \A m \in Memberships :
                    members[m] # None /\ members[m].role = "owner" =>
                      members'[m] = members[m]
  <1>1. IInv /\ [Next]_vars => [A]_vars
    BY StepKeeps DEF StepOK, KeepsRows
  <1> QED
    BY <1>1, OrganizationInvariant, PTL DEF Spec, OwnersAreLocked

(* A revoked identity does not become a member again by any path. *)
THEOREM RevocationIsFinal == Spec => RevokedStaysOut
  <1> DEFINE A == \A o \in Orgs, x \in Identities :
                    Revoked(o, x) => ~ActiveMember(o, x)'
  <1>1. IInv /\ [Next]_vars => [A]_vars
    <2> SUFFICES ASSUME IInv, [Next]_vars, NEW o \in Orgs, NEW x \in Identities,
                        Revoked(o, x)
                 PROVE  ~ActiveMember(o, x)'
      OBVIOUS
    <2>1. PICK m \in Memberships :
            Of(members[m], o, x) /\ members[m].status = "revoked"
      BY DEF Revoked
    <2>2. Of(members'[m], o, x) /\ members'[m].status = "revoked"
      BY <2>1, StepKeeps DEF StepOK, KeepsRows, Of
    <2>3. OneRowEach'
      BY StepKeeps DEF StepOK, IInv, RowsInv
    <2> QED
      BY <2>2, <2>3 DEF ActiveMember, OneRowEach, Of
  <1> QED
    BY <1>1, OrganizationInvariant, PTL DEF Spec, RevokedStaysOut

=============================================================================
