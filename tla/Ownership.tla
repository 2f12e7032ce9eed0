------------------------------ MODULE Ownership ------------------------------
(***************************************************************************)
(* organization-service: the members of one organization and its owner.    *)
(* CreateOrganization stores the organization and then the membership of   *)
(* its founder.  AddMember, RemoveMember and TransferOwnership read the    *)
(* organization, read the membership of the user they are about, and then  *)
(* write, by id, what was right when they read it.  A user who accepts an  *)
(* invitation becomes a member in auth-service, in one transaction.        *)
(*                                                                         *)
(* Requests come again when they are over.  DeleteOrganization is not      *)
(* wired to a route.                                                       *)
(***************************************************************************)
EXTENDS Integers, FiniteSets

CONSTANTS
    User, Founder,
    MemberRequest,     \* requests that may be at work at one time
    maxMembersPerOrg,
    MaxInvitations,    \* bound: invitations that are accepted
    MaxMemberWrites    \* bound: requests that reach their write

ASSUME OwnershipAssumption ==
    /\ IsFiniteSet(User) /\ Founder \in User /\ IsFiniteSet(MemberRequest)
    /\ maxMembersPerOrg \in Nat \ {0}
    /\ MaxInvitations \in Nat /\ MaxMemberWrites \in Nat

VARIABLES
    owner,        \* ownerId
    founding,     \* whether CreateOrganization has still to store the founder's membership
    members,      \* the users whose row has no removedAt
    former,       \* those whose row has one
    invited,      \* invitations accepted so far
    memberAt,     \* where each request is
    about,        \* [MemberRequest -> User]  the user it is about; Founder at rest
    overtaken,    \* the requests at work while another removed a member or set the owner
    memberWrites

organization == <<owner, founding, members, former, invited>>
ownershipVars == <<organization, memberAt, about, overtaken, memberWrites>>

MemberStop == {"start", "count", "absent?", "add", "removable?", "remove", "eligible?", "transfer"}

OwnershipInit ==
    /\ owner = Founder /\ founding = TRUE
    /\ members = {} /\ former = {} /\ invited = 0
    /\ memberAt = [r \in MemberRequest |-> "start"]
    /\ about = [r \in MemberRequest |-> Founder]
    /\ overtaken = {} /\ memberWrites = 0

MemberTo(r, stop) == memberAt' = [memberAt EXCEPT ![r] = stop]
Forget(r) == MemberTo(r, "start") /\ about' = [about EXCEPT ![r] = Founder]
AtWork == {r \in MemberRequest : memberAt[r] # "start"}

(* CreateOrganization: memberRepo.create; it may throw, or the process die. *)
FounderJoins ==
    /\ founding /\ founding' = FALSE
    /\ \/ members' = members \cup ({Founder} \ former)
       \/ UNCHANGED members
    /\ UNCHANGED <<owner, former, invited, memberAt, about, overtaken, memberWrites>>

(* MUTANT: the owner may remove himself. *)
BeginWithSelf(r, u) ==
    /\ memberAt[r] = "start"
    /\ about' = [about EXCEPT ![r] = u]
    /\ \E stop \in {"count", "removable?", "eligible?"} : MemberTo(r, stop)
    /\ UNCHANGED <<organization, overtaken, memberWrites>>

(* findById: the one who asks is the owner, and removes or appoints another. *)
Begin(r, u) ==
    /\ memberAt[r] = "start"
    /\ about' = [about EXCEPT ![r] = u]
    /\ \/ MemberTo(r, "count")
       \/ u # owner /\ \E stop \in {"removable?", "eligible?"} : MemberTo(r, stop)
    /\ UNCHANGED <<organization, overtaken, memberWrites>>

(* AddMember: countActiveByOrg. *)
CountMembers(r) ==
    /\ memberAt[r] = "count"
    /\ Cardinality(members) < maxMembersPerOrg
    /\ MemberTo(r, "absent?")
    /\ UNCHANGED <<organization, about, overtaken, memberWrites>>

(* findByOrgAndUser. *)
CheckMember(r) ==
    /\ \/ memberAt[r] = "absent?" /\ about[r] \notin members /\ MemberTo(r, "add")
       \/ memberAt[r] = "removable?" /\ about[r] \in members /\ MemberTo(r, "remove")
       \/ memberAt[r] = "eligible?" /\ about[r] \in members /\ MemberTo(r, "transfer")
    /\ UNCHANGED <<organization, about, overtaken, memberWrites>>

EndRequest(r) ==
    /\ memberWrites < MaxMemberWrites /\ memberWrites' = memberWrites + 1
    /\ Forget(r)
    /\ UNCHANGED <<founding, invited>>

(* create: the row of a user is unique, a former member's too. *)
AddMember(r) ==
    /\ memberAt[r] = "add"
    /\ members' = members \cup ({about[r]} \ former)
    /\ overtaken' = overtaken \ {r}
    /\ EndRequest(r)
    /\ UNCHANGED <<owner, former>>

(* remove: updateMany where removedAt is null. *)
RemoveMember(r) ==
    /\ memberAt[r] = "remove"
    /\ members' = members \ {about[r]}
    /\ former' = former \cup (members \cap {about[r]})
    /\ overtaken' = AtWork \ {r}
    /\ EndRequest(r)
    /\ UNCHANGED owner

SetOwner(r) ==
    /\ memberAt[r] = "transfer"
    /\ owner' = about[r]
    /\ overtaken' = AtWork \ {r}
    /\ EndRequest(r)
    /\ UNCHANGED <<members, former>>

(* It is refused, a call throws (setOwner also for one who owns another    *)
(* organization), or the process dies.                                     *)
GiveUpRequest(r) ==
    /\ memberAt[r] # "start"
    /\ Forget(r)
    /\ overtaken' = overtaken \ {r}
    /\ UNCHANGED <<organization, memberWrites>>

(* acceptInvite: upsert. *)
AcceptInvite(u) ==
    /\ invited < MaxInvitations /\ invited' = invited + 1
    /\ members' = members \cup {u}
    /\ former' = former \ {u}
    /\ UNCHANGED <<owner, founding, memberAt, about, overtaken, memberWrites>>

MemberStep(r) ==
    \/ \E u \in User : Begin(r, u)
    \/ CountMembers(r) \/ CheckMember(r)
    \/ AddMember(r) \/ RemoveMember(r) \/ SetOwner(r)
    \/ GiveUpRequest(r)

OwnershipNext ==
    \/ FounderJoins
    \/ \E r \in MemberRequest : MemberStep(r)
    \/ \E u \in User : AcceptInvite(u)

OwnershipSpec == OwnershipInit /\ [][OwnershipNext]_ownershipVars

-----------------------------------------------------------------------------
OwnershipTypeOK ==
    /\ owner \in User /\ founding \in BOOLEAN
    /\ members \subseteq User /\ former \subseteq User /\ members \cap former = {}
    /\ invited \in 0 .. MaxInvitations
    /\ memberAt \in [MemberRequest -> MemberStop]
    /\ about \in [MemberRequest -> User]
    /\ overtaken \subseteq AtWork
    /\ memberWrites \in 0 .. MaxMemberWrites

(* What the two rules of membership may break, in any step.                *)
Orphaned == owner \in members /\ owner' \notin members'
ByOvertaken ==
    \E r \in overtaken : memberAt[r] \in {"remove", "transfer"} /\ memberAt'[r] = "start"
WithinLimit ==
    Cardinality(members) <= maxMembersPerOrg + Cardinality(MemberRequest) + invited

(* An owner who is a member stays one, and gives ownership only to one,    *)
(* unless the request that ends it was at work while another changed the   *)
(* owner or removed a member: each of the checks is needed, and none is    *)
(* wrong but by the time it is used.  Additions that overlap pass the      *)
(* limit of members by no more than their number; only the founder and     *)
(* accepted invitations are not held to it (TransferOwnership.ts:21-44,    *)
(* RemoveMember.ts:22-48, AddMember.ts:44-64).                             *)
MembershipKept == [][WithinLimit' /\ (Orphaned => ByOvertaken)]_ownershipVars
=============================================================================
