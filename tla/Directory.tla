----------------------------- MODULE Directory -----------------------------
(***************************************************************************)
(* What the database holds about one enterprise, and what the portal reads *)
(* off it: the role table of enterprise.permissions.ts and the reach of    *)
(* EnterpriseScopeService and enterprise-reach.ts.                         *)
(*                                                                         *)
(* A person stands for an address and for the account registered under it. *)
(* Groups, clusters and territories are handled by one piece of code with  *)
(* a dimension as parameter: one dimension, Groups, stands for all three.  *)
(* A request is two steps: it reads and checks, which leaves what it is    *)
(* about to write in call[s], and it writes.                               *)
(***************************************************************************)
EXTENDS Naturals, FiniteSets, FiniteSetsExt

CONSTANTS
    People, Sites, Groups,
    Invites,   \* bound: rows of enterprise_invitations
    Platform,  \* the platform administrator
    Starts,    \* bound: the situations a behaviour starts from, with the
               \* services it mixes and how many requests it makes
    Slots,     \* requests that may be in progress
    MaxBusy,   \* how many of them at a time
    Null

ASSUME DirectoryAssumption ==
    /\ MaxBusy \in Nat /\ IsFiniteSet(Slots)
    /\ Null \notin People \cup Sites \cup Groups \cup Invites \cup {Platform}
    /\ Null \notin {"SUPER_ADMIN", "ORG_MEMBER", "ENTERPRISE_ADMIN", "GROUP_ADMIN", "SITE_ADMIN",
                   "CLUSTER_ADMIN", "SITE_USER", "STAFF", "active", "inactive", "deleted",
                   "PENDING", "ACCEPTED", "REVOKED", "EXPIRED"}
    /\ Platform \notin People

VARIABLES
    users,     \* users: whether active, and the address verified
    member,    \* the membership of this organisation
    elsewhere, \* who has registered an organisation of their own
    grants,    \* user_scopes
    access,    \* site_access
    sites,     \* whether a site exists, and is active
    groups,    \* whether a group exists, and is active
    place,     \* group_sites
    history,   \* groups stamped on a listing or a claim
    invites,   \* enterprise_invitations
    codes,     \* who has been sent a code to verify the address
    claims,    \* the roles in the token a person holds
    call,      \* requests in progress
    left,      \* how many requests are to come
    mix        \* the services this behaviour mixes

rows == <<users, member, elsewhere, grants, access, sites, groups, place, history, invites>>
vars == <<rows, codes, claims, call, left, mix>>

OrgRole == {"SUPER_ADMIN", "ORG_MEMBER"}
EnterpriseRole ==
    {"SUPER_ADMIN", "ENTERPRISE_ADMIN", "GROUP_ADMIN", "SITE_ADMIN", "CLUSTER_ADMIN", "SITE_USER"}
SiteRole == {"SITE_ADMIN", "STAFF"}
InvitationStatus == {"PENDING", "ACCEPTED", "REVOKED", "EXPIRED"}

UserScope == ({"ENTERPRISE"} \X {Null}) \cup ({"GROUP"} \X Groups) \cup ({"SITE"} \X Sites)

NoUser == [exists |-> FALSE, active |-> FALSE, verified |-> FALSE]
ActiveUser == [exists |-> TRUE, active |-> TRUE, verified |-> TRUE]
NoMember == [orgRole |-> Null, role |-> Null]

User == [exists : BOOLEAN, active : BOOLEAN, verified : BOOLEAN]
Membership == [orgRole : OrgRole \cup {Null}, role : EnterpriseRole \cup {Null}]

\* link counts the links sent: only the newest matches the stored hash.
Invitation ==
    [status : InvitationStatus \cup {Null}, email : People \cup {Null},
     role : EnterpriseRole \cup {Null}, scopes : SUBSET UserScope, siteFor : Sites \cup {Null},
     link : Nat, lapsed : BOOLEAN]

NoInvite ==
    [status |-> Null, email |-> Null, role |-> Null, scopes |-> {}, siteFor |-> Null,
     link |-> 0, lapsed |-> FALSE]

-----------------------------------------------------------------------------
(* enterprise.permissions.ts *)

PORTAL_ROLES == {"SUPER_ADMIN", "ENTERPRISE_ADMIN", "GROUP_ADMIN", "SITE_ADMIN"}

permissionsFor(role) ==
    CASE role = "SUPER_ADMIN" ->
           {"STRUCTURE_CREATE", "STRUCTURE_DELETE", "STRUCTURE_MANAGE", "USERS_MANAGE"}
      [] role = "GROUP_ADMIN" -> {"STRUCTURE_MANAGE", "USERS_MANAGE"}
      [] OTHER -> {}

assignableRolesFor(role) ==
    CASE role = "SUPER_ADMIN" -> PORTAL_ROLES
      [] role = "GROUP_ADMIN" -> {"SITE_ADMIN"}
      [] OTHER -> {}

isUnrestricted(role) == role \in {"SUPER_ADMIN", "ENTERPRISE_ADMIN"}
acceptsScopes(role) == role \in EnterpriseRole \ {"SUPER_ADMIN"}
isViewOnlyRole(role) == role = "ENTERPRISE_ADMIN"

-----------------------------------------------------------------------------
(* enterprise-scope.service.ts, enterprise-reach.ts *)

IsMember(p) == member[p].orgRole # Null
KnownSites == {s \in Sites : sites[s] # Null}

ScopeExists(scope) ==
    \/ scope[1] = "ENTERPRISE"
    \/ scope[1] = "GROUP" /\ groups[scope[2]] \in {"active", "inactive"}
    \/ scope[1] = "SITE" /\ sites[scope[2]] # Null

\* The sites of a scope; none when its target is gone.
resolve(scope) ==
    {s \in KnownSites :
        /\ ScopeExists(scope)
        /\ scope[1] = "GROUP" => place[s] = scope[2]
        /\ scope[1] = "SITE" => s = scope[2]}

resolveAll(scopes) == UNION {resolve(scope) : scope \in scopes}

getEnterpriseRole(p) ==
    IF member[p].role = Null /\ member[p].orgRole = "SUPER_ADMIN"
    THEN "SUPER_ADMIN" ELSE member[p].role

\* Every site stands for "unrestricted"; an ENTERPRISE grant resolves to it.
getAllowedSiteIds(p) ==
    IF \/ getEnterpriseRole(p) = "SUPER_ADMIN"
       \/ isViewOnlyRole(getEnterpriseRole(p)) /\ grants[p] = {}
    THEN KnownSites
    ELSE IF grants[p] = {} THEN {s \in Sites : access[p][s] # Null}
    ELSE resolveAll(grants[p])

\* The shared filters of the reports: the sites in all of them, and in reach.
resolveFilters(p, filters) ==
    {x \in getAllowedSiteIds(p) : \A scope \in filters : x \in resolve(scope)}

assertPermission(p, permission) ==
    p \in People /\ IsMember(p) /\ permission \in permissionsFor(getEnterpriseRole(p))

assertSitesWithinReach(p, ss) == ss \subseteq getAllowedSiteIds(p)

\* The role the user service shows for a member without one.
ShownRole(p) ==
    IF member[p].role # Null THEN member[p].role
    ELSE IF member[p].orgRole = "SUPER_ADMIN" THEN "SUPER_ADMIN" ELSE "SITE_USER"

-----------------------------------------------------------------------------
(* Requests.  The token strategy refuses whoever is not an active user.    *)

SignedIn(p) == p \in People => claims[p] # Null /\ users[p].active

Idle == [op |-> "idle"]
Busy == {s \in Slots : call[s] # Idle}

Ready(s, service) ==
    /\ service \in mix
    /\ s \notin Busy /\ Cardinality(Busy) < MaxBusy
    /\ left > 0

\* A request of caller p has passed its checks and is about to write w.
Ask(s, p, w) ==
    /\ SignedIn(p)
    /\ call' = [call EXCEPT ![s] = w]
    /\ left' = left - 1
    /\ UNCHANGED <<rows, codes, claims, mix>>

Writes(s, op) == call[s].op = op
Done(s) == call' = [call EXCEPT ![s] = Idle] /\ UNCHANGED <<left, mix>>
=============================================================================
