--------------------------- MODULE EnterpriseUsers ---------------------------
(***************************************************************************)
(* EnterpriseUserService: inviting people, and changing the role, the      *)
(* scopes and the standing of members.                                     *)
(***************************************************************************)
EXTENDS EnterpriseInvitations

Callers == People \cup {Platform}
UserAdmin(c) == assertPermission(c, "USERS_MANAGE")

assertCanGrantRole(c, role) ==
    role \in PORTAL_ROLES /\ role \in assignableRolesFor(getEnterpriseRole(c))

normaliseScopes(role, scopes) == IF acceptsScopes(role) THEN scopes ELSE {}
assertScopeSatisfiesRole(role, scopes) == isUnrestricted(role) \/ scopes # {}
assertScopeTargetsExist(scopes) == \A scope \in scopes : ScopeExists(scope)

assertScopesWithinCallerReach_NotAsked(c, scopes) == TRUE

\* Nobody may hand out access they do not themselves hold.
assertScopesWithinCallerReach(c, scopes) == resolveAll(scopes) \subseteq getAllowedSiteIds(c)

OtherSuperAdmins_AnyStanding(p) == {q \in People \ {p} : member[q].role = "SUPER_ADMIN"}

OtherSuperAdmins(p) ==
    {q \in People \ {p} : member[q].role = "SUPER_ADMIN" /\ users[q].active}

\* Refuses to take the role away from the final active Super Admin.
assertNotLastSuperAdmin(p, newRole) ==
    ShownRole(p) = "SUPER_ADMIN" /\ newRole # "SUPER_ADMIN" => OtherSuperAdmins(p) # {}

-----------------------------------------------------------------------------
(* The user listing works reach out for everybody at once. *)

scopeSiteIndex ==
    [scope \in UserScope |->
        CASE scope[1] = "ENTERPRISE" -> KnownSites
          [] scope[1] = "GROUP" -> {x \in Sites : place[x] = scope[2]}
          [] scope[1] = "SITE" -> {scope[2]} \cap KnownSites]

reachFrom_RoleFirst(role, has, fallback) ==
    IF isUnrestricted(role) THEN KnownSites
    ELSE IF has = {} THEN fallback
    ELSE UNION {scopeSiteIndex[scope] : scope \in has}

reachFrom(role, has, fallback) ==
    IF isUnrestricted(role) /\ ~(acceptsScopes(role) /\ has # {}) THEN KnownSites
    ELSE IF has = {} THEN fallback
    ELSE UNION {scopeSiteIndex[scope] : scope \in has}

ListedReach(p) == reachFrom(ShownRole(p), grants[p], {x \in Sites : access[p][x] # Null})

-----------------------------------------------------------------------------
(* Inviting *)

issueInvite(s, c, p, role, scopes, siteFor) ==
    /\ assertScopeTargetsExist(scopes)
    /\ IssueChecked(p)
    /\ \E i \in IssueTarget(p) :
           Ask(s, c, Issuing(i, p, role, scopes, siteFor, c))

inviteUser(s, c, p, role, scopes, siteFor) ==
    /\ UserAdmin(c)
    /\ assertCanGrantRole(c, role)
    /\ assertScopeSatisfiesRole(role, scopes)
    /\ assertScopesWithinCallerReach(c, scopes)
    /\ issueInvite(s, c, p, role, scopes, siteFor)

\* The platform administrator's form is checked for its targets only.
inviteUserForOrganisation(s, p, role, scopes, siteFor) ==
    issueInvite(s, Platform, p, role, scopes, siteFor)

assertEmailIsNew(p) == ~users[p].exists /\ Pending(p) = {}

\* By the roles in the caller's token.
assertCanInviteSiteUser(c, site) ==
    c \in People =>
        /\ claims[c] # Null
        /\ \/ claims[c].orgRole = "SUPER_ADMIN"
           \/ claims[c].siteRole = "SITE_ADMIN" /\ claims[c].site = site

inviteSiteUser(s, c, p, site) ==
    /\ sites[site] # Null
    /\ assertCanInviteSiteUser(c, site)
    /\ assertEmailIsNew(p)
    /\ issueInvite(s, c, p, "SITE_USER", {<<"SITE", site>>}, Null)

resendInvitation(s, c, i) ==
    UserAdmin(c) /\ Resendable(i) /\ Ask(s, c, Resending(i, c))

revokeInvitation(s, c, i) ==
    UserAdmin(c) /\ Resendable(i) /\ Ask(s, c, Revoking(i, c))

\* Without a pending invitation it is issued anew, which IssueChecked always
\* refuses for a member.
resendInviteForUser(s, c, p) ==
    /\ UserAdmin(c) /\ IsMember(p)
    /\ \E i \in Pending(p) : Ask(s, c, Resending(i, c))

-----------------------------------------------------------------------------
(* Members *)

OrgRoleOf(role) == IF role = "SUPER_ADMIN" THEN "SUPER_ADMIN" ELSE "ORG_MEMBER"

UpdateUserStart(s, c, p, role) ==
    /\ UserAdmin(c) /\ IsMember(p)
    /\ assertCanGrantRole(c, role)
    /\ assertNotLastSuperAdmin(p, role)
    /\ Ask(s, c, [op |-> "updateUser", who |-> p, role |-> role, by |-> c])

UpdateUser(s) ==
    /\ Writes(s, "updateUser")
    /\ LET w == call[s] IN
        /\ member' = [member EXCEPT ![w.who] = [orgRole |-> OrgRoleOf(w.role), role |-> w.role]]
        /\ grants' = [grants EXCEPT ![w.who] = IF isUnrestricted(w.role) THEN {} ELSE @]
    /\ Done(s)
    /\ UNCHANGED <<users, elsewhere, access, sites, groups, place, history, invites, codes, claims>>

\* The platform administrator gives a member a role over the whole enterprise.
SetRoleStart(s, p, role, ss) ==
    LET scopes == IF acceptsScopes(role) THEN {"SITE"} \X ss ELSE {} IN
    /\ isUnrestricted(role) /\ IsMember(p)
    /\ ss \subseteq KnownSites
    /\ ~(ShownRole(p) = role /\ grants[p] = scopes)
    /\ ShownRole(p) # role => assertNotLastSuperAdmin(p, role)
    /\ Ask(s, Platform,
           [op |-> "setRole", who |-> p, role |-> role, scopes |-> scopes, by |-> Platform])

SetRole(s) ==
    /\ Writes(s, "setRole")
    /\ LET w == call[s] IN
        /\ member' = [member EXCEPT ![w.who] = [orgRole |-> OrgRoleOf(w.role), role |-> w.role]]
        /\ grants' = [grants EXCEPT ![w.who] = w.scopes]
    /\ Done(s)
    /\ UNCHANGED <<users, elsewhere, access, sites, groups, place, history, invites, codes, claims>>

SetScopesStart(s, c, p, scopes) ==
    /\ UserAdmin(c) /\ IsMember(p)
    /\ acceptsScopes(ShownRole(p))
    /\ assertScopeSatisfiesRole(ShownRole(p), scopes)
    /\ assertScopesWithinCallerReach(c, scopes)
    /\ assertScopeTargetsExist(scopes)
    /\ Ask(s, c, [op |-> "setScopes", who |-> p, scopes |-> scopes, by |-> c])

SetScopes(s) ==
    /\ Writes(s, "setScopes")
    /\ grants' = [grants EXCEPT ![call[s].who] = call[s].scopes]
    /\ Done(s)
    /\ UNCHANGED <<users, member, elsewhere, access, sites, groups, place, history, invites, codes, claims>>

SetActiveStart(s, c, p, on) ==
    /\ UserAdmin(c) /\ IsMember(p)
    /\ ~on => assertNotLastSuperAdmin(p, Null)
    /\ Ask(s, c, [op |-> "setActive", who |-> p, on |-> on, by |-> c])

SetActive(s) ==
    /\ Writes(s, "setActive")
    /\ users' = [users EXCEPT ![call[s].who].active = call[s].on]
    /\ Done(s)
    /\ UNCHANGED <<member, elsewhere, grants, access, sites, groups, place, history, invites, codes, claims>>
=============================================================================
