----------------------------- MODULE SiteAccess -----------------------------
(***************************************************************************)
(* SitesService: the sites of the enterprise and who may operate them.     *)
(* The caller's roles are those in the token.  The enterprise plan limits  *)
(* neither sites nor users; site codes and contacts are left out.          *)
(***************************************************************************)
EXTENDS Directory

\* actingAsOrgAdmin gives the platform administrator these roles.
Token(c) ==
    IF c = Platform
    THEN [orgRole |-> "SUPER_ADMIN", role |-> "SUPER_ADMIN", site |-> Null, siteRole |-> Null]
    ELSE claims[c]

HasToken(c) == c \in People => claims[c] # Null

assertSuperAdmin(c) == HasToken(c) /\ Token(c).orgRole = "SUPER_ADMIN"

assertCanManageSites(c) ==
    HasToken(c) /\ (Token(c).orgRole = "SUPER_ADMIN" \/ Token(c).role = "SUPER_ADMIN")

assertNotViewOnly(c) == HasToken(c) /\ ~isViewOnlyRole(Token(c).role)

isEnterpriseWide(c) ==
    \/ assertCanManageSites(c)
    \/ HasToken(c) /\ isViewOnlyRole(Token(c).role)
       /\ (grants[c] = {} \/ <<"ENTERPRISE", Null>> \in grants[c])

assignedSiteIds(c) ==
    {x \in Sites :
        \/ Token(c).site = x \/ access[c][x] # Null \/ <<"SITE", x>> \in grants[c]
        \/ isViewOnlyRole(Token(c).role) /\ x \in resolveAll(grants[c])}

assertSiteAccess(c, x) == ~isEnterpriseWide(c) => HasToken(c) /\ x \in assignedSiteIds(c)

assertCanEditSite(c, x) == ~assertCanManageSites(c) => assertNotViewOnly(c) /\ assertSiteAccess(c, x)

assertStructureTargets(g) == g # Null => groups[g] \in {"active", "inactive"}

-----------------------------------------------------------------------------
(* Sites *)

CreateSiteStart(s, c, x, g) ==
    /\ assertCanManageSites(c)
    /\ sites[x] = Null
    /\ assertStructureTargets(g)
    /\ Ask(s, c, [op |-> "createSite", x |-> x, g |-> g, by |-> c])

CreateSite(s) ==
    /\ Writes(s, "createSite")
    /\ sites' = [sites EXCEPT ![call[s].x] = "active"]
    /\ place' = [place EXCEPT ![call[s].x] = call[s].g]
    /\ Done(s)
    /\ UNCHANGED <<users, member, elsewhere, grants, access, groups, history, invites, codes, claims>>

\* The site is put into a group, active or not, or left out of its group.
UpdateSiteStart(s, c, x, g) ==
    /\ assertCanEditSite(c, x)
    /\ sites[x] # Null
    /\ assertStructureTargets(g)
    /\ Ask(s, c, [op |-> "updateSite", x |-> x, g |-> g, by |-> c])

UpdateSite(s) ==
    /\ Writes(s, "updateSite")
    /\ place' = [place EXCEPT ![call[s].x] = call[s].g]
    /\ Done(s)
    /\ UNCHANGED <<users, member, elsewhere, grants, access, sites, groups, history, invites, codes, claims>>

Operators(x) == {p \in People : access[p][x] # Null}
OperatesNothing(p, held) == \A x \in Sites : held[p][x] = Null

DeleteSiteStart(s, c, x) ==
    /\ c # Platform /\ assertSuperAdmin(c)
    /\ sites[x] = "active"
    /\ Ask(s, c, [op |-> "deleteSite", x |-> x, whom |-> Operators(x), by |-> c])

\* Whoever operates no other site is deactivated with it.
DeleteSite(s) ==
    /\ Writes(s, "deleteSite")
    /\ sites' = [sites EXCEPT ![call[s].x] = "inactive"]
    /\ access' = [p \in People |-> [access[p] EXCEPT ![call[s].x] = Null]]
    /\ users' = [p \in People |->
            IF p \in call[s].whom /\ OperatesNothing(p, access')
            THEN [users[p] EXCEPT !.active = FALSE] ELSE users[p]]
    /\ Done(s)
    /\ UNCHANGED <<member, elsewhere, grants, groups, place, history, invites, codes, claims>>

-----------------------------------------------------------------------------
(* Operators of a site *)

\* An account of this organisation, made, or brought back, for the occasion.
OrgUser(p) == users[p].exists => IsMember(p)

AssignSiteManagerStart(s, c, p, x) ==
    /\ c # Platform /\ assertSuperAdmin(c)
    /\ access[p][x] = Null /\ sites[x] # Null
    /\ OrgUser(p)
    /\ Ask(s, c, [op |-> "operate", who |-> p, x |-> x, siteRole |-> "SITE_ADMIN", by |-> c])

AddStaffStart(s, c, p, x) ==
    /\ c # Platform /\ assertNotViewOnly(c) /\ assertSiteAccess(c, x)
    /\ sites[x] # Null
    /\ OrgUser(p)
    /\ Ask(s, c, [op |-> "operate", who |-> p, x |-> x, siteRole |-> "STAFF", by |-> c])

\* findOrCreateOrgUser, and the access.
Operate(s) ==
    /\ Writes(s, "operate")
    /\ LET w == call[s]  p == w.who IN
        /\ users' = [users EXCEPT ![p] = IF @.exists THEN [@ EXCEPT !.active = TRUE] ELSE ActiveUser]
        /\ member' = [member EXCEPT ![p] =
               IF IsMember(p) THEN @ ELSE [orgRole |-> "ORG_MEMBER", role |-> Null]]
        /\ access' = [access EXCEPT ![p][w.x] = w.siteRole]
    /\ Done(s)
    /\ UNCHANGED <<elsewhere, grants, sites, groups, place, history, invites, codes, claims>>

AssignExistingStart(s, c, p, x) ==
    /\ assertCanManageSites(c)
    /\ sites[x] # Null /\ IsMember(p)
    /\ Ask(s, c, [op |-> "assignExisting", who |-> p, x |-> x, role |-> member[p].role, by |-> c])

\* Three writes outside any transaction: the access, the scope and the role.
AssignExisting(s) ==
    /\ Writes(s, "assignExisting")
    /\ access' = [access EXCEPT ![call[s].who][call[s].x] = "SITE_ADMIN"]
    /\ call' = [call EXCEPT ![s].op = "grantExisting"]
    /\ UNCHANGED <<users, member, elsewhere, grants, sites, groups, place, history, invites, codes, claims, left, mix>>

GrantExisting(s) ==
    /\ Writes(s, "grantExisting")
    /\ grants' = [grants EXCEPT ![call[s].who] = @ \cup {<<"SITE", call[s].x>>}]
    /\ call' = [call EXCEPT ![s].op = "roleExisting"]
    /\ UNCHANGED <<users, member, elsewhere, access, sites, groups, place, history, invites, codes, claims, left, mix>>

\* A member who had no portal role becomes a site administrator, the owner too.
RoleExisting(s) ==
    /\ Writes(s, "roleExisting")
    /\ member' = [member EXCEPT ![call[s].who].role =
            IF call[s].role \in {Null, "SITE_USER"} THEN "SITE_ADMIN" ELSE @]
    /\ Done(s)
    /\ UNCHANGED <<users, elsewhere, grants, access, sites, groups, place, history, invites, codes, claims>>

RemoveAccessStart(s, c, p, x) ==
    /\ c # Platform /\ assertNotViewOnly(c) /\ assertSiteAccess(c, x)
    /\ access[p][x] # Null
    /\ access[p][x] = "SITE_ADMIN" => assertSuperAdmin(c)
    /\ Ask(s, c, [op |-> "removeAccess", who |-> p, x |-> x, by |-> c])

RemoveAccess(s) ==
    /\ Writes(s, "removeAccess")
    /\ access' = [access EXCEPT ![call[s].who][call[s].x] = Null]
    /\ call' = [call EXCEPT ![s].op = "countAccess"]
    /\ UNCHANGED <<users, member, elsewhere, grants, sites, groups, place, history, invites, codes, claims, left, mix>>

\* Counted after the row is gone, outside any transaction.
CountAccess(s) ==
    /\ Writes(s, "countAccess")
    /\ users' = [users EXCEPT ![call[s].who].active =
            IF OperatesNothing(call[s].who, access) THEN FALSE ELSE @]
    /\ Done(s)
    /\ UNCHANGED <<member, elsewhere, grants, access, sites, groups, place, history, invites, codes, claims>>
=============================================================================
