------------------------- MODULE EnterpriseStructure -------------------------
(***************************************************************************)
(* EnterpriseStructureService: the groups sites are placed in.  Names,     *)
(* codes and descriptions are left out, and with them updateInOrg.         *)
(***************************************************************************)
EXTENDS Directory

GroupExists(g) == ScopeExists(<<"GROUP", g>>)

assertStructureWithinReach(c, g) == assertSitesWithinReach(c, resolve(<<"GROUP", g>>))

\* The platform administrator's requests carry no reach.
assertCanManage(c, g) ==
    GroupExists(g) /\ (c = Platform \/ (assertPermission(c, "STRUCTURE_MANAGE") /\ assertStructureWithinReach(c, g)))

CreateGroupStart(s, c, g) ==
    /\ c = Platform \/ assertPermission(c, "STRUCTURE_CREATE")
    /\ groups[g] = Null
    /\ Ask(s, c, [op |-> "createGroup", g |-> g, by |-> c])

CreateGroup(s) ==
    /\ Writes(s, "createGroup")
    /\ groups' = [groups EXCEPT ![call[s].g] = "active"]
    /\ Done(s)
    /\ UNCHANGED <<users, member, elsewhere, grants, access, sites, place, history, invites, codes, claims>>

GroupActiveStart(s, c, g, standing) ==
    /\ assertCanManage(c, g)
    /\ groups[g] # standing
    /\ Ask(s, c, [op |-> "groupActive", g |-> g, standing |-> standing, by |-> c])

GroupActive(s) ==
    /\ Writes(s, "groupActive")
    /\ groups' = [groups EXCEPT ![call[s].g] = call[s].standing]
    /\ Done(s)
    /\ UNCHANGED <<users, member, elsewhere, grants, access, sites, place, history, invites, codes, claims>>

assignedSites(g) == resolve(<<"GROUP", g>>)

\* Records that were stamped with the group when they were made.
countHistory(g) == IF g \in history THEN 1 ELSE 0

Deletable_HoldingNothing(g) == assignedSites(g) = {}

\* Permanent deletion, only ever where nothing depends on it.
Deletable(g) == countHistory(g) = 0 /\ assignedSites(g) = {}

RemoveGroupStart(s, c, g) ==
    /\ c = Platform \/ assertPermission(c, "STRUCTURE_DELETE")
    /\ GroupExists(g)
    /\ Deletable(g)
    /\ Ask(s, c, [op |-> "removeGroup", g |-> g, by |-> c])

\* The rows of group_sites go with the group; grants that name it stay.
RemoveGroup(s) ==
    /\ Writes(s, "removeGroup")
    /\ groups' = [groups EXCEPT ![call[s].g] = "deleted"]
    /\ place' = [x \in Sites |-> IF place[x] = call[s].g THEN Null ELSE place[x]]
    /\ Done(s)
    /\ UNCHANGED <<users, member, elsewhere, grants, access, sites, history, invites, codes, claims>>

AssignSitesStart(s, c, g, ss) ==
    /\ c # Platform /\ assertCanManage(c, g)
    /\ groups[g] = "active"
    /\ ss # {} /\ ss \subseteq KnownSites
    /\ assertSitesWithinReach(c, ss)
    /\ Ask(s, c, [op |-> "assignSites", g |-> g, ss |-> ss, by |-> c])

\* A site is in one group at most: assigning moves it.
upsertAssignment(ss, g) == place' = [x \in Sites |-> IF x \in ss THEN g ELSE place[x]]
deleteAssignment(x) == place' = [place EXCEPT ![x] = Null]

AssignSites(s) ==
    /\ Writes(s, "assignSites")
    /\ upsertAssignment(call[s].ss, call[s].g)
    /\ Done(s)
    /\ UNCHANGED <<users, member, elsewhere, grants, access, sites, groups, history, invites, codes, claims>>

UnassignSiteStart(s, c, x) ==
    /\ assertPermission(c, "STRUCTURE_MANAGE")
    /\ sites[x] # Null /\ place[x] # Null
    /\ assertSitesWithinReach(c, {x})
    /\ assertStructureWithinReach(c, place[x])
    /\ Ask(s, c, [op |-> "unassignSite", x |-> x, by |-> c])

UnassignSite(s) ==
    /\ Writes(s, "unassignSite")
    /\ deleteAssignment(call[s].x)
    /\ Done(s)
    /\ UNCHANGED <<users, member, elsewhere, grants, access, sites, groups, history, invites, codes, claims>>

-----------------------------------------------------------------------------
(* A listing or a claim of a site is stamped with the group it is in then. *)

SnapshotStart(s, x) ==
    /\ sites[x] = "active" /\ place[x] # Null
    /\ Ask(s, Platform, [op |-> "snapshot", g |-> place[x], by |-> x])

Snapshot(s) ==
    /\ Writes(s, "snapshot")
    /\ history' = history \cup {call[s].g}
    /\ Done(s)
    /\ UNCHANGED <<users, member, elsewhere, grants, access, sites, groups, place, invites, codes, claims>>
=============================================================================
