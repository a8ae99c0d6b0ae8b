------------------------- MODULE MCEnterprisePortal -------------------------
(* Small instances of EnterprisePortal: three people, two sites, a group,   *)
(* and the contract they are billed by.                                     *)
EXTENDS EnterprisePortal

CONSTANTS a, b, c, s1, s2, g1, i1, i2

MCPeople == {a, b, c}
MCSites == {s1, s2}
MCGroups == {g1}
MCInvites == {i1, i2}

Nobody == [p \in People |-> NoMember]
NoGrants == [p \in People |-> {}]
NoAccess == [p \in People |-> [x \in Sites |-> Null]]
NoInvites == [i \in Invites |-> NoInvite]
Owner == [orgRole |-> "SUPER_ADMIN", role |-> Null]
As(r) == [orgRole |-> IF r = "SUPER_ADMIN" THEN r ELSE "ORG_MEMBER", role |-> r]
Both == [x \in Sites |-> "active"]
OneGroup == [g \in Groups |-> "active"]
S1InG1 == [x \in Sites |-> IF x = s1 THEN g1 ELSE Null]

\* Just provisioned.
Fresh ==
    Situation(Nobody, NoGrants, NoAccess, [x \in Sites |-> Null], [g \in Groups |-> Null],
              [x \in Sites |-> Null], [NoInvites EXCEPT ![i1] = ProvisionedInvite(a)])

\* Run by its owner since before the portal had roles.
Owned ==
    Situation([Nobody EXCEPT ![a] = Owner], NoGrants, [NoAccess EXCEPT ![a][s1] = "SITE_ADMIN"],
              Both, OneGroup, S1InG1, NoInvites)

\* With administrators of a group and of a site; with a viewer limited to a site.
Administered ==
    Situation([Nobody EXCEPT ![a] = As("SUPER_ADMIN"), ![b] = As("GROUP_ADMIN"), ![c] = As("SITE_ADMIN")],
              [NoGrants EXCEPT ![b] = {<<"GROUP", g1>>}, ![c] = {<<"SITE", s1>>}],
              [NoAccess EXCEPT ![c][s1] = "SITE_ADMIN"], Both, OneGroup, S1InG1, NoInvites)
Viewed ==
    [Administered EXCEPT !.member[c] = As("ENTERPRISE_ADMIN"), !.grants[c] = {<<"SITE", s2>>},
                         !.access = NoAccess]

\* A group administrator, and an address nobody has registered.
Hiring ==
    [Administered EXCEPT !.member[c] = NoMember, !.grants[c] = {}, !.access = NoAccess]

\* The same with two invitations for that address, the first one revoked.
Invited(p) == [ProvisionedInvite(p) EXCEPT !.role = "SITE_ADMIN", !.scopes = {<<"SITE", s1>>}]
Asked ==
    [Hiring EXCEPT !.invites = [NoInvites EXCEPT ![i1] = [Invited(c) EXCEPT !.status = "REVOKED"],
                                                 ![i2] = Invited(c)]]

\* The owner again, with one site and no group yet.
Growing ==
    [Owned EXCEPT !.sites[s2] = Null, !.groups[g1] = Null, !.place[s1] = Null]

Start(situation, services, n) == [situation |-> situation, services |-> services, requests |-> n]

MCInvitedRoles == {"SUPER_ADMIN", "ENTERPRISE_ADMIN", "SITE_ADMIN", "SITE_USER"}
\* Out of the reach of the group administrator who invites.
MCInvitedSites == {s2}
MCFrequencies == {"MONTHLY", "QUARTERLY"}

MCStarts ==
    {Start(Fresh, {"invitations", "platform"}, 4),
     Start(Fresh, {"accounts", "invitations"}, 5),
     Start(Owned, {"accounts", "invitations", "platform"}, 2),
     Start(Owned, {"inviting", "invitations", "users"}, 2),
     Start(Owned, {"sites", "users"}, 3),
     Start(Hiring, {"inviting", "invitations", "users"}, 3),
     Start(Asked, {"invitations", "sites"}, 3),
     Start(Growing, {"sites", "structure"}, 4),
     Start(Administered, {"users", "structure"}, 4),
     Start(Viewed, {"users", "structure"}, 4),
     Start(Administered, {"sites", "users", "platform"}, 3),
     Start(Administered, {"sites", "structure"}, 4),
     Start(Viewed, {"accounts", "sites"}, 3),
     Start(Owned, {"billing"}, 3)}

MCBilled == {Start(Owned, {"billing"}, 3)}

\* For two requests at a time.
TwoAdmins == [Owned EXCEPT !.member[a] = As("SUPER_ADMIN"), !.member[b] = As("SUPER_ADMIN")]

MCRaces ==
    {Start(TwoAdmins, {"users"}, 2),
     Start(Administered, {"structure"}, 3),
     Start(Asked, {"invitations"}, 3)}
=============================================================================
