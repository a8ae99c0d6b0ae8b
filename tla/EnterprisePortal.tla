-------------------------- MODULE EnterprisePortal --------------------------
(***************************************************************************)
(* The enterprise portal: accounts, invitations, users, structure and      *)
(* sites over one directory.  A behaviour starts from one of Starts,       *)
(* with the services and the number of requests that go with it.           *)
(***************************************************************************)
EXTENDS EnterpriseUsers, EnterpriseStructure, SiteAccess, Accounts, EnterpriseBilling

CONSTANTS
    MaxScopes,    \* bound: scopes named in one request
    InvitedRoles, \* bound: roles people are invited to
    InvitedSites  \* bound: sites an invitation makes somebody operate

portal == <<vars, billing>>

\* A situation: the roles, grants and accesses of the members, and the rest.
Situation(members, has, operates, known, made, placed, invited) ==
    [member |-> members, grants |-> has, access |-> operates, sites |-> known,
     groups |-> made, place |-> placed, invites |-> invited]

\* References resolve, roles belong to members, and an invitation has had a link.
Sound(w) ==
    /\ w.member \in [People -> Membership]
    /\ w.grants \in [People -> SUBSET UserScope]
    /\ w.access \in [People -> [Sites -> SiteRole \cup {Null}]]
    /\ w.sites \in [Sites -> {"active", "inactive", Null}]
    /\ w.groups \in [Groups -> {"active", "inactive", "deleted", Null}]
    /\ w.place \in [Sites -> Groups \cup {Null}]
    /\ w.invites \in [Invites -> Invitation]
    /\ \A p \in People : w.member[p].role # Null => w.member[p].orgRole # Null
    /\ \A p \in People, x \in Sites : w.access[p][x] # Null => w.sites[x] # Null
    /\ \A x \in Sites : w.place[x] # Null =>
           w.sites[x] # Null /\ w.groups[w.place[x]] \in {"active", "inactive"}
    /\ \A i \in Invites :
           /\ w.invites[i].link = IF w.invites[i].status = Null THEN 0 ELSE 1
           /\ \A x \in Sites :
                  x = w.invites[i].siteFor \/ <<"SITE", x>> \in w.invites[i].scopes => w.sites[x] # Null

ASSUME PortalAssumption ==
    /\ InvitedRoles \subseteq EnterpriseRole
    /\ \A w \in Starts : Sound(w.situation)

\* What provisioning leaves: an invitation for the first Super Admin.
ProvisionedInvite(p) ==
    [status |-> "PENDING", email |-> p, role |-> "SUPER_ADMIN",
     scopes |-> {<<"ENTERPRISE", Null>>}, siteFor |-> Null, link |-> 1, lapsed |-> FALSE]

Begin(w) ==
    /\ member = w.member /\ grants = w.grants /\ access = w.access
    /\ sites = w.sites /\ groups = w.groups /\ place = w.place /\ invites = w.invites
    /\ users = [p \in People |-> IF w.member[p] = NoMember THEN NoUser ELSE ActiveUser]
    /\ claims \in {t \in [People -> UNION {generateTokens(p) : p \in People}] :
                       \A p \in People : t[p] \in generateTokens(p)}

PortalInit ==
    /\ \E w \in Starts : Begin(w.situation) /\ mix = w.services /\ left = w.requests
    /\ elsewhere = {} /\ history = {} /\ codes = {}
    /\ call = [s \in Slots |-> Idle]
    /\ BillingInit

Some(S) == {T \in SUBSET S : Cardinality(T) <= MaxScopes}

AccountSteps ==
    \E p \in People :
        \/ registerBusiness(p) \/ resendVerificationEmail(p) \/ CodeLapses(p)
        \/ login(p) \/ verifyEmail(p)

InvitationRequests(s) ==
    /\ Ready(s, "invitations")
    /\ \/ \E i \in Invites : AcceptStart(s, i)
       \/ \E c \in People, i \in Invites : resendInvitation(s, c, i) \/ revokeInvitation(s, c, i)
       \/ \E c, p \in People : resendInviteForUser(s, c, p)

InvitingRequests(s) ==
    /\ Ready(s, "inviting")
    /\ \/ \E c, p \in People, role \in InvitedRoles, scopes \in Some(UserScope), x \in (InvitedSites \cap KnownSites) \cup {Null} :
              inviteUser(s, c, p, role, normaliseScopes(role, scopes), x)
       \/ \E c \in Callers, p \in People, x \in Sites : inviteSiteUser(s, c, p, x)

PlatformRequests(s) ==
    /\ Ready(s, "platform")
    /\ \/ \E p \in People, role \in InvitedRoles, scopes \in Some(UserScope), x \in (InvitedSites \cap KnownSites) \cup {Null} :
              inviteUserForOrganisation(s, p, role, normaliseScopes(role, scopes), x)
       \/ \E p \in People, role \in PORTAL_ROLES, ss \in Some(KnownSites) : SetRoleStart(s, p, role, ss)

UserRequests(s) ==
    /\ Ready(s, "users")
    /\ \E c, p \in People :
        \/ \E role \in PORTAL_ROLES : UpdateUserStart(s, c, p, role)
        \/ \E scopes \in Some(UserScope) : SetScopesStart(s, c, p, scopes)
        \/ \E on \in BOOLEAN : SetActiveStart(s, c, p, on)

StructureRequests(s) ==
    /\ Ready(s, "structure")
    /\ \/ \E c \in Callers, g \in Groups :
           \/ CreateGroupStart(s, c, g) \/ RemoveGroupStart(s, c, g)
           \/ \E standing \in {"active", "inactive"} : GroupActiveStart(s, c, g, standing)
           \/ \E ss \in Some(KnownSites) : AssignSitesStart(s, c, g, ss)
       \/ \E c \in People, x \in Sites : UnassignSiteStart(s, c, x)
       \/ \E x \in Sites : SnapshotStart(s, x)

SiteRequests(s) ==
    /\ Ready(s, "sites")
    /\ \E c \in Callers, x \in Sites :
        \/ \E g \in Groups \cup {Null} : CreateSiteStart(s, c, x, g) \/ UpdateSiteStart(s, c, x, g)
        \/ DeleteSiteStart(s, c, x)
        \/ \E p \in People :
            \/ AssignSiteManagerStart(s, c, p, x) \/ AddStaffStart(s, c, p, x)
            \/ AssignExistingStart(s, c, p, x) \/ RemoveAccessStart(s, c, p, x)

\* Time, and those who open a link too late.
LinkSteps == \E i \in Invites : Lapse(i) \/ DescribeLapsed(i)

\* One field of a contract is changed at a time.
ContractChanges ==
    ({"status"} \X {"DRAFT", "ACTIVE", "EXPIRED", "TERMINATED"})
      \cup ({"frequency"} \X Frequencies) \cup ({"end"} \X Dates)

BillingRequests(s) ==
    /\ Ready(s, "billing")
    /\ \/ \E f \in Frequencies, start \in Dates, end \in Dates \cup {Null} : createContractStart(s, f, start, end)
       \/ \E change \in ContractChanges : updateContractStart(s, change[1], change[2])
       \/ \E from \in Dates \cup {Null} : generateInvoice(s, from)
       \/ \E d \in Dates : markInvoicePaidStart(s, d) \/ cancelInvoiceStart(s, d)

DailyJobs(s) == generateDueInvoices(s) \/ markOverdue(s) \/ expireLapsed(s)

BillingWrites(s) ==
    \/ createContract(s) \/ updateContract(s) \/ SettleInvoice(s)
    \/ RaiseStart(s) \/ NotActive(s) \/ ContractOver(s) \/ RaiseInvoice(s) \/ AlreadyInvoiced(s)

InvitationWrites(s) == Issue(s) \/ Resend(s) \/ Revoke(s) \/ Accept(s) \/ AcceptRefused(s)
UserWrites(s) == UpdateUser(s) \/ SetRole(s) \/ SetScopes(s) \/ SetActive(s)
StructureWrites(s) ==
    \/ CreateGroup(s) \/ GroupActive(s) \/ RemoveGroup(s)
    \/ AssignSites(s) \/ UnassignSite(s) \/ Snapshot(s)
SiteWrites(s) ==
    \/ CreateSite(s) \/ UpdateSite(s) \/ DeleteSite(s)
    \/ Operate(s) \/ AssignExisting(s) \/ GrantExisting(s) \/ RoleExisting(s)
    \/ RemoveAccess(s) \/ CountAccess(s)

\* The directory and the billing of the enterprise share callers and the daily job.
PortalNext ==
    \/ (AccountSteps \/ LinkSteps) /\ UNCHANGED billing
    \/ Tick
    \/ \E s \in Slots :
        \/ (InvitationRequests(s) \/ InvitingRequests(s) \/ PlatformRequests(s)) /\ UNCHANGED billing
        \/ (UserRequests(s) \/ StructureRequests(s) \/ SiteRequests(s)) /\ UNCHANGED billing
        \/ (InvitationWrites(s) \/ UserWrites(s)) /\ UNCHANGED billing
        \/ (StructureWrites(s) \/ SiteWrites(s)) /\ UNCHANGED billing
        \/ BillingRequests(s) \/ BillingWrites(s) \/ DailyJobs(s)

PortalSpec == PortalInit /\ [][PortalNext]_portal

-----------------------------------------------------------------------------
(* Properties *)

\* An invitation keeps the promise of ActivationLink: only whoever opened the
\* newest link while it was live activates an account with it, and a used
\* invitation is never sent, revoked or expired again.
LinksWork == Link!LinkSpec

Writing(s, ops) == call[s].op \in ops /\ call[s] # call'[s]

SuperAdmins ==
    {p \in People : IsMember(p) /\ ShownRole(p) = "SUPER_ADMIN" /\ users[p].active}

\* No change EnterpriseUserService makes to a member takes away the last
\* active Super Admin, owners from before the portal's roles counted.
SuperAdminRemains ==
    [][\A s \in Slots :
          Writing(s, {"updateUser", "setRole", "setActive"}) /\ SuperAdmins # {} => SuperAdmins' # {}]_portal

Scoped(role) == ~isUnrestricted(role)

\* "Nobody may hand out access they do not themselves hold": what a member
\* changes about users, scopes and groups shows nobody in a scoped role,
\* themselves included, a site that is outside the reach of both; nor do the
\* scopes of an invitation that EnterpriseUserService.inviteUser issues.  The
\* site it makes somebody operate is not checked: InvitesWithinReach.
NoWidening ==
    [][\A s \in Slots :
        /\ Writing(s, {"updateUser", "setScopes", "assignSites", "unassignSite"}) =>
               \A p \in People : Scoped(getEnterpriseRole(p)') =>
                   getAllowedSiteIds(p)' \subseteq getAllowedSiteIds(p) \cup getAllowedSiteIds(call[s].by)
        /\ Writing(s, {"issue"}) /\ call[s].by # Platform /\ Scoped(call[s].role) /\ call[s].role # "SITE_USER" =>
               resolveAll(call[s].scopes) \subseteq
                   resolveAll(invites[call[s].i].scopes) \cup getAllowedSiteIds(call[s].by)]_portal

\* The three computations of how far a member reaches agree: reachFrom of the
\* user listing shows what getAllowedSiteIds allows, and resolveFilters of the
\* reports lets no filter show more than that.
ScreensAgree ==
    \A p \in People : IsMember(p) =>
        /\ ListedReach(p) = getAllowedSiteIds(p)
        /\ \A scope \in UserScope : resolveFilters(p, {scope}) \subseteq ListedReach(p)

\* No month is billed twice ("a repeat run is a no-op"), as long as periods that
\* were left out are not billed later: the periods of the invoices follow each
\* other, whatever happens to the frequency, the dates and the status of the
\* contract in between, and the next one begins when they are over.
PeriodsInSequence ==
    \A d \in Billed :
        /\ invoices[d].to <= contract.next
        /\ \A e \in Billed : d < e => invoices[d].to <= e

\* "Without this check a second click would bill the next cycle early": unless
\* an administrator names the period, it has begun when it is billed.
NotBilledEarly ==
    [][\A s \in Slots : Writing(s, {"raise"}) /\ invoices' # invoices /\ ~call[s].named =>
          call[s].from <= today]_portal

-----------------------------------------------------------------------------
(* What the portal does not keep: section 6 of the README *)

\* The group a listing or a claim was stamped with is never deleted: the
\* stamps carry no foreign key, so past reporting depends on it.
HistoryResolves == \A g \in history : groups[g] \in {"active", "inactive"}

\* "Nobody may hand out access they do not themselves hold": an invitation
\* adds no site to see or to operate that is outside its issuer's reach.
InvitesWithinReach ==
    [][\A s \in Slots :
          Writing(s, {"issue"}) /\ call[s].by # Platform =>
              LET i == call[s].i
                  before == resolveAll(invites[i].scopes) \cup {invites[i].siteFor}
                  added == (resolveAll(call[s].scopes) \cup {call[s].siteFor}) \ (before \cup {Null})
              IN  added \subseteq getAllowedSiteIds(call[s].by)]_portal

\* Work on sites leaves the last active Super Admin alone as well.
SuperAdminStays ==
    [][\A s \in Slots :
          Writing(s, {"roleExisting", "removeAccess", "countAccess", "deleteSite"}) /\ SuperAdmins # {} =>
              SuperAdmins' # {}]_portal

\* A member whose scopes are replaced sees no site that is outside the old
\* reach and the caller's, a view-only administrator included.
ScopesNeverWiden ==
    [][\A s \in Slots : Writing(s, {"setScopes"}) =>
          \A p \in People :
              getAllowedSiteIds(p)' \subseteq getAllowedSiteIds(p) \cup getAllowedSiteIds(call[s].by)]_portal

\* "Ending the deal must end the access": between requests, access is in step
\* with the contract.
AccessFollowsDeal ==
    contract # Null /\ Busy = {} => subscription = accessFor(contract.status)

\* A contract in force can be billed: its next period is not billed yet.
NextPeriodOpen ==
    contract # Null /\ contract.next \in Dates => contract.next \notin Billed

\* There always is a number for another invoice.
NumbersLast == nextInvoiceNumber \notin Numbers

\* "A paid invoice cannot be cancelled - refund it instead", and "a cancelled
\* invoice cannot be marked paid".
SettledInvoicesStay ==
    [][\A d \in Billed : invoices[d].status \in {"PAID", "CANCELLED"} => invoices'[d] = invoices[d]]_portal
=============================================================================
