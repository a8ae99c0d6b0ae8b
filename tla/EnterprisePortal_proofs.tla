------------------------ MODULE EnterprisePortal_proofs ------------------------
(***************************************************************************)
(* Proofs about EnterprisePortal, for any people, sites, groups,           *)
(* invitations and situations to start from, and for any number of         *)
(* requests at a time.  The service checks and writes without a lock:      *)
(* where a request makes untrue what another has checked the properties    *)
(* fail (section 6 of the README).  These proofs show that nothing else    *)
(* breaks them: NotOvertaken and, for the billing, BillingNotOvertaken     *)
(* name that race, and BackBilling what administrators may bill late.      *)
(***************************************************************************)
EXTENDS EnterprisePortal, FiniteSetTheorems, TLAPS

\* The role, the grants and the accesses of a member, the sites and the groups
\* they name, and what an invitation has in escrow.
DirectoryTypes ==
    /\ users \in [People -> User]
    /\ member \in [People -> Membership]
    /\ grants \in [People -> SUBSET UserScope]
    /\ access \in [People -> [Sites -> SiteRole \cup {Null}]]
    /\ sites \in [Sites -> {"active", "inactive", Null}]
    /\ groups \in [Groups -> {"active", "inactive", "deleted", Null}]
    /\ place \in [Sites -> Groups \cup {Null}]
    /\ invites \in [Invites -> Invitation]
    /\ DOMAIN call = Slots

\* A role belongs to a member, an operator to a site, a placed site to a group.
References ==
    /\ \A p \in People : member[p].role # Null => member[p].orgRole # Null
    /\ \A p \in People, x \in Sites : access[p][x] # Null => sites[x] # Null
    /\ \A x \in Sites : place[x] # Null => sites[x] # Null /\ GroupExists(place[x])

TargetsKnown(scopes, siteFor) ==
    \A x \in Sites : x = siteFor \/ <<"SITE", x>> \in scopes => sites[x] # Null

InvitesSound ==
    \A i \in Invites :
        /\ invites[i].link = 0 <=> invites[i].status = Null
        /\ TargetsKnown(invites[i].scopes, invites[i].siteFor)

\* What a request has checked still holds when it writes.
InviteGood(w) ==
    /\ w.op = "issue" =>
           /\ w.i \in Invites /\ invites[w.i].status \in {Null, "PENDING", "EXPIRED"}
           /\ w.email \in People /\ w.role \in EnterpriseRole
           /\ w.scopes \in SUBSET UserScope /\ w.siteFor \in Sites \cup {Null}
           /\ TargetsKnown(w.scopes, w.siteFor)
           /\ w.by # Platform /\ Scoped(w.role) /\ w.role # "SITE_USER" =>
                  resolveAll(w.scopes) \subseteq
                      resolveAll(invites[w.i].scopes) \cup getAllowedSiteIds(w.by)
    /\ w.op \in {"resend", "revoke"} =>
           w.i \in Invites /\ invites[w.i].status \in {"PENDING", "REVOKED", "EXPIRED"}
    /\ w.op = "accept" =>
           /\ w.i \in Invites /\ w.inv \in Invitation
           /\ TargetsKnown(w.inv.scopes, w.inv.siteFor)
           /\ w.inv.link \in 1 .. invites[w.i].link
           /\ invites[w.i].status # "ACCEPTED"

UserGood(w) ==
    /\ w.op = "updateUser" =>
           /\ w.who \in People /\ w.role \in PORTAL_ROLES
           /\ assertNotLastSuperAdmin(w.who, w.role)
    /\ w.op = "setRole" =>
           /\ w.who \in People /\ w.role \in PORTAL_ROLES /\ isUnrestricted(w.role)
           /\ w.scopes \in SUBSET UserScope
           /\ ShownRole(w.who) # w.role => assertNotLastSuperAdmin(w.who, w.role)
    /\ w.op = "setScopes" =>
           /\ w.who \in People /\ w.scopes \in SUBSET UserScope
           /\ assertScopeSatisfiesRole(ShownRole(w.who), w.scopes)
           /\ assertScopesWithinCallerReach(w.by, w.scopes)
    /\ w.op = "setActive" =>
           /\ w.who \in People /\ w.on \in BOOLEAN
           /\ ~w.on => assertNotLastSuperAdmin(w.who, Null)

StructureGood(w) ==
    /\ w.op \in {"createGroup", "groupActive", "removeGroup", "assignSites"} => w.g \in Groups
    /\ w.op = "groupActive" => w.standing \in {"active", "inactive"}
    /\ w.op = "assignSites" =>
           /\ GroupExists(w.g)
           /\ w.ss \subseteq KnownSites
           /\ assertSitesWithinReach(w.by, w.ss)
    /\ w.op = "unassignSite" => w.x \in Sites

\* An existing member is made a site administrator in three writes.
Existing == {"assignExisting", "grantExisting", "roleExisting"}

SiteGood(w) ==
    /\ w.op \in {"createSite", "updateSite", "deleteSite", "operate", "removeAccess", "countAccess"}
                  \cup Existing => w.x \in Sites
    /\ w.op \in {"createSite", "updateSite"} =>
           w.g = Null \/ (w.g \in Groups /\ GroupExists(w.g))
    /\ w.op \in {"updateSite", "operate"} \cup Existing => sites[w.x] # Null
    /\ w.op \in {"operate", "removeAccess", "countAccess"} \cup Existing => w.who \in People
    /\ w.op = "operate" => w.siteRole \in SiteRole
    /\ w.op \in Existing =>
           /\ IsMember(w.who)
           /\ w \in [op : Existing, who : People, x : Sites, role : EnterpriseRole \cup {Null}, by : Callers]
    /\ w.op = "removeAccess" =>
           w \in [op : {"removeAccess"}, who : People, x : Sites, by : Callers]

Good(w) == InviteGood(w) /\ UserGood(w) /\ StructureGood(w) /\ SiteGood(w)

DirectoryInv ==
    /\ DirectoryTypes /\ References /\ InvitesSound
    /\ \A s \in Slots : Good(call[s])

-----------------------------------------------------------------------------
(* The billing side. *)

\* Amounts aside, an invoice bills a period that ends after it begins.
InvoiceRow(d) ==
    /\ invoices[d] \in [to : Nat, status : {"ISSUED", "OVERDUE", "PAID", "CANCELLED"}, due : Nat,
                        number : {invoices[d].number}]
    /\ d < invoices[d].to

\* A period that may be billed: billed already, which is refused, or not before
\* the next, unless administrators go back to those they had left out.
Open(from) == from \in Dates /\ (BackBilling \/ from \in Billed \/ from >= contract.next)

BillGood(w) ==
    /\ w.op = "createContract" => w.contract \in ContractRow
    /\ w.op = "updateContract" => contract \in ContractRow /\ <<w.field, w.to>> \in ContractChanges
    /\ w.op = "bill" => contract \in ContractRow /\ (IF w.from = Null THEN Due ELSE Open(w.from))
    /\ w.op = "raise" =>
           /\ contract \in ContractRow /\ Open(w.from)
           /\ w.to \in Nat /\ w.from < w.to
           /\ w.named \/ w.from <= today
    /\ w.op = "settle" =>
           /\ w.d \in Billed /\ w.status \in {"PAID", "CANCELLED"}
           /\ invoices[w.d].status \in {"PAID", "CANCELLED"} => w.status = invoices[w.d].status
    /\ w.op = "expire" /\ w.lapsed => contract \in ContractRow

BillingRows ==
    /\ DOMAIN invoices = Dates /\ today \in Nat
    /\ contract \in ContractRow \/ (contract = Null /\ Billed = {})
    /\ \A d \in Billed : InvoiceRow(d)
    /\ BackBilling \/ PeriodsInSequence

BillingInv == BillingRows /\ \A s \in Slots : BillGood(call[s])

(***************************************************************************)
(* No step makes untrue what another request has checked and has not yet   *)
(* written.  A lock held from the check to the write would give this; the  *)
(* code has none, so it is assumed where it is needed and never proved.    *)
(***************************************************************************)
NotOvertaken ==
    \A s \in Slots : call'[s] = call[s] /\ Good(call[s]) => Good(call[s])'

BillingNotOvertaken ==
    \A s \in Slots : call'[s] = call[s] /\ BillGood(call[s]) => BillGood(call[s])'

-----------------------------------------------------------------------------
(* Steps and the slots they move. *)

(* A request that is about to write is in progress. *)
LEMMA WriterIsBusy ==
    ASSUME NEW s \in Slots, call[s].op # "idle"
    PROVE  s \in Busy
BY DEF Busy, Idle

InvitationAsks(s) == InvitationRequests(s) \/ InvitingRequests(s) \/ PlatformRequests(s)
Asks(s) ==
    \/ InvitationAsks(s) \/ UserRequests(s) \/ StructureRequests(s) \/ SiteRequests(s)

DirectoryWrites(s) ==
    \/ InvitationWrites(s) \/ UserWrites(s) \/ StructureWrites(s) \/ SiteWrites(s)

BillingSteps(s) == BillingRequests(s) \/ BillingWrites(s) \/ DailyJobs(s)

(* What happens, in six kinds. *)
LEMMA PortalSteps ==
    ASSUME [PortalNext]_portal
    PROVE  \/ UNCHANGED portal
           \/ AccountSteps /\ UNCHANGED billing
           \/ LinkSteps /\ UNCHANGED billing
           \/ Tick
           \/ \E s \in Slots :
                 \/ Asks(s) /\ UNCHANGED billing
                 \/ DirectoryWrites(s) /\ UNCHANGED billing
                 \/ BillingSteps(s)
BY Zenon DEF PortalNext, Asks, InvitationAsks, DirectoryWrites, BillingSteps

(* A request that passes its checks changes none of the tables it reads. *)
Asked(s) ==
    /\ s \notin Busy /\ Cardinality(Busy) < MaxBusy
    /\ UNCHANGED <<rows, codes, claims, mix>>
    /\ \E w : call' = [call EXCEPT ![s] = w]

LEMMA AskInSteps ==
    ASSUME NEW s \in Slots, Asks(s)
    PROVE  Asked(s)
<1>1. CASE InvitationRequests(s)
  BY <1>1, Zenon DEF InvitationRequests, Ready, AcceptStart, resendInvitation, revokeInvitation,
     resendInviteForUser, Ask, Asked
<1>2. CASE InvitingRequests(s)
  BY <1>2, ZenonT(60) DEF InvitingRequests, Ready, inviteUser, inviteSiteUser, issueInvite, Ask, Asked
<1>3. CASE PlatformRequests(s)
  BY <1>3, Zenon DEF PlatformRequests, Ready, inviteUserForOrganisation, issueInvite, SetRoleStart,
     Ask, Asked
<1>4. CASE UserRequests(s)
  BY <1>4, Zenon DEF UserRequests, Ready, UpdateUserStart, SetScopesStart, SetActiveStart, Ask, Asked
<1>5. CASE StructureRequests(s)
  BY <1>5, Zenon DEF StructureRequests, Ready, CreateGroupStart, RemoveGroupStart, GroupActiveStart,
     AssignSitesStart, UnassignSiteStart, SnapshotStart, Ask, Asked
<1>6. CASE SiteRequests(s)
  <2>1. \A c, x, g : CreateSiteStart(s, c, x, g) \/ UpdateSiteStart(s, c, x, g) \/ DeleteSiteStart(s, c, x)
          => \E w : Ask(s, c, w)
    BY Zenon DEF CreateSiteStart, UpdateSiteStart, DeleteSiteStart
  <2>2. \A c, p, x : AssignSiteManagerStart(s, c, p, x) \/ AddStaffStart(s, c, p, x)
          => \E w : Ask(s, c, w)
    BY Zenon DEF AssignSiteManagerStart, AddStaffStart
  <2>3. \A c, p, x : AssignExistingStart(s, c, p, x) \/ RemoveAccessStart(s, c, p, x)
          => \E w : Ask(s, c, w)
    BY Zenon DEF AssignExistingStart, RemoveAccessStart
  <2>4. Ready(s, "sites") /\ \E c, w : Ask(s, c, w)
    BY <1>6, <2>1, <2>2, <2>3, ZenonT(60) DEF SiteRequests
  <2> QED
    BY <2>4, Zenon DEF Ready, Ask, Asked
<1> QED
  BY <1>1, <1>2, <1>3, <1>4, <1>5, <1>6, Zenon DEF Asks, InvitationAsks

\* A write is the turn of a request in progress.
Turn(s) ==
    /\ s \in Busy
    /\ \E w : call' = [call EXCEPT ![s] = w]

LEMMA DirectoryTurns ==
    ASSUME NEW s \in Slots, DirectoryWrites(s)
    PROVE  Turn(s)
<1>1. CASE InvitationWrites(s)
  BY <1>1, WriterIsBusy DEF InvitationWrites, Issue, Resend, Revoke, Accept, AcceptRefused, Writes,
     Done, Turn
<1>2. CASE UserWrites(s)
  BY <1>2, WriterIsBusy DEF UserWrites, UpdateUser, SetRole, SetScopes, SetActive, Writes, Done, Turn
<1>3. CASE StructureWrites(s)
  BY <1>3, WriterIsBusy, SMTT(60) DEF StructureWrites, CreateGroup, GroupActive, RemoveGroup, AssignSites,
     UnassignSite, Snapshot, Writes, Done, Turn
<1>4. CASE SiteWrites(s)
  BY <1>4, WriterIsBusy DEF SiteWrites, CreateSite, UpdateSite, DeleteSite, Operate, AssignExisting,
     GrantExisting, RoleExisting, RemoveAccess, CountAccess, Writes, Done, Turn
<1> QED
  BY <1>1, <1>2, <1>3, <1>4, Zenon DEF DirectoryWrites

\* A job begins as a request does.
Begun(s) ==
    /\ s \notin Busy /\ Cardinality(Busy) < MaxBusy
    /\ \E w : call' = [call EXCEPT ![s] = w]

LEMMA BillingTurns ==
    ASSUME NEW s \in Slots, BillingSteps(s)
    PROVE  Begun(s) \/ Turn(s)
<1>1. CASE BillingRequests(s)
  BY <1>1, Zenon DEF BillingRequests, Ready, createContractStart, updateContractStart, generateInvoice,
     markInvoicePaidStart, cancelInvoiceStart, Ask, Begun
<1>2. CASE BillingWrites(s)
  BY <1>2, WriterIsBusy DEF BillingWrites, createContract, updateContract, SettleInvoice, RaiseStart,
     NotActive, ContractOver, RaiseInvoice, AlreadyInvoiced, Writes, Done, Goes, Turn
<1>3. CASE generateDueInvoices(s) \/ markOverdue(s)
  BY <1>3, Zenon DEF generateDueInvoices, markOverdue, Free, Goes, Begun
<1>4. CASE expireLapsed(s)
  BY <1>4, WriterIsBusy DEF expireLapsed, Writes, Done, Turn
<1> QED
  BY <1>1, <1>2, <1>3, <1>4, Zenon DEF BillingSteps, DailyJobs

(* Accounts, links and the months go by without a request. *)
LEMMA TimeIsNoRequest ==
    ASSUME AccountSteps \/ LinkSteps \/ Tick
    PROVE  UNCHANGED call
<1>1. CASE AccountSteps
  BY <1>1, Zenon DEF AccountSteps, registerBusiness, resendVerificationEmail, CodeLapses, login, verifyEmail
<1>2. CASE LinkSteps
  BY <1>2, Zenon DEF LinkSteps, Lapse, DescribeLapsed
<1>3. CASE Tick
  BY <1>3, Zenon DEF Tick
<1> QED
  BY <1>1, <1>2, <1>3, Zenon

-----------------------------------------------------------------------------
(* What a request has checked when it is about to write. *)

BillingOps == {"idle", "createContract", "updateContract", "bill", "raise", "settle", "expire"}

\* A request on the directory; only a live link is opened.
Opens(w) ==
    /\ w.op \notin BillingOps
    /\ w.op = "accept" => Describable(w.i) /\ w.inv = invites[w.i]

\* Request s goes on to write w, and what w needs is true.
Checked(s) == \E w : call' = [call EXCEPT ![s] = w] /\ Good(w) /\ Opens(w)

LEMMA UserAdminIsMember ==
    ASSUME NEW c, UserAdmin(c)
    PROVE  c \in People /\ c # Platform
BY DirectoryAssumption DEF UserAdmin, assertPermission

LEMMA UserChecks ==
    ASSUME DirectoryInv, NEW s \in Slots, UserRequests(s)
    PROVE  Checked(s)
<1>1. ASSUME NEW c \in People, NEW p \in People, NEW role \in PORTAL_ROLES, UpdateUserStart(s, c, p, role)
      PROVE  Checked(s)
  <2> DEFINE w == [op |-> "updateUser", who |-> p, role |-> role, by |-> c]
  <2>1. Ask(s, c, w)
    BY <1>1 DEF UpdateUserStart
  <2>2. Good(w) /\ Opens(w)
    BY <1>1 DEF UpdateUserStart, Opens, BillingOps, Good, InviteGood, UserGood, StructureGood, SiteGood,
       Existing
  <2> QED
    BY <2>1, <2>2, Zenon DEF Ask, Checked
<1>2. ASSUME NEW c \in People, NEW p \in People, NEW scopes \in Some(UserScope), SetScopesStart(s, c, p, scopes)
      PROVE  Checked(s)
  <2> DEFINE w == [op |-> "setScopes", who |-> p, scopes |-> scopes, by |-> c]
  <2>1. Ask(s, c, w)
    BY <1>2 DEF SetScopesStart
  <2>2. Good(w) /\ Opens(w)
    BY <1>2 DEF SetScopesStart, Opens, BillingOps, Good, InviteGood, UserGood, StructureGood, SiteGood,
       Existing, Some
  <2> QED
    BY <2>1, <2>2, Zenon DEF Ask, Checked
<1>3. ASSUME NEW c \in People, NEW p \in People, NEW on \in BOOLEAN, SetActiveStart(s, c, p, on)
      PROVE  Checked(s)
  <2> DEFINE w == [op |-> "setActive", who |-> p, on |-> on, by |-> c]
  <2>1. Ask(s, c, w)
    BY <1>3 DEF SetActiveStart
  <2>2. Good(w) /\ Opens(w)
    BY <1>3 DEF SetActiveStart, Opens, BillingOps, Good, InviteGood, UserGood, StructureGood, SiteGood,
       Existing
  <2> QED
    BY <2>1, <2>2, Zenon DEF Ask, Checked
<1> QED
  BY <1>1, <1>2, <1>3, Zenon DEF UserRequests

LEMMA StructureChecks ==
    ASSUME DirectoryInv, NEW s \in Slots, StructureRequests(s)
    PROVE  Checked(s)
<1>1. ASSUME NEW c \in Callers, NEW g \in Groups, CreateGroupStart(s, c, g)
      PROVE  Checked(s)
  <2> DEFINE w == [op |-> "createGroup", g |-> g, by |-> c]
  <2>1. Ask(s, c, w)
    BY <1>1 DEF CreateGroupStart
  <2>2. Good(w) /\ Opens(w)
    BY <1>1 DEF CreateGroupStart, Opens, BillingOps, Good, InviteGood, UserGood, StructureGood, SiteGood,
       Existing
  <2> QED
    BY <2>1, <2>2, Zenon DEF Ask, Checked
<1>2. ASSUME NEW c \in Callers, NEW g \in Groups, RemoveGroupStart(s, c, g)
      PROVE  Checked(s)
  <2> DEFINE w == [op |-> "removeGroup", g |-> g, by |-> c]
  <2>1. Ask(s, c, w)
    BY <1>2 DEF RemoveGroupStart
  <2>2. Good(w) /\ Opens(w)
    BY <1>2 DEF RemoveGroupStart, Opens, BillingOps, Good, InviteGood, UserGood, StructureGood, SiteGood,
       Existing
  <2> QED
    BY <2>1, <2>2, Zenon DEF Ask, Checked
<1>3. ASSUME NEW c \in Callers, NEW g \in Groups, NEW standing \in {"active", "inactive"}, GroupActiveStart(s, c, g, standing)
      PROVE  Checked(s)
  <2> DEFINE w == [op |-> "groupActive", g |-> g, standing |-> standing, by |-> c]
  <2>1. Ask(s, c, w)
    BY <1>3 DEF GroupActiveStart
  <2>2. Good(w) /\ Opens(w)
    BY <1>3 DEF GroupActiveStart, Opens, BillingOps, Good, InviteGood, UserGood, StructureGood, SiteGood,
       Existing
  <2> QED
    BY <2>1, <2>2, Zenon DEF Ask, Checked
<1>4. ASSUME NEW c \in Callers, NEW g \in Groups, NEW ss \in Some(KnownSites), AssignSitesStart(s, c, g, ss)
      PROVE  Checked(s)
  <2> DEFINE w == [op |-> "assignSites", g |-> g, ss |-> ss, by |-> c]
  <2>1. Ask(s, c, w)
    BY <1>4 DEF AssignSitesStart
  <2>2. Good(w) /\ Opens(w)
    BY <1>4 DEF AssignSitesStart, Opens, BillingOps, Good, InviteGood, UserGood, StructureGood, SiteGood,
       Existing, assertCanManage
  <2> QED
    BY <2>1, <2>2, Zenon DEF Ask, Checked
<1>5. ASSUME NEW c \in People, NEW x \in Sites, UnassignSiteStart(s, c, x)
      PROVE  Checked(s)
  <2> DEFINE w == [op |-> "unassignSite", x |-> x, by |-> c]
  <2>1. Ask(s, c, w)
    BY <1>5 DEF UnassignSiteStart
  <2>2. Good(w) /\ Opens(w)
    BY <1>5 DEF UnassignSiteStart, Opens, BillingOps, Good, InviteGood, UserGood, StructureGood, SiteGood,
       Existing
  <2> QED
    BY <2>1, <2>2, Zenon DEF Ask, Checked
<1>6. ASSUME NEW x \in Sites, SnapshotStart(s, x)
      PROVE  Checked(s)
  <2> DEFINE w == [op |-> "snapshot", g |-> place[x], by |-> x]
  <2>1. Ask(s, Platform, w)
    BY <1>6 DEF SnapshotStart
  <2>2. Good(w) /\ Opens(w)
    BY <1>6 DEF SnapshotStart, Opens, BillingOps, Good, InviteGood, UserGood, StructureGood, SiteGood,
       Existing
  <2> QED
    BY <2>1, <2>2, Zenon DEF Ask, Checked
<1> QED
  BY <1>1, <1>2, <1>3, <1>4, <1>5, <1>6, Zenon DEF StructureRequests

LEMMA SiteChecks ==
    ASSUME DirectoryInv, NEW s \in Slots, SiteRequests(s)
    PROVE  Checked(s)
<1>1. ASSUME NEW c \in Callers, NEW x \in Sites, NEW g \in Groups \cup {Null}, CreateSiteStart(s, c, x, g)
      PROVE  Checked(s)
  <2> DEFINE w == [op |-> "createSite", x |-> x, g |-> g, by |-> c]
  <2>1. Ask(s, c, w)
    BY <1>1 DEF CreateSiteStart
  <2>2. Good(w) /\ Opens(w)
    BY <1>1 DEF CreateSiteStart, Opens, BillingOps, Good, InviteGood, UserGood, StructureGood, SiteGood,
       Existing, assertStructureTargets, GroupExists, ScopeExists
  <2> QED
    BY <2>1, <2>2, Zenon DEF Ask, Checked
<1>2. ASSUME NEW c \in Callers, NEW x \in Sites, NEW g \in Groups \cup {Null}, UpdateSiteStart(s, c, x, g)
      PROVE  Checked(s)
  <2> DEFINE w == [op |-> "updateSite", x |-> x, g |-> g, by |-> c]
  <2>1. Ask(s, c, w)
    BY <1>2 DEF UpdateSiteStart
  <2>2. Good(w) /\ Opens(w)
    BY <1>2 DEF UpdateSiteStart, Opens, BillingOps, Good, InviteGood, UserGood, StructureGood, SiteGood,
       Existing, assertStructureTargets, GroupExists, ScopeExists
  <2> QED
    BY <2>1, <2>2, Zenon DEF Ask, Checked
<1>3. ASSUME NEW c \in Callers, NEW x \in Sites, DeleteSiteStart(s, c, x)
      PROVE  Checked(s)
  <2> DEFINE w == [op |-> "deleteSite", x |-> x, whom |-> Operators(x), by |-> c]
  <2>1. Ask(s, c, w)
    BY <1>3 DEF DeleteSiteStart
  <2>2. Good(w) /\ Opens(w)
    BY <1>3 DEF DeleteSiteStart, Opens, BillingOps, Good, InviteGood, UserGood, StructureGood, SiteGood,
       Existing
  <2> QED
    BY <2>1, <2>2, Zenon DEF Ask, Checked
<1>4. ASSUME NEW c \in Callers, NEW x \in Sites, NEW p \in People, AssignSiteManagerStart(s, c, p, x)
      PROVE  Checked(s)
  <2> DEFINE w == [op |-> "operate", who |-> p, x |-> x, siteRole |-> "SITE_ADMIN", by |-> c]
  <2>1. Ask(s, c, w)
    BY <1>4 DEF AssignSiteManagerStart
  <2>2. Good(w) /\ Opens(w)
    BY <1>4 DEF AssignSiteManagerStart, Opens, BillingOps, Good, InviteGood, UserGood, StructureGood,
       SiteGood, Existing, SiteRole
  <2> QED
    BY <2>1, <2>2, Zenon DEF Ask, Checked
<1>5. ASSUME NEW c \in Callers, NEW x \in Sites, NEW p \in People, AddStaffStart(s, c, p, x)
      PROVE  Checked(s)
  <2> DEFINE w == [op |-> "operate", who |-> p, x |-> x, siteRole |-> "STAFF", by |-> c]
  <2>1. Ask(s, c, w)
    BY <1>5 DEF AddStaffStart
  <2>2. Good(w) /\ Opens(w)
    BY <1>5 DEF AddStaffStart, Opens, BillingOps, Good, InviteGood, UserGood, StructureGood, SiteGood,
       Existing, SiteRole
  <2> QED
    BY <2>1, <2>2, Zenon DEF Ask, Checked
<1>6. ASSUME NEW c \in Callers, NEW x \in Sites, NEW p \in People, AssignExistingStart(s, c, p, x)
      PROVE  Checked(s)
  <2> DEFINE w == [op |-> "assignExisting", who |-> p, x |-> x, role |-> member[p].role, by |-> c]
  <2>1. Ask(s, c, w)
    BY <1>6 DEF AssignExistingStart
  <2>2. sites[x] # Null /\ IsMember(p) /\ member[p].role \in EnterpriseRole \cup {Null}
    BY <1>6 DEF AssignExistingStart, DirectoryInv, DirectoryTypes, Membership
  <2>3. /\ w \in [op : Existing, who : People, x : Sites, role : EnterpriseRole \cup {Null}, by : Callers]
        /\ w.op = "assignExisting" /\ w.who = p /\ w.x = x
    BY <1>6, <2>2 DEF Existing
  <2> HIDE DEF w
  <2>4. Good(w) /\ Opens(w)
    BY <1>6, <2>2, <2>3 DEF Opens, BillingOps, Good, InviteGood, UserGood, StructureGood, SiteGood, Existing
  <2> QED
    BY <2>1, <2>4, Zenon DEF Ask, Checked
<1>7. ASSUME NEW c \in Callers, NEW x \in Sites, NEW p \in People, RemoveAccessStart(s, c, p, x)
      PROVE  Checked(s)
  <2> DEFINE w == [op |-> "removeAccess", who |-> p, x |-> x, by |-> c]
  <2>1. Ask(s, c, w)
    BY <1>7 DEF RemoveAccessStart
  <2>2. Good(w) /\ Opens(w)
    BY <1>7 DEF RemoveAccessStart, Opens, BillingOps, Good, InviteGood, UserGood, StructureGood, SiteGood,
       Existing
  <2> QED
    BY <2>1, <2>2, Zenon DEF Ask, Checked
<1> QED
  BY <1>1, <1>2, <1>3, <1>4, <1>5, <1>6, <1>7, Zenon DEF SiteRequests

LEMMA ResolveUnion ==
    ASSUME NEW A, NEW B
    PROVE  resolveAll(A \cup B) = resolveAll(A) \cup resolveAll(B)
BY DEF resolveAll

(* Scopes whose targets exist name only sites that exist. *)
LEMMA TargetsThere ==
    ASSUME NEW scopes, assertScopeTargetsExist(scopes),
           NEW siteFor, siteFor \in KnownSites \cup {Null}
    PROVE  TargetsKnown(scopes, siteFor)
<1>1. \A x \in Sites : <<"SITE", x>> \in scopes => ScopeExists(<<"SITE", x>>)
  BY DEF assertScopeTargetsExist
<1>2. \A x \in Sites : ScopeExists(<<"SITE", x>>) => sites[x] # Null
  BY DEF ScopeExists
<1> QED
  BY <1>1, <1>2, DirectoryAssumption DEF TargetsKnown, KnownSites

(* What goes into an invitation is what it had in escrow and what is added. *)
LEMMA IssueChecks ==
    ASSUME DirectoryInv, NEW s \in Slots, NEW c, NEW p \in People, NEW role \in EnterpriseRole,
           NEW scopes \in SUBSET UserScope, NEW x \in KnownSites \cup {Null},
           issueInvite(s, c, p, role, scopes, x),
           \/ c = Platform \/ role = "SITE_USER"
           \/ assertScopesWithinCallerReach(c, scopes)
    PROVE  Checked(s)
<1>1. PICK i \in IssueTarget(p) : Ask(s, c, Issuing(i, p, role, scopes, x, c))
  BY Zenon DEF issueInvite
<1>2. i \in Invites /\ invites[i].status \in {Null, "PENDING"}
  BY <1>1 DEF IssueTarget, Pending, Unused
<1> DEFINE w == Issuing(i, p, role, scopes, x, c)
<1>3. /\ w.op = "issue" /\ w.i = i /\ w.email = p /\ w.role = role /\ w.by = c
      /\ w.scopes = IF isViewOnlyRole(role) THEN scopes ELSE invites[i].scopes \cup scopes
      /\ w.siteFor = IF x = Null THEN invites[i].siteFor ELSE x
  BY DEF Issuing
<1>4. invites[i] \in Invitation
  BY <1>2 DEF DirectoryInv, DirectoryTypes
<1>5. w.scopes \in SUBSET UserScope /\ w.siteFor \in Sites \cup {Null}
  BY <1>3, <1>4 DEF Invitation, KnownSites
<1>6. TargetsKnown(w.scopes, w.siteFor)
  <2>1. TargetsKnown(scopes, x)
    BY TargetsThere DEF issueInvite
  <2>2. TargetsKnown(invites[i].scopes, invites[i].siteFor)
    BY <1>2 DEF DirectoryInv, InvitesSound
  <2> HIDE DEF w
  <2> QED
    BY <1>3, <2>1, <2>2 DEF TargetsKnown
<1>7. w.by # Platform /\ Scoped(w.role) /\ w.role # "SITE_USER" =>
          resolveAll(w.scopes) \subseteq resolveAll(invites[w.i].scopes) \cup getAllowedSiteIds(w.by)
  <2> HIDE DEF w
  <2>1. Scoped(role) => ~isViewOnlyRole(role)
    BY DEF Scoped, isUnrestricted, isViewOnlyRole
  <2>2. assertScopesWithinCallerReach(c, scopes) => resolveAll(scopes) \subseteq getAllowedSiteIds(c)
    BY DEF assertScopesWithinCallerReach
  <2> QED
    BY <1>3, <2>1, <2>2, ResolveUnion
<1> HIDE DEF w
<1>8. Good(w) /\ Opens(w)
  BY <1>2, <1>3, <1>5, <1>6, <1>7 DEF Opens, BillingOps, Good, InviteGood, UserGood, StructureGood,
     SiteGood, Existing
<1>9. Ask(s, c, w)
  BY <1>1 DEF w
<1> QED
  BY <1>8, <1>9, Zenon DEF Ask, Checked

LEMMA NormalScopes ==
    ASSUME NEW role, NEW scopes \in Some(UserScope)
    PROVE  normaliseScopes(role, scopes) \in SUBSET UserScope
BY DEF normaliseScopes, Some

LEMMA InvitingChecks ==
    ASSUME DirectoryInv, NEW s \in Slots, InvitingRequests(s)
    PROVE  Checked(s)
<1>1. ASSUME NEW c \in People, NEW p \in People, NEW role \in InvitedRoles, NEW scopes \in Some(UserScope),
             NEW x \in (InvitedSites \cap KnownSites) \cup {Null},
             inviteUser(s, c, p, role, normaliseScopes(role, scopes), x)
      PROVE  Checked(s)
  <2>1. role \in EnterpriseRole
    BY PortalAssumption
  <2>2. x \in KnownSites \cup {Null}
    OBVIOUS
  <2> QED
    BY <1>1, <2>1, <2>2, NormalScopes, IssueChecks DEF inviteUser
<1>2. ASSUME NEW c \in Callers, NEW p \in People, NEW x \in Sites, inviteSiteUser(s, c, p, x)
      PROVE  Checked(s)
  <2>1. "SITE_USER" \in EnterpriseRole /\ {<<"SITE", x>>} \in SUBSET UserScope
    BY DEF EnterpriseRole, UserScope
  <2>2. Null \in KnownSites \cup {Null}
    OBVIOUS
  <2> QED
    BY <1>2, <2>1, <2>2, IssueChecks DEF inviteSiteUser
<1> QED
  BY <1>1, <1>2, Zenon DEF InvitingRequests

LEMMA PlatformChecks ==
    ASSUME DirectoryInv, NEW s \in Slots, PlatformRequests(s)
    PROVE  Checked(s)
<1>1. ASSUME NEW p \in People, NEW role \in InvitedRoles, NEW scopes \in Some(UserScope),
             NEW x \in (InvitedSites \cap KnownSites) \cup {Null},
             inviteUserForOrganisation(s, p, role, normaliseScopes(role, scopes), x)
      PROVE  Checked(s)
  <2>1. role \in EnterpriseRole
    BY PortalAssumption
  <2>2. x \in KnownSites \cup {Null}
    OBVIOUS
  <2> QED
    BY <1>1, <2>1, <2>2, NormalScopes, IssueChecks DEF inviteUserForOrganisation
<1>2. ASSUME NEW p \in People, NEW role \in PORTAL_ROLES, NEW ss \in Some(KnownSites),
             SetRoleStart(s, p, role, ss)
      PROVE  Checked(s)
  <2> DEFINE scopes == IF acceptsScopes(role) THEN {"SITE"} \X ss ELSE {}
             w == [op |-> "setRole", who |-> p, role |-> role, scopes |-> scopes, by |-> Platform]
  <2>1. Ask(s, Platform, w)
    BY <1>2 DEF SetRoleStart
  <2>2. scopes \in SUBSET UserScope
    BY DEF UserScope, Some, KnownSites
  <2>3. isUnrestricted(role) /\ (ShownRole(p) # role => assertNotLastSuperAdmin(p, role))
    BY <1>2 DEF SetRoleStart
  <2>4. /\ w.op = "setRole" /\ w.who = p /\ w.role = role /\ w.scopes = scopes
    OBVIOUS
  <2> HIDE DEF w, scopes
  <2>5. Good(w) /\ Opens(w)
    BY <1>2, <2>2, <2>3, <2>4 DEF Opens, BillingOps, Good, InviteGood, UserGood, StructureGood, SiteGood,
       Existing
  <2> QED
    BY <2>1, <2>5, Zenon DEF Ask, Checked
<1> QED
  BY <1>1, <1>2, Zenon DEF PlatformRequests

LEMMA InvitationChecks ==
    ASSUME DirectoryInv, NEW s \in Slots, InvitationRequests(s)
    PROVE  Checked(s)
<1>1. ASSUME NEW i \in Invites, AcceptStart(s, i)
      PROVE  Checked(s)
  <2> DEFINE w == [op |-> "accept", i |-> i, inv |-> invites[i], by |-> invites[i].email]
  <2>1. Ask(s, Platform, w)
    BY <1>1 DEF AcceptStart
  <2>2. invites[i] \in Invitation
    BY DEF DirectoryInv, DirectoryTypes
  <2>3. invites[i].link \in 1 .. invites[i].link
    <3>1. invites[i].link \in Nat
      BY <2>2 DEF Invitation
    <3>2. invites[i].link # 0
      BY <1>1, DirectoryAssumption DEF AcceptStart, Describable, DirectoryInv, InvitesSound
    <3> QED
      BY <3>1, <3>2
  <2>4. TargetsKnown(invites[i].scopes, invites[i].siteFor)
    BY DEF DirectoryInv, InvitesSound
  <2>5. Describable(i) /\ invites[i].status # "ACCEPTED"
    BY <1>1 DEF AcceptStart, Describable
  <2>6. w.op = "accept" /\ w.i = i /\ w.inv = invites[i]
    OBVIOUS
  <2> HIDE DEF w
  <2>7. Good(w) /\ Opens(w)
    BY <1>1, <2>2, <2>3, <2>4, <2>5, <2>6 DEF Opens, BillingOps, Good, InviteGood, UserGood,
       StructureGood, SiteGood, Existing
  <2> QED
    BY <2>1, <2>7, Zenon DEF Ask, Checked
<1>2. ASSUME NEW i \in Invites, Resendable(i), NEW c, NEW op \in {"resend", "revoke"},
             Ask(s, c, [op |-> op, i |-> i, by |-> c])
      PROVE  Checked(s)
  <2>1. Good([op |-> op, i |-> i, by |-> c]) /\ Opens([op |-> op, i |-> i, by |-> c])
    BY <1>2 DEF Resendable, Opens, BillingOps, Good, InviteGood, UserGood, StructureGood, SiteGood, Existing
  <2> QED
    BY <1>2, <2>1, Zenon DEF Ask, Checked
<1>3. ASSUME NEW c \in People, NEW i \in Invites, resendInvitation(s, c, i) \/ revokeInvitation(s, c, i)
      PROVE  Checked(s)
  BY <1>2, <1>3 DEF resendInvitation, revokeInvitation, Resending, Revoking
<1>4. ASSUME NEW c \in People, NEW p \in People, resendInviteForUser(s, c, p)
      PROVE  Checked(s)
  <2>1. PICK i \in Pending(p) : Ask(s, c, Resending(i, c))
    BY <1>4 DEF resendInviteForUser
  <2>2. i \in Invites /\ Resendable(i)
    BY DEF Pending, Resendable
  <2> QED
    BY <1>2, <2>1, <2>2 DEF Resending
<1> QED
  BY <1>1, <1>3, <1>4, Zenon DEF InvitationRequests

LEMMA EveryCheck ==
    ASSUME DirectoryInv, NEW s \in Slots, Asks(s)
    PROVE  Checked(s)
BY UserChecks, StructureChecks, SiteChecks, InvitingChecks, PlatformChecks, InvitationChecks, Zenon
   DEF Asks, InvitationAsks

-----------------------------------------------------------------------------
(* What happens between the checks of a request and its writes. *)

\* Nobody loses their account, and of an invitation only the time can run out.
Meanwhile ==
    /\ UNCHANGED <<member, grants, access, sites, groups, place>>
    /\ \A p \in People : users[p].active => users'[p].active
    /\ \A i \in Invites :
           /\ invites'[i].scopes = invites[i].scopes /\ invites'[i].siteFor = invites[i].siteFor
           /\ invites'[i].link = invites[i].link
           /\ \/ invites'[i].status = invites[i].status
              \/ invites[i].status = "PENDING" /\ invites'[i].status = "EXPIRED"

LEMMA ResolvesTheSame ==
    ASSUME UNCHANGED <<sites, groups, place>>
    PROVE  /\ KnownSites' = KnownSites
           /\ \A g : GroupExists(g)' = GroupExists(g)
           /\ \A scopes : resolveAll(scopes)' = resolveAll(scopes)
<1>1. KnownSites' = KnownSites /\ \A g : GroupExists(g)' = GroupExists(g)
  BY DEF KnownSites, GroupExists, ScopeExists
<1>2. \A scope : resolve(scope)' = resolve(scope)
  BY <1>1, Zenon DEF resolve, ScopeExists
<1>3. \A scopes : resolveAll(scopes)' = resolveAll(scopes)
  BY <1>2 DEF resolveAll
<1> QED
  BY <1>1, <1>3

(* Reach depends on members, grants, sites and groups alone. *)
LEMMA ReachStays ==
    ASSUME UNCHANGED <<member, grants, access, sites, groups, place>>
    PROVE  /\ \A p : /\ getAllowedSiteIds(p)' = getAllowedSiteIds(p)
                     /\ ShownRole(p)' = ShownRole(p)
                     /\ IsMember(p)' = IsMember(p)
           /\ \A scopes : resolveAll(scopes)' = resolveAll(scopes)
           /\ \A g : GroupExists(g)' = GroupExists(g)
           /\ KnownSites' = KnownSites
           /\ \A scopes, siteFor : TargetsKnown(scopes, siteFor)' = TargetsKnown(scopes, siteFor)
<1>1. KnownSites' = KnownSites /\ \A g : GroupExists(g)' = GroupExists(g)
  BY ResolvesTheSame
<1>3. \A scopes : resolveAll(scopes)' = resolveAll(scopes)
  BY ResolvesTheSame
<1>4. \A p : getEnterpriseRole(p)' = getEnterpriseRole(p)
  BY Zenon DEF getEnterpriseRole
<1>5. \A p : getAllowedSiteIds(p)' = getAllowedSiteIds(p)
  BY <1>1, <1>3, <1>4 DEF getAllowedSiteIds
<1>6. \A p : ShownRole(p)' = ShownRole(p) /\ IsMember(p)' = IsMember(p)
  BY Zenon DEF ShownRole, IsMember
<1>7. \A scopes, siteFor : TargetsKnown(scopes, siteFor)' = TargetsKnown(scopes, siteFor)
  BY Zenon DEF TargetsKnown
<1> QED
  BY <1>1, <1>3, <1>5, <1>6, <1>7, Zenon

LEMMA SuperAdminsStay ==
    ASSUME Meanwhile, NEW p, NEW role, assertNotLastSuperAdmin(p, role)
    PROVE  assertNotLastSuperAdmin(p, role)'
<1>1. ShownRole(p)' = ShownRole(p)
  BY ReachStays DEF Meanwhile
<1>2. OtherSuperAdmins(p) \subseteq OtherSuperAdmins(p)'
  BY DEF Meanwhile, OtherSuperAdmins
<1> QED
  BY <1>1, <1>2 DEF assertNotLastSuperAdmin

LEMMA ChecksHold ==
    ASSUME Meanwhile, NEW w, Good(w)
    PROVE  Good(w)'
<1>1. InviteGood(w)'
  <2>1. TargetsKnown(w.scopes, w.siteFor)' = TargetsKnown(w.scopes, w.siteFor)
    BY ReachStays DEF Meanwhile
  <2>2. TargetsKnown(w.inv.scopes, w.inv.siteFor)' = TargetsKnown(w.inv.scopes, w.inv.siteFor)
    BY ReachStays DEF Meanwhile
  <2>3. /\ resolveAll(w.scopes)' = resolveAll(w.scopes)
        /\ resolveAll(invites[w.i].scopes)' = resolveAll(invites'[w.i].scopes)
        /\ getAllowedSiteIds(w.by)' = getAllowedSiteIds(w.by)
    BY ReachStays DEF Meanwhile
  <2>4. w.i \in Invites =>
          /\ invites'[w.i].scopes = invites[w.i].scopes /\ invites'[w.i].link = invites[w.i].link
          /\ \/ invites'[w.i].status = invites[w.i].status
             \/ invites[w.i].status = "PENDING" /\ invites'[w.i].status = "EXPIRED"
    BY DEF Meanwhile
  <2>5. w.op = "issue" => InviteGood(w)'
    BY <2>1, <2>3, <2>4 DEF Good, InviteGood
  <2>6. w.op = "accept" => InviteGood(w)'
    BY <2>2, <2>4 DEF Good, InviteGood
  <2> QED
    BY <2>4, <2>5, <2>6 DEF Good, InviteGood
<1>2. UserGood(w)'
  <2>1. /\ assertNotLastSuperAdmin(w.who, w.role) => assertNotLastSuperAdmin(w.who, w.role)'
        /\ assertNotLastSuperAdmin(w.who, Null) => assertNotLastSuperAdmin(w.who, Null)'
    BY SuperAdminsStay
  <2>2. /\ ShownRole(w.who)' = ShownRole(w.who)
        /\ resolveAll(w.scopes)' = resolveAll(w.scopes)
        /\ getAllowedSiteIds(w.by)' = getAllowedSiteIds(w.by)
    BY ReachStays DEF Meanwhile
  <2> QED
    BY <2>1, <2>2 DEF Good, UserGood, assertScopeSatisfiesRole, assertScopesWithinCallerReach
<1>3. StructureGood(w)'
  <2>1. /\ GroupExists(w.g)' = GroupExists(w.g) /\ KnownSites' = KnownSites
        /\ getAllowedSiteIds(w.by)' = getAllowedSiteIds(w.by)
    BY ReachStays DEF Meanwhile
  <2> QED
    BY <2>1 DEF Good, StructureGood, assertSitesWithinReach
<1>4. SiteGood(w)'
  <2>1. GroupExists(w.g)' = GroupExists(w.g) /\ IsMember(w.who)' = IsMember(w.who)
    BY ReachStays DEF Meanwhile
  <2>2. UNCHANGED sites
    BY DEF Meanwhile
  <2> QED
    BY <2>1, <2>2 DEF Good, SiteGood
<1> QED
  BY <1>1, <1>2, <1>3, <1>4 DEF Good

(* A step like that keeps the invariant, if the tables keep their types. *)
LEMMA MeanwhileKeepsInv ==
    ASSUME DirectoryInv, Meanwhile,
           users' \in [People -> User], invites' \in [Invites -> Invitation],
           DOMAIN call' = Slots,
           \A s \in Slots : call'[s] = call[s] \/ \E w : call'[s] = w /\ Good(w)
    PROVE  DirectoryInv'
<1>1. DirectoryTypes'
  BY DEF DirectoryInv, DirectoryTypes, Meanwhile
<1>2. References'
  BY DEF DirectoryInv, References, Meanwhile, GroupExists, ScopeExists
<1>3. InvitesSound'
  <2> SUFFICES ASSUME NEW i \in Invites
               PROVE  /\ invites'[i].link = 0 <=> invites'[i].status = Null
                      /\ TargetsKnown(invites[i].scopes, invites[i].siteFor)'
    BY Zenon DEF InvitesSound
  <2>1. TargetsKnown(invites[i].scopes, invites[i].siteFor)
    BY DEF DirectoryInv, InvitesSound
  <2>2. invites'[i].link = 0 <=> invites'[i].status = Null
    BY DirectoryAssumption DEF DirectoryInv, InvitesSound, Meanwhile
  <2>3. UNCHANGED sites /\ invites'[i].scopes = invites[i].scopes /\ invites'[i].siteFor = invites[i].siteFor
    BY DEF Meanwhile
  <2> QED
    BY <2>1, <2>2, <2>3 DEF TargetsKnown
<1>4. ASSUME NEW s \in Slots
      PROVE  Good(call[s])'
  <2>1. PICK w : call'[s] = w /\ Good(w)
    BY DEF DirectoryInv
  <2> QED
    BY <2>1, ChecksHold
<1> QED
  BY <1>1, <1>2, <1>3, <1>4 DEF DirectoryInv

-----------------------------------------------------------------------------
(* The steps that write none of the structure of the directory. *)

LEMMA NothingAsked ==
    ASSUME NEW w, w.op \in BillingOps
    PROVE  Good(w) /\ Good(w)'
BY DEF BillingOps, Good, InviteGood, UserGood, StructureGood, SiteGood, Existing

LEMMA AskKeepsInv ==
    ASSUME DirectoryInv, NEW s \in Slots, Asks(s)
    PROVE  DirectoryInv'
<1>1. UNCHANGED rows /\ Checked(s)
  BY AskInSteps, EveryCheck, Zenon DEF Asked
<1>2. Meanwhile
  BY <1>1 DEF rows, Meanwhile
<1>3. users' \in [People -> User] /\ invites' \in [Invites -> Invitation] /\ DOMAIN call = Slots
  BY <1>1 DEF rows, DirectoryInv, DirectoryTypes
<1>4. PICK w : call' = [call EXCEPT ![s] = w] /\ Good(w)
  BY <1>1, Zenon DEF Checked
<1> QED
  BY <1>2, <1>3, <1>4, MeanwhileKeepsInv

LEMMA AccountsKeepInv ==
    ASSUME DirectoryInv, AccountSteps
    PROVE  DirectoryInv'
<1>1. /\ UNCHANGED <<member, grants, access, sites, groups, place, invites, call>>
      /\ \/ UNCHANGED users
         \/ \E p \in People :
              \/ users' = [users EXCEPT ![p] = [exists |-> TRUE, active |-> TRUE, verified |-> FALSE]]
              \/ users' = [users EXCEPT ![p].verified = TRUE]
  BY Zenon DEF AccountSteps, registerBusiness, resendVerificationEmail, CodeLapses, login, verifyEmail, rows
<1>2. users \in [People -> User]
  BY DEF DirectoryInv, DirectoryTypes
<1>3. users' \in [People -> User]
  <2>1. \A p \in People : [users[p] EXCEPT !.verified = TRUE] \in User
    BY <1>2 DEF User
  <2>2. [exists |-> TRUE, active |-> TRUE, verified |-> FALSE] \in User
    BY DEF User
  <2> QED
    BY <1>1, <1>2, <2>1, <2>2, Zenon
<1>3a. \A p \in People : users'[p].active = users[p].active \/ users'[p].active = TRUE
  BY <1>1, <1>2 DEF User
<1>4. Meanwhile
  BY <1>1, <1>3a, Zenon DEF Meanwhile
<1> QED
  BY <1>1, <1>3, <1>4, MeanwhileKeepsInv DEF DirectoryInv, DirectoryTypes

\* Of some invitations the time is over, or is found to be.
Ageing ==
    /\ \A i \in Invites :
           \/ invites'[i] = invites[i]
           \/ invites'[i] = [invites[i] EXCEPT !.lapsed = TRUE]
           \/ invites[i].status = "PENDING" /\ invites'[i] = [invites[i] EXCEPT !.status = "EXPIRED"]
    /\ invites' = [i \in Invites |-> invites'[i]]

LEMMA AgeingIsTime ==
    ASSUME DirectoryInv, Ageing, UNCHANGED <<users, member, grants, access, sites, groups, place>>
    PROVE  Meanwhile /\ invites' \in [Invites -> Invitation]
<1>1. \A i \in Invites : invites[i] \in Invitation
  BY DEF DirectoryInv, DirectoryTypes
<1>2. ASSUME NEW i \in Invites
      PROVE  /\ invites'[i] \in Invitation
             /\ invites'[i].scopes = invites[i].scopes /\ invites'[i].siteFor = invites[i].siteFor
             /\ invites'[i].link = invites[i].link
             /\ \/ invites'[i].status = invites[i].status
                \/ invites[i].status = "PENDING" /\ invites'[i].status = "EXPIRED"
  <2>1. invites[i] \in Invitation
    BY <1>1
  <2>2. CASE invites'[i] = invites[i]
    BY <2>1, <2>2, Zenon
  <2>3. CASE invites'[i] = [invites[i] EXCEPT !.lapsed = TRUE]
    BY <2>1, <2>3 DEF Invitation
  <2>4. CASE invites[i].status = "PENDING" /\ invites'[i] = [invites[i] EXCEPT !.status = "EXPIRED"]
    BY <2>1, <2>4 DEF Invitation, InvitationStatus
  <2> QED
    BY <2>2, <2>3, <2>4, Zenon DEF Ageing
<1>3. invites' = [i \in Invites |-> invites'[i]]
  BY DEF Ageing
<1> QED
  BY <1>2, <1>3 DEF Meanwhile

LEMMA LinksAge ==
    ASSUME DirectoryInv, LinkSteps
    PROVE  Ageing /\ UNCHANGED <<users, member, grants, access, sites, groups, place, call>>
<1>0. invites = [i \in Invites |-> invites[i]]
  BY DEF DirectoryInv, DirectoryTypes
<1>1. ASSUME NEW i \in Invites, Lapse(i) \/ DescribeLapsed(i)
      PROVE  Ageing
  <2>1. \/ invites' = [invites EXCEPT ![i].lapsed = TRUE]
        \/ invites' = [invites EXCEPT ![i].status = "EXPIRED"] /\ invites[i].status = "PENDING"
    BY <1>1 DEF Lapse, DescribeLapsed
  <2>2. \A j \in Invites :
           \/ invites'[j] = invites[j]
           \/ invites'[j] = [invites[j] EXCEPT !.lapsed = TRUE]
           \/ invites[j].status = "PENDING" /\ invites'[j] = [invites[j] EXCEPT !.status = "EXPIRED"]
    BY <1>0, <2>1
  <2>3. invites' = [j \in Invites |-> invites'[j]]
    BY <1>0, <2>1
  <2> QED
    BY <2>2, <2>3, Zenon DEF Ageing
<1>2. UNCHANGED <<users, member, grants, access, sites, groups, place, call>>
  BY Zenon DEF LinkSteps, Lapse, DescribeLapsed
<1> QED
  BY <1>1, <1>2, Zenon DEF LinkSteps

LEMMA LinksKeepInv ==
    ASSUME DirectoryInv, LinkSteps
    PROVE  DirectoryInv'
BY LinksAge, AgeingIsTime, MeanwhileKeepsInv DEF DirectoryInv, DirectoryTypes

LEMMA ExpiryAges ==
    ASSUME DirectoryInv, expireLapsedInvitations
    PROVE  Ageing /\ UNCHANGED <<users, member, grants, access, sites, groups, place>>
<1>1. Ageing
  <2>1. LapsedInvites \in SUBSET Invites /\ \A i \in LapsedInvites : invites[i].status = "PENDING"
    BY DEF LapsedInvites
  <2>2. \A j \in Invites :
           \/ invites'[j] = invites[j]
           \/ invites[j].status = "PENDING" /\ invites'[j] = [invites[j] EXCEPT !.status = "EXPIRED"]
    BY <2>1 DEF expireLapsedInvitations
  <2>3. invites' = [i \in Invites |-> invites'[i]]
    BY <2>1 DEF expireLapsedInvitations
  <2> QED
    BY <2>1, <2>2, <2>3, Zenon DEF Ageing
<1> QED
  BY <1>1 DEF expireLapsedInvitations

(* Billing touches the directory only where the daily job marks what lapsed. *)
LEMMA BillingAside ==
    ASSUME NEW s \in Slots, BillingSteps(s)
    PROVE  /\ UNCHANGED rows \/ expireLapsedInvitations
           /\ \E w : call' = [call EXCEPT ![s] = w] /\ w.op \in BillingOps
<1> DEFINE Aside == \E w : call' = [call EXCEPT ![s] = w] /\ w.op \in BillingOps
<1>1. ASSUME NEW w, w.op \in BillingOps, Ask(s, Platform, w)
      PROVE  Aside /\ UNCHANGED rows
  BY <1>1, Zenon DEF Ask
<1>2. ASSUME NEW w, w.op \in BillingOps, Goes(s, w)
      PROVE  Aside
  BY <1>2, Zenon DEF Goes
<1>3. Done(s) => Aside
  <2>1. Idle.op \in BillingOps
    BY DEF Idle, BillingOps
  <2> QED
    BY <2>1, Zenon DEF Done
<1>4. CASE BillingRequests(s)
  <2>1. \A f, x, y : createContractStart(s, f, x, y) => Aside /\ UNCHANGED rows
    BY <1>1 DEF createContractStart, BillingOps
  <2>2. \A x, y : updateContractStart(s, x, y) => Aside /\ UNCHANGED rows
    BY <1>1 DEF updateContractStart, BillingOps
  <2>3. \A x : generateInvoice(s, x) => Aside /\ UNCHANGED rows
    BY <1>1 DEF generateInvoice, Billing, BillingOps
  <2>4. \A d : markInvoicePaidStart(s, d) \/ cancelInvoiceStart(s, d) => Aside /\ UNCHANGED rows
    BY <1>1 DEF markInvoicePaidStart, cancelInvoiceStart, BillingOps
  <2>5. Aside /\ UNCHANGED rows
    <3> HIDE DEF Aside
    <3> QED
      BY <1>4, <2>1, <2>2, <2>3, <2>4, Zenon DEF BillingRequests
  <2> QED
    BY <2>5
<1>5. CASE BillingWrites(s)
  <2>1. RaiseStart(s) => Aside
    BY <1>2 DEF RaiseStart, BillingOps
  <2>2. ~RaiseStart(s) => Done(s)
    BY <1>5, Zenon DEF BillingWrites, createContract, updateContract, SettleInvoice,
       NotActive, ContractOver, RaiseInvoice, AlreadyInvoiced
  <2>3. UNCHANGED directory
    BY <1>5, Zenon DEF BillingWrites, createContract, updateContract, SettleInvoice, RaiseStart,
       NotActive, ContractOver, RaiseInvoice, AlreadyInvoiced
  <2> QED
    BY <1>3, <2>1, <2>2, <2>3, Zenon DEF directory
<1>6. CASE generateDueInvoices(s)
  BY <1>2, <1>6 DEF generateDueInvoices, Billing, BillingOps, directory
<1>7. CASE markOverdue(s)
  BY <1>2, <1>7 DEF markOverdue, BillingOps, directory
<1>8. CASE expireLapsed(s)
  BY <1>3, <1>8, Zenon DEF expireLapsed
<1> QED
  BY <1>4, <1>5, <1>6, <1>7, <1>8, Zenon DEF BillingSteps, DailyJobs

LEMMA BillingKeepsDirectory ==
    ASSUME DirectoryInv, NEW s \in Slots, BillingSteps(s)
    PROVE  DirectoryInv'
<1>1. PICK w : /\ call' = [call EXCEPT ![s] = w]
               /\ w.op \in BillingOps
  BY BillingAside
<1>2. DOMAIN call' = Slots /\ \A t \in Slots : call'[t] = call[t] \/ \E v : call'[t] = v /\ Good(v)
  BY <1>1, NothingAsked DEF DirectoryInv, DirectoryTypes
<1>3. CASE UNCHANGED rows
  BY <1>2, <1>3, MeanwhileKeepsInv DEF rows, Meanwhile, DirectoryInv, DirectoryTypes
<1>4. CASE expireLapsedInvitations
  BY <1>2, <1>4, ExpiryAges, AgeingIsTime, MeanwhileKeepsInv DEF DirectoryInv, DirectoryTypes
<1> QED
  BY <1>3, <1>4, BillingAside

-----------------------------------------------------------------------------
(* The writes of the directory. *)

Tables == DirectoryTypes /\ References /\ InvitesSound

LEMMA InviteWritten ==
    ASSUME DirectoryInv, NEW i \in Invites, NEW row \in Invitation,
           row.link # 0, row.status # Null, TargetsKnown(row.scopes, row.siteFor),
           invites' = [invites EXCEPT ![i] = row], UNCHANGED sites
    PROVE  invites' \in [Invites -> Invitation] /\ InvitesSound'
<1>1. invites' \in [Invites -> Invitation]
  BY DEF DirectoryInv, DirectoryTypes
<1>2. ASSUME NEW j \in Invites
      PROVE  /\ invites'[j].link = 0 <=> invites'[j].status = Null
             /\ TargetsKnown(invites[j].scopes, invites[j].siteFor)'
  <2>1. \A scopes, siteFor : TargetsKnown(scopes, siteFor)' = TargetsKnown(scopes, siteFor)
    BY Zenon DEF TargetsKnown
  <2>2. invites \in [Invites -> Invitation] /\ InvitesSound
    BY DEF DirectoryInv, DirectoryTypes
  <2>3. CASE j = i
    BY <2>1, <2>2, <2>3
  <2>4. CASE j # i
    BY <2>1, <2>2, <2>4 DEF InvitesSound
  <2> QED
    BY <2>3, <2>4
<1> QED
  BY <1>1, <1>2 DEF InvitesSound

LEMMA IssueWrites ==
    ASSUME DirectoryInv, NEW s \in Slots, Issue(s)
    PROVE  Tables'
<1> DEFINE w == call[s]
           row == invites'[w.i]
<1>1. /\ w.i \in Invites /\ w.email \in People /\ w.role \in EnterpriseRole
      /\ w.scopes \in SUBSET UserScope /\ w.siteFor \in Sites \cup {Null}
      /\ TargetsKnown(w.scopes, w.siteFor)
  BY DEF Issue, Writes, DirectoryInv, Good, InviteGood
<1>2. invites[w.i] \in Invitation /\ invites \in [Invites -> Invitation]
  BY <1>1 DEF DirectoryInv, DirectoryTypes
<1>3. row = [status |-> IF invites[w.i].status = Null THEN "PENDING" ELSE invites[w.i].status,
              email |-> w.email, role |-> w.role, scopes |-> w.scopes, siteFor |-> w.siteFor,
              link |-> invites[w.i].link + 1, lapsed |-> FALSE]
  BY <1>1, <1>2 DEF Issue
<1>4. /\ row \in Invitation /\ row.link = invites[w.i].link + 1
      /\ row.status = IF invites[w.i].status = Null THEN "PENDING" ELSE invites[w.i].status
      /\ row.scopes = w.scopes /\ row.siteFor = w.siteFor
  BY <1>1, <1>2, <1>3 DEF Invitation, InvitationStatus
<1>5. invites' = [invites EXCEPT ![w.i] = row]
  BY <1>1, <1>2 DEF Issue
<1>6. UNCHANGED <<users, member, grants, access, sites, groups, place>> /\ DOMAIN call' = DOMAIN call
  BY DEF Issue, Done
<1>7. row.link # 0 /\ row.status # Null
  BY <1>2, <1>4, DirectoryAssumption DEF Invitation
<1> HIDE DEF row, w
<1>8. invites' \in [Invites -> Invitation] /\ InvitesSound'
  BY <1>1, <1>4, <1>5, <1>6, <1>7, InviteWritten
<1>9. DirectoryTypes' /\ References'
  BY <1>6, <1>8 DEF DirectoryInv, DirectoryTypes, References, GroupExists, ScopeExists
<1> QED
  BY <1>8, <1>9 DEF Tables

LEMMA ResendRevokeWrite ==
    ASSUME DirectoryInv, NEW s \in Slots, Resend(s) \/ Revoke(s)
    PROVE  Tables'
<1> DEFINE i == call[s].i
           row == invites'[i]
<1>1. i \in Invites /\ invites[i].status \in {"PENDING", "REVOKED", "EXPIRED"}
  BY DEF Resend, Revoke, Writes, DirectoryInv, Good, InviteGood
<1>2. invites[i] \in Invitation /\ invites \in [Invites -> Invitation]
  BY <1>1 DEF DirectoryInv, DirectoryTypes
<1>3. invites[i].link # 0 /\ TargetsKnown(invites[i].scopes, invites[i].siteFor)
  BY <1>1, DirectoryAssumption DEF DirectoryInv, InvitesSound
<1>4. PICK k : k = invites[i].link + 1
  OBVIOUS
<1>5. /\ row \in Invitation /\ row.link # 0
      /\ row.status \in {"PENDING", "REVOKED"}
      /\ row.scopes = invites[i].scopes /\ row.siteFor = invites[i].siteFor
  <2>1. invites[i].link \in Nat /\ k \in Nat /\ k # 0
    BY <1>2, <1>4 DEF Invitation
  <2>2. CASE Resend(s)
    <3>1. row = [invites[i] EXCEPT !.status = "PENDING", !.link = k, !.lapsed = FALSE]
      BY <1>1, <1>2, <1>4, <2>2 DEF Resend
    <3> QED
      BY <1>2, <2>1, <3>1 DEF Invitation, InvitationStatus
  <2>3. CASE Revoke(s)
    <3>1. row = [invites[i] EXCEPT !.status = "REVOKED"]
      BY <1>1, <1>2, <2>3 DEF Revoke
    <3> QED
      BY <1>2, <1>3, <3>1 DEF Invitation, InvitationStatus
  <2> QED
    BY <2>2, <2>3
<1>6. invites' = [invites EXCEPT ![i] = row]
  BY <1>1, <1>2 DEF Resend, Revoke
<1>7. UNCHANGED <<users, member, grants, access, sites, groups, place>> /\ DOMAIN call' = DOMAIN call
  BY DEF Resend, Revoke, Done
<1> HIDE DEF row, i
<1>8. invites' \in [Invites -> Invitation] /\ InvitesSound'
  BY <1>1, <1>3, <1>5, <1>6, <1>7, InviteWritten, DirectoryAssumption
<1>9. DirectoryTypes' /\ References'
  BY <1>7, <1>8 DEF DirectoryInv, DirectoryTypes, References, GroupExists, ScopeExists
<1> QED
  BY <1>8, <1>9 DEF Tables

(* An accepted invitation grants accesses to sites that exist. *)
LEMMA GrantedOnSites ==
    ASSUME NEW inv, TargetsKnown(inv.scopes, inv.siteFor),
           NEW held \in [Sites -> SiteRole \cup {Null}],
           \A x \in Sites : held[x] # Null => sites[x] # Null
    PROVE  /\ GrantedAccess(inv, held) \in [Sites -> SiteRole \cup {Null}]
           /\ \A x \in Sites : GrantedAccess(inv, held)[x] # Null => sites[x] # Null
BY DEF GrantedAccess, TargetsKnown, SiteRole

LEMMA AcceptWrites ==
    ASSUME DirectoryInv, NEW s \in Slots, Accept(s)
    PROVE  Tables'
<1> DEFINE i == call[s].i
           inv == call[s].inv
           p == inv.email
           row == invites'[i]
<1>1. /\ i \in Invites /\ inv \in Invitation /\ TargetsKnown(inv.scopes, inv.siteFor)
      /\ inv.link \in 1 .. invites[i].link
  BY DEF Accept, Writes, DirectoryInv, Good, InviteGood
<1>2. invites[i] \in Invitation /\ invites \in [Invites -> Invitation]
  BY <1>1 DEF DirectoryInv, DirectoryTypes
<1>3. row = [invites[i] EXCEPT !.status = "ACCEPTED"] /\ invites' = [invites EXCEPT ![i] = row]
  BY <1>1, <1>2 DEF Accept
<1>4. /\ row \in Invitation /\ row.link = invites[i].link /\ row.status = "ACCEPTED"
      /\ row.scopes = invites[i].scopes /\ row.siteFor = invites[i].siteFor
  BY <1>2, <1>3 DEF Invitation, InvitationStatus
<1>5. row.link # 0
  BY <1>1, <1>2, <1>4 DEF Invitation
<1>6. UNCHANGED <<sites, groups, place>> /\ DOMAIN call' = DOMAIN call
  BY DEF Accept, Done
<1>7. invites' \in [Invites -> Invitation] /\ InvitesSound'
  <2>1. TargetsKnown(row.scopes, row.siteFor)
    BY <1>1, <1>4 DEF DirectoryInv, InvitesSound
  <2> HIDE DEF row, i, inv, p
  <2> QED
    BY <1>1, <1>3, <1>4, <1>5, <1>6, <2>1, InviteWritten, DirectoryAssumption
<1>8. users' \in [People -> User]
  BY DEF Accept, DirectoryInv, DirectoryTypes, ActiveUser, User
<1>9. /\ member' \in [People -> Membership]
      /\ \A q \in People : member'[q].role # Null => member'[q].orgRole # Null
  <2> DEFINE m == [orgRole |-> IF IsMember(p) THEN member[p].orgRole
                              ELSE IF inv.role = "SUPER_ADMIN" THEN "SUPER_ADMIN" ELSE "ORG_MEMBER",
                   role |-> inv.role]
  <2>1. member' = [member EXCEPT ![p] = m]
    BY DEF Accept
  <2>2. p \in People => m \in Membership /\ m.orgRole # Null
    BY <1>1, DirectoryAssumption DEF DirectoryInv, DirectoryTypes, Membership, OrgRole, IsMember, Invitation
  <2>3. /\ member \in [People -> Membership]
        /\ \A q \in People : member[q].role # Null => member[q].orgRole # Null
    BY DEF DirectoryInv, DirectoryTypes, References
  <2> HIDE DEF m, p, inv
  <2> QED
    BY <2>1, <2>2, <2>3
<1>10. grants' \in [People -> SUBSET UserScope]
  BY <1>1 DEF Accept, DirectoryInv, DirectoryTypes, Invitation
<1>11. /\ access' \in [People -> [Sites -> SiteRole \cup {Null}]]
       /\ \A q \in People, x \in Sites : access'[q][x] # Null => sites[x] # Null
  <2>1. access' = [access EXCEPT ![p] = GrantedAccess(inv, access[p])]
    BY DEF Accept
  <2>2. /\ access \in [People -> [Sites -> SiteRole \cup {Null}]]
        /\ \A q \in People, x \in Sites : access[q][x] # Null => sites[x] # Null
    BY DEF DirectoryInv, DirectoryTypes, References
  <2>3. p \in People =>
          /\ GrantedAccess(inv, access[p]) \in [Sites -> SiteRole \cup {Null}]
          /\ \A x \in Sites : GrantedAccess(inv, access[p])[x] # Null => sites[x] # Null
    BY <1>1, <2>2, GrantedOnSites
  <2> HIDE DEF p, inv
  <2> QED
    BY <2>1, <2>2, <2>3
<1> HIDE DEF row, i, inv, p
<1>12. DirectoryTypes'
  BY <1>6, <1>7, <1>8, <1>9, <1>10, <1>11 DEF DirectoryInv, DirectoryTypes
<1>13. References'
  BY <1>6, <1>9, <1>11 DEF DirectoryInv, References, GroupExists, ScopeExists
<1> QED
  BY <1>7, <1>12, <1>13 DEF Tables

LEMMA TablesStay ==
    ASSUME DirectoryInv, UNCHANGED <<users, member, grants, access, sites, groups, place, invites>>,
           DOMAIN call' = DOMAIN call
    PROVE  Tables'
<1>1. DirectoryTypes' /\ References'
  BY DEF DirectoryInv, DirectoryTypes, References, GroupExists, ScopeExists
<1>2. InvitesSound'
  BY DEF DirectoryInv, InvitesSound, TargetsKnown
<1> QED
  BY <1>1, <1>2 DEF Tables

(* Members, their scopes and their standing. *)
LEMMA UserWritesTables ==
    ASSUME DirectoryInv, NEW s \in Slots, UserWrites(s)
    PROVE  Tables'
<1> DEFINE w == call[s]
<1>1. InvitesSound'
  <2>1. UNCHANGED <<invites, sites>>
    BY DEF UserWrites, UpdateUser, SetRole, SetScopes, SetActive
  <2> QED
    BY <2>1 DEF DirectoryInv, InvitesSound, TargetsKnown
<1>2. UNCHANGED <<access, sites, groups, place, invites>> /\ DOMAIN call' = DOMAIN call
  BY DEF UserWrites, UpdateUser, SetRole, SetScopes, SetActive, Done
<1>3. /\ users' \in [People -> User]
      /\ member' \in [People -> Membership]
      /\ grants' \in [People -> SUBSET UserScope]
      /\ \A q \in People : member'[q].role # Null => member'[q].orgRole # Null
  <2>1. CASE UpdateUser(s) \/ SetRole(s)
    <3> DEFINE m == [orgRole |-> OrgRoleOf(w.role), role |-> w.role]
    <3>1. w.who \in People /\ w.role \in PORTAL_ROLES /\ (SetRole(s) => w.scopes \in SUBSET UserScope)
      BY <2>1 DEF UpdateUser, SetRole, Writes, DirectoryInv, Good, UserGood
    <3>2. m \in Membership /\ m.orgRole # Null
      BY <3>1, DirectoryAssumption DEF Membership, OrgRole, OrgRoleOf, PORTAL_ROLES, EnterpriseRole
    <3>3. member' = [member EXCEPT ![w.who] = m] /\ UNCHANGED users
      BY <2>1 DEF UpdateUser, SetRole
    <3>4. \/ grants' = [grants EXCEPT ![w.who] = IF isUnrestricted(w.role) THEN {} ELSE @]
          \/ grants' = [grants EXCEPT ![w.who] = w.scopes] /\ w.scopes \in SUBSET UserScope
      BY <2>1, <3>1 DEF UpdateUser, SetRole
    <3> HIDE DEF m, w
    <3> QED
      BY <3>1, <3>2, <3>3, <3>4 DEF DirectoryInv, DirectoryTypes, References
  <2>2. CASE SetScopes(s)
    <3>1. w.who \in People /\ w.scopes \in SUBSET UserScope
      BY <2>2 DEF SetScopes, Writes, DirectoryInv, Good, UserGood
    <3> QED
      BY <2>2, <3>1 DEF SetScopes, DirectoryInv, DirectoryTypes, References
  <2>3. CASE SetActive(s)
    <3>1. w.who \in People /\ w.on \in BOOLEAN
      BY <2>3 DEF SetActive, Writes, DirectoryInv, Good, UserGood
    <3>2. [users[w.who] EXCEPT !.active = w.on] \in User
      BY <3>1 DEF DirectoryInv, DirectoryTypes, User
    <3>3. users' = [users EXCEPT ![w.who] = [users[w.who] EXCEPT !.active = w.on]]
      BY <2>3 DEF SetActive
    <3>4. UNCHANGED <<member, grants>>
      BY <2>3 DEF SetActive
    <3> HIDE DEF w
    <3> QED
      BY <3>1, <3>2, <3>3, <3>4 DEF DirectoryInv, DirectoryTypes, References
  <2> QED
    BY <2>1, <2>2, <2>3 DEF UserWrites
<1> HIDE DEF w
<1>4. DirectoryTypes' /\ References'
  BY <1>2, <1>3 DEF DirectoryInv, DirectoryTypes, References, GroupExists, ScopeExists
<1> QED
  BY <1>1, <1>4 DEF Tables

(* Invitations go on naming sites that exist as long as no site vanishes. *)
LEMMA InvitesStaySound ==
    ASSUME DirectoryInv, UNCHANGED invites,
           \A x \in Sites : sites[x] # Null => sites'[x] # Null
    PROVE  InvitesSound'
BY DEF DirectoryInv, InvitesSound, TargetsKnown

(* Groups, and the sites placed in them. *)
LEMMA StructureWritesTables ==
    ASSUME DirectoryInv, NEW s \in Slots, StructureWrites(s)
    PROVE  Tables'
<1> DEFINE w == call[s]
<1> USE DEF Writes
<1>1. UNCHANGED <<users, member, grants, access, sites, invites>> /\ DOMAIN call' = DOMAIN call
  BY DEF StructureWrites, CreateGroup, GroupActive, RemoveGroup, AssignSites, UnassignSite, Snapshot, Done
<1>2. /\ groups \in [Groups -> {"active", "inactive", "deleted", Null}]
      /\ place \in [Sites -> Groups \cup {Null}]
      /\ \A x \in Sites : place[x] # Null => sites[x] # Null /\ groups[place[x]] \in {"active", "inactive"}
  BY DEF DirectoryInv, DirectoryTypes, References, GroupExists, ScopeExists
<1>3. Null \notin Groups
  BY DirectoryAssumption
<1>4. /\ groups' \in [Groups -> {"active", "inactive", "deleted", Null}]
      /\ place' \in [Sites -> Groups \cup {Null}]
      /\ \A x \in Sites : place'[x] # Null => sites[x] # Null /\ groups'[place'[x]] \in {"active", "inactive"}
  <2>1. CASE CreateGroup(s) \/ GroupActive(s)
    <3>1. UNCHANGED place
      BY <2>1 DEF CreateGroup, GroupActive
    <3>2. w.g \in Groups /\ \E standing \in {"active", "inactive"} : groups' = [groups EXCEPT ![w.g] = standing]
      BY <2>1 DEF CreateGroup, GroupActive, DirectoryInv, Good, StructureGood
    <3> HIDE DEF w
    <3> QED
      BY <1>2, <3>1, <3>2
  <2>2. CASE RemoveGroup(s)
    <3>1. w.g \in Groups
      BY <2>2 DEF RemoveGroup, DirectoryInv, Good, StructureGood
    <3>2. /\ groups' = [groups EXCEPT ![w.g] = "deleted"]
          /\ place' = [x \in Sites |-> IF place[x] = w.g THEN Null ELSE place[x]]
      BY <2>2 DEF RemoveGroup
    <3> HIDE DEF w
    <3> QED
      BY <1>2, <3>1, <3>2
  <2>3. CASE AssignSites(s)
    <3>1. /\ w.g \in Groups /\ groups[w.g] \in {"active", "inactive"}
          /\ \A x \in w.ss : sites[x] # Null
      BY <2>3 DEF AssignSites, DirectoryInv, Good, StructureGood, GroupExists, ScopeExists, KnownSites
    <3>2. UNCHANGED groups /\ place' = [x \in Sites |-> IF x \in w.ss THEN w.g ELSE place[x]]
      BY <2>3 DEF AssignSites, upsertAssignment
    <3> HIDE DEF w
    <3> QED
      BY <1>2, <3>1, <3>2
  <2>4. CASE UnassignSite(s)
    BY <1>2, <2>4 DEF UnassignSite, deleteAssignment
  <2>5. CASE Snapshot(s)
    BY <1>2, <2>5 DEF Snapshot
  <2> QED
    BY <2>1, <2>2, <2>3, <2>4, <2>5 DEF StructureWrites
<1> HIDE DEF w
<1>5. DirectoryTypes' /\ References'
  BY <1>1, <1>4 DEF DirectoryInv, DirectoryTypes, References, GroupExists, ScopeExists
<1>6. InvitesSound'
  BY <1>1, InvitesStaySound
<1> QED
  BY <1>5, <1>6 DEF Tables

(* Creating, placing and deleting a site. *)
LEMMA SiteWritten ==
    ASSUME DirectoryInv, NEW s \in Slots, CreateSite(s) \/ UpdateSite(s) \/ DeleteSite(s)
    PROVE  Tables'
<1> DEFINE w == call[s]
<1> USE DEF Writes
<1>1. UNCHANGED <<member, grants, groups, invites>> /\ DOMAIN call' = DOMAIN call /\ w.x \in Sites
  BY DEF CreateSite, UpdateSite, DeleteSite, Done, DirectoryInv, Good, SiteGood
<1>2. /\ sites \in [Sites -> {"active", "inactive", Null}]
      /\ place \in [Sites -> Groups \cup {Null}]
      /\ \A x \in Sites : place[x] # Null => sites[x] # Null /\ groups[place[x]] \in {"active", "inactive"}
      /\ access \in [People -> [Sites -> SiteRole \cup {Null}]]
      /\ \A p \in People, x \in Sites : access[p][x] # Null => sites[x] # Null
      /\ users \in [People -> User]
  BY DEF DirectoryInv, DirectoryTypes, References, GroupExists, ScopeExists
<1>3. \/ sites' = sites /\ sites[w.x] # Null
      \/ \E standing \in {"active", "inactive"} : sites' = [sites EXCEPT ![w.x] = standing]
  BY DEF CreateSite, UpdateSite, DeleteSite, DirectoryInv, Good, SiteGood
<1>4. /\ sites' \in [Sites -> {"active", "inactive", Null}]
      /\ sites'[w.x] # Null
      /\ \A x \in Sites : sites[x] # Null => sites'[x] # Null
  <2> HIDE DEF w
  <2> QED
    BY <1>1, <1>2, <1>3, DirectoryAssumption
<1>5. \/ UNCHANGED place
      \/ /\ place' = [place EXCEPT ![w.x] = w.g]
         /\ w.g = Null \/ (w.g \in Groups /\ groups[w.g] \in {"active", "inactive"})
  BY DEF CreateSite, UpdateSite, DeleteSite, DirectoryInv, Good, SiteGood, GroupExists, ScopeExists
<1>6. /\ place' \in [Sites -> Groups \cup {Null}]
      /\ \A x \in Sites : place'[x] # Null => sites'[x] # Null /\ groups[place'[x]] \in {"active", "inactive"}
  <2> HIDE DEF w
  <2> QED
    BY <1>1, <1>2, <1>4, <1>5
<1>7. \/ UNCHANGED access
      \/ access' = [p \in People |-> [access[p] EXCEPT ![w.x] = Null]]
  BY DEF CreateSite, UpdateSite, DeleteSite
<1>8. /\ access' \in [People -> [Sites -> SiteRole \cup {Null}]]
      /\ \A p \in People, x \in Sites : access'[p][x] # Null => sites'[x] # Null
  <2> HIDE DEF w
  <2> QED
    BY <1>1, <1>2, <1>4, <1>7
<1>9. users' \in [People -> User]
  <2>1. CASE UNCHANGED users
    BY <1>2, <2>1
  <2>2. CASE DeleteSite(s)
    <3>1. \A p \in People : [users[p] EXCEPT !.active = FALSE] \in User
      BY <1>2, ZenonT(60) DEF User
    <3>2. users' = [p \in People |->
                      IF p \in w.whom /\ OperatesNothing(p, access')
                      THEN [users[p] EXCEPT !.active = FALSE] ELSE users[p]]
      BY <2>2, Zenon DEF DeleteSite
    <3> HIDE DEF w
    <3> QED
      BY <1>2, <3>1, <3>2
  <2> QED
    BY <2>1, <2>2 DEF CreateSite, UpdateSite
<1> HIDE DEF w
<1>10. DirectoryTypes' /\ References'
  BY <1>1, <1>4, <1>6, <1>8, <1>9 DEF DirectoryInv, DirectoryTypes, References, GroupExists, ScopeExists
<1>11. InvitesSound'
  BY <1>1, <1>4, InvitesStaySound
<1> QED
  BY <1>10, <1>11 DEF Tables

(* Giving somebody access to a site, and taking it away. *)
LEMMA OperatorWritten ==
    ASSUME DirectoryInv, NEW s \in Slots,
           \/ Operate(s) \/ AssignExisting(s) \/ GrantExisting(s) \/ RoleExisting(s)
           \/ RemoveAccess(s) \/ CountAccess(s)
    PROVE  Tables'
<1> DEFINE w == call[s]
<1> USE DEF Writes
<1>1. /\ UNCHANGED <<sites, groups, place, invites>> /\ DOMAIN call' = DOMAIN call
      /\ w.x \in Sites /\ w.who \in People
  BY DEF Operate, AssignExisting, GrantExisting, RoleExisting, RemoveAccess, CountAccess, Done,
     DirectoryInv, Good, SiteGood, Existing
<1>2. /\ access \in [People -> [Sites -> SiteRole \cup {Null}]]
      /\ \A p \in People, x \in Sites : access[p][x] # Null => sites[x] # Null
      /\ users \in [People -> User]
      /\ member \in [People -> Membership]
      /\ \A p \in People : member[p].role # Null => member[p].orgRole # Null
      /\ grants \in [People -> SUBSET UserScope]
  BY SMTT(60) DEF DirectoryInv, DirectoryTypes, References
<1>3. \/ UNCHANGED access
      \/ access' = [access EXCEPT ![w.who][w.x] = Null]
      \/ sites[w.x] # Null /\ \E role \in SiteRole : access' = [access EXCEPT ![w.who][w.x] = role]
  BY DEF Operate, AssignExisting, GrantExisting, RoleExisting, RemoveAccess, CountAccess, SiteRole,
     DirectoryInv, Good, SiteGood, Existing
<1>4. /\ access' \in [People -> [Sites -> SiteRole \cup {Null}]]
      /\ \A p \in People, x \in Sites : access'[p][x] # Null => sites[x] # Null
  <2> HIDE DEF w
  <2>1. ASSUME NEW role \in SiteRole \cup {Null}, role = Null \/ sites[w.x] # Null,
               access' = [access EXCEPT ![w.who][w.x] = role]
        PROVE  /\ access' \in [People -> [Sites -> SiteRole \cup {Null}]]
               /\ \A p \in People, x \in Sites : access'[p][x] # Null => sites[x] # Null
    <3>1. [access[w.who] EXCEPT ![w.x] = role] \in [Sites -> SiteRole \cup {Null}]
      BY <1>1, <1>2
    <3>2. access' = [access EXCEPT ![w.who] = [access[w.who] EXCEPT ![w.x] = role]]
      BY <2>1
    <3> QED
      BY <1>1, <1>2, <2>1, <3>1, <3>2
  <2>2. CASE UNCHANGED access
    BY <1>2, <2>2
  <2> QED
    BY <1>3, <2>1, <2>2
<1>5. users' \in [People -> User]
  <2>1. [users[w.who] EXCEPT !.active = TRUE] \in User /\ [users[w.who] EXCEPT !.active = FALSE] \in User
    BY <1>1, <1>2 DEF User
  <2>2. ActiveUser \in User
    BY DEF ActiveUser, User
  <2>3. CASE Operate(s)
    <3>1. users' = [users EXCEPT ![w.who] =
                      IF users[w.who].exists THEN [users[w.who] EXCEPT !.active = TRUE] ELSE ActiveUser]
      BY <2>3 DEF Operate
    <3> HIDE DEF w
    <3> QED
      BY <1>1, <1>2, <2>1, <2>2, <3>1
  <2>4. CASE CountAccess(s)
    <3>1. users' = [users EXCEPT ![w.who] =
                      [users[w.who] EXCEPT !.active = IF OperatesNothing(w.who, access) THEN FALSE ELSE users[w.who].active]]
      BY <2>4 DEF CountAccess
    <3>2. [users[w.who] EXCEPT !.active = IF OperatesNothing(w.who, access) THEN FALSE ELSE users[w.who].active] \in User
      BY <1>1, <1>2, ZenonT(60) DEF User
    <3> HIDE DEF w
    <3> QED
      BY <1>1, <1>2, <3>1, <3>2
  <2>5. CASE AssignExisting(s) \/ GrantExisting(s) \/ RoleExisting(s) \/ RemoveAccess(s)
    BY <1>2, <2>5 DEF AssignExisting, GrantExisting, RoleExisting, RemoveAccess
  <2> QED
    BY <2>3, <2>4, <2>5
<1>6. /\ member' \in [People -> Membership]
      /\ \A p \in People : member'[p].role # Null => member'[p].orgRole # Null
  <2>1. CASE Operate(s)
    <3>1. [orgRole |-> "ORG_MEMBER", role |-> Null] \in Membership
      BY DEF Membership, OrgRole
    <3>2. member' = [member EXCEPT ![w.who] =
                       IF IsMember(w.who) THEN member[w.who] ELSE [orgRole |-> "ORG_MEMBER", role |-> Null]]
      BY <2>1 DEF Operate
    <3> HIDE DEF w
    <3> QED
      BY <1>1, <1>2, <3>1, <3>2
  <2>2. CASE RoleExisting(s)
    <3> DEFINE r == IF w.role \in {Null, "SITE_USER"} THEN "SITE_ADMIN" ELSE member[w.who].role
    <3>1. member' = [member EXCEPT ![w.who] = [member[w.who] EXCEPT !.role = r]]
      BY <2>2 DEF RoleExisting
    <3>2. member[w.who].orgRole # Null
      BY <2>2 DEF RoleExisting, DirectoryInv, Good, SiteGood, Existing, IsMember
    <3>3. r \in EnterpriseRole \cup {Null}
      BY <1>1, <1>2 DEF Membership, EnterpriseRole
    <3>4. /\ [member[w.who] EXCEPT !.role = r] \in Membership
          /\ [member[w.who] EXCEPT !.role = r].orgRole # Null
      <4> HIDE DEF r, w
      <4> QED
        BY <1>1, <1>2, <3>2, <3>3, SMTT(60) DEF Membership
    <3> HIDE DEF w, r
    <3> QED
      BY <1>1, <1>2, <3>1, <3>4
  <2>3. CASE AssignExisting(s) \/ GrantExisting(s) \/ RemoveAccess(s) \/ CountAccess(s)
    BY <1>2, <2>3 DEF AssignExisting, GrantExisting, RemoveAccess, CountAccess
  <2> QED
    BY <2>1, <2>2, <2>3
<1>7. grants' \in [People -> SUBSET UserScope]
  <2>1. <<"SITE", w.x>> \in UserScope
    BY <1>1 DEF UserScope
  <2>2. \/ UNCHANGED grants
        \/ grants' = [grants EXCEPT ![w.who] = grants[w.who] \cup {<<"SITE", w.x>>}]
    BY DEF Operate, AssignExisting, GrantExisting, RoleExisting, RemoveAccess, CountAccess
  <2>3. grants[w.who] \cup {<<"SITE", w.x>>} \in SUBSET UserScope
    BY <1>1, <1>2, <2>1
  <2> HIDE DEF w
  <2> QED
    BY <1>1, <1>2, <2>2, <2>3
<1> HIDE DEF w
<1>8. DirectoryTypes' /\ References'
  BY <1>1, <1>4, <1>5, <1>6, <1>7 DEF DirectoryInv, DirectoryTypes, References, GroupExists, ScopeExists
<1>9. InvitesSound'
  BY <1>1, InvitesStaySound
<1> QED
  BY <1>8, <1>9 DEF Tables

LEMMA WritesKeepTables ==
    ASSUME DirectoryInv, NEW s \in Slots, DirectoryWrites(s)
    PROVE  Tables'
<1>1. CASE InvitationWrites(s)
  <2>1. AcceptRefused(s) => Tables'
    BY TablesStay DEF AcceptRefused, rows, Done
  <2> QED
    BY <1>1, <2>1, IssueWrites, ResendRevokeWrite, AcceptWrites, Zenon DEF InvitationWrites
<1>2. CASE SiteWrites(s)
  BY <1>2, SiteWritten, OperatorWritten, Zenon DEF SiteWrites
<1> QED
  BY <1>1, <1>2, UserWritesTables, StructureWritesTables, Zenon DEF DirectoryWrites

(* A write ends the request, except where more writes follow. *)
GoesOn(s) == RemoveAccess(s) \/ AssignExisting(s) \/ GrantExisting(s)

LEMMA WritesEnd ==
    ASSUME NEW s \in Slots, DirectoryWrites(s)
    PROVE  Done(s) \/ GoesOn(s)
BY Zenon DEF DirectoryWrites, InvitationWrites, UserWrites, StructureWrites, SiteWrites,
   Issue, Resend, Revoke, Accept, AcceptRefused, UpdateUser, SetRole, SetScopes, SetActive,
   CreateGroup, GroupActive, RemoveGroup, AssignSites, UnassignSite, Snapshot,
   CreateSite, UpdateSite, DeleteSite, Operate, RoleExisting, CountAccess, GoesOn

(* What follows needs no more than what was checked. *)
LEMMA FollowsUp ==
    ASSUME DirectoryInv, Tables', NEW s \in Slots, GoesOn(s)
    PROVE  \E w : /\ call' = [call EXCEPT ![s] = w] /\ Good(w)'
                  /\ w.op \notin BillingOps \cup {"accept"}
<1>0. Good(call[s])
  BY DEF DirectoryInv
<1>1. CASE RemoveAccess(s)
  <2>1. call[s] \in [op : {"removeAccess"}, who : People, x : Sites, by : Callers]
    BY <1>0, <1>1 DEF RemoveAccess, Writes, Good, SiteGood
  <2>2. PICK w : w = [call[s] EXCEPT !.op = "countAccess"]
    OBVIOUS
  <2>3. w.op = "countAccess" /\ w.who \in People /\ w.x \in Sites
    BY <2>1, <2>2
  <2>4. call' = [call EXCEPT ![s] = w]
    BY <1>1, <2>2 DEF RemoveAccess
  <2>5. Good(w)'
    BY <2>3 DEF Good, InviteGood, UserGood, StructureGood, SiteGood, Existing
  <2>6. w.op \notin BillingOps \cup {"accept"}
    BY <2>3 DEF BillingOps
  <2> QED
    BY <2>4, <2>5, <2>6
<1>2. CASE AssignExisting(s) \/ GrantExisting(s)
  <2>1. /\ call[s].op \in Existing
        /\ call[s] \in [op : Existing, who : People, x : Sites, role : EnterpriseRole \cup {Null}, by : Callers]
        /\ IsMember(call[s].who) /\ sites[call[s].x] # Null
    BY <1>0, <1>2 DEF AssignExisting, GrantExisting, Writes, Good, SiteGood, Existing
  <2>2. PICK o \in {"grantExisting", "roleExisting"} : call' = [call EXCEPT ![s].op = o]
    BY <1>2 DEF AssignExisting, GrantExisting
  <2>3. PICK w : w = [call[s] EXCEPT !.op = o]
    OBVIOUS
  <2>4. /\ w \in [op : Existing, who : People, x : Sites, role : EnterpriseRole \cup {Null}, by : Callers]
        /\ w.op = o /\ w.who = call[s].who /\ w.x = call[s].x
    BY <2>1, <2>3 DEF Existing
  <2>5. call' = [call EXCEPT ![s] = w]
    BY <2>2, <2>3
  <2>6. UNCHANGED <<member, sites>>
    BY <1>2 DEF AssignExisting, GrantExisting
  <2>7. IsMember(w.who)' /\ sites'[w.x] # Null /\ w.op \in Existing
    BY <2>1, <2>4, <2>6 DEF IsMember
  <2>8. Good(w)'
    BY <2>4, <2>7 DEF Good, InviteGood, UserGood, StructureGood, SiteGood, Existing
  <2>9. w.op \notin BillingOps \cup {"accept"}
    BY <2>4 DEF BillingOps
  <2> QED
    BY <2>5, <2>8, <2>9
<1> QED
  BY <1>1, <1>2 DEF GoesOn

LEMMA WriteKeepsInv ==
    ASSUME DirectoryInv, NotOvertaken, NEW s \in Slots, DirectoryWrites(s)
    PROVE  DirectoryInv'
<1>1. Tables'
  BY WritesKeepTables
<1>2. PICK w : call' = [call EXCEPT ![s] = w] /\ Good(w)'
  <2>1. Idle.op \in BillingOps
    BY DEF Idle, BillingOps
  <2>2. CASE Done(s)
    BY <2>1, <2>2, NothingAsked, Zenon DEF Done
  <2>3. CASE GoesOn(s)
    BY <1>1, <2>3, FollowsUp
  <2> QED
    BY <2>2, <2>3, WritesEnd
<1>3. ASSUME NEW t \in Slots
      PROVE  Good(call[t])'
  <2>1. CASE t # s
    <3>1. call'[t] = call[t]
      BY <1>2, <2>1
    <3> QED
      BY <3>1 DEF NotOvertaken, DirectoryInv
  <2>2. CASE t = s
    <3>1. call'[t] = w
      BY <1>2, <2>2 DEF DirectoryInv, DirectoryTypes
    <3> QED
      BY <1>2, <3>1
  <2> QED
    BY <2>1, <2>2
<1> QED
  BY <1>1, <1>3 DEF Tables, DirectoryInv

LEMMA DirectoryInvStep ==
    ASSUME DirectoryInv, [NotOvertaken]_portal, [PortalNext]_portal
    PROVE  DirectoryInv'
<1>1. CASE UNCHANGED portal
  <2>1. UNCHANGED <<users, member, grants, access, sites, groups, place, invites, call>>
    BY <1>1 DEF portal, vars, rows
  <2> QED
    BY <2>1, MeanwhileKeepsInv DEF Meanwhile, DirectoryInv, DirectoryTypes
<1>2. CASE Tick
  <2>1. UNCHANGED <<users, member, grants, access, sites, groups, place, invites, call>>
    BY <1>2 DEF Tick, directory, rows
  <2> QED
    BY <2>1, MeanwhileKeepsInv DEF Meanwhile, DirectoryInv, DirectoryTypes
<1>3. NotOvertaken \/ UNCHANGED portal
  OBVIOUS
<1> QED
  BY <1>1, <1>2, <1>3, PortalSteps, AccountsKeepInv, LinksKeepInv, AskKeepsInv, WriteKeepsInv, BillingKeepsDirectory, Zenon

LEMMA DirectoryInvAtFirst ==
    ASSUME PortalInit
    PROVE  DirectoryInv
<1>1. PICK z \in Starts : Begin(z.situation)
  BY Zenon DEF PortalInit
<1>2. PICK w : w = z.situation
  OBVIOUS
<1>3. Sound(w) /\ Begin(w)
  BY <1>1, <1>2, PortalAssumption
<1>4. users \in [People -> User]
  BY <1>3 DEF Begin, NoUser, ActiveUser, User
<1>5. call = [s \in Slots |-> Idle]
  BY DEF PortalInit
<1>6. DirectoryTypes /\ References
  BY <1>3, <1>4, <1>5 DEF Begin, Sound, DirectoryTypes, References, GroupExists, ScopeExists
<1>7. InvitesSound
  BY <1>3 DEF Begin, Sound, InvitesSound, TargetsKnown
<1>8. \A s \in Slots : Good(call[s])
  BY <1>5, NothingAsked DEF Idle, BillingOps
<1> QED
  BY <1>6, <1>7, <1>8 DEF DirectoryInv

(* Unless a request is overtaken the directory is consistent, and what a      *)
(* request has checked still holds when it writes: no request undoes its own  *)
(* checks, nor do sign-ins, the lapse of links, the months or the daily job.  *)
THEOREM DirectoryConsistent == PortalSpec /\ [][NotOvertaken]_portal => []DirectoryInv
<1>1. PortalInit => DirectoryInv
  BY DirectoryInvAtFirst
<1>2. DirectoryInv /\ [NotOvertaken]_portal /\ [PortalNext]_portal => DirectoryInv'
  BY DirectoryInvStep
<1> QED
  BY <1>1, <1>2, PTL DEF PortalSpec

-----------------------------------------------------------------------------
(* The computations of reach agree. *)

(* The index the user listing works with finds what the guards resolve. *)
LEMMA IndexResolves ==
    ASSUME DirectoryInv, NEW scope \in UserScope
    PROVE  scopeSiteIndex[scope] = resolve(scope)
<1>1. \A x \in Sites : place[x] # Null => sites[x] # Null /\ groups[place[x]] \in {"active", "inactive"}
  BY DEF DirectoryInv, References, GroupExists, ScopeExists
<1>2. CASE scope[1] = "ENTERPRISE"
  BY <1>2 DEF scopeSiteIndex, resolve, ScopeExists, KnownSites
<1>3. CASE scope[1] = "GROUP"
  <2>1. scope[2] \in Groups /\ scope[2] # Null
    BY <1>3, DirectoryAssumption DEF UserScope
  <2> QED
    BY <1>1, <1>3, <2>1 DEF scopeSiteIndex, resolve, ScopeExists, KnownSites
<1>4. CASE scope[1] = "SITE"
  BY <1>4 DEF scopeSiteIndex, resolve, ScopeExists, KnownSites
<1> QED
  BY <1>2, <1>3, <1>4 DEF UserScope

LEMMA ReachAgrees ==
    ASSUME DirectoryInv
    PROVE  ScreensAgree
<1> SUFFICES ASSUME NEW p \in People
             PROVE  /\ ListedReach(p) = getAllowedSiteIds(p)
                    /\ \A scope \in UserScope : resolveFilters(p, {scope}) \subseteq ListedReach(p)
  BY Zenon DEF ScreensAgree
<1>1. ListedReach(p) = getAllowedSiteIds(p)
  <2>1. UNION {scopeSiteIndex[scope] : scope \in grants[p]} = resolveAll(grants[p])
    <3>1. grants[p] \subseteq UserScope
      BY DEF DirectoryInv, DirectoryTypes
    <3> QED
      BY <3>1, IndexResolves DEF resolveAll
  <2>2. /\ ShownRole(p) = "SUPER_ADMIN" <=> getEnterpriseRole(p) = "SUPER_ADMIN"
        /\ ShownRole(p) = "ENTERPRISE_ADMIN" <=> getEnterpriseRole(p) = "ENTERPRISE_ADMIN"
    BY DirectoryAssumption DEF ShownRole, getEnterpriseRole
  <2> QED
    BY <2>1, <2>2 DEF ListedReach, reachFrom, getAllowedSiteIds, isUnrestricted, acceptsScopes,
       isViewOnlyRole, EnterpriseRole
<1> QED
  BY <1>1 DEF resolveFilters

(* ScreensAgree: the user listing shows the sites the guards allow, whatever  *)
(* the requests, and no filter of a report shows more.                        *)
THEOREM ReachIsShown == PortalSpec /\ [][NotOvertaken]_portal => []ScreensAgree
<1>1. DirectoryInv => ScreensAgree
  BY ReachAgrees
<1> QED
  BY <1>1, DirectoryConsistent, PTL

-----------------------------------------------------------------------------
(* Whose turn a write is. *)

(* A request in progress that goes on does so in one of its own steps. *)
LEMMA OwnTurn ==
    ASSUME DOMAIN call = Slots, NEW s \in Busy, call[s] # call'[s], [PortalNext]_portal
    PROVE  DirectoryWrites(s) \/ BillingWrites(s) \/ expireLapsed(s)
<1>1. ~ UNCHANGED call
  OBVIOUS
<1>2. UNCHANGED portal => UNCHANGED call
  BY DEF portal, vars
<1>3. \A t \in Slots : Begun(t) \/ Turn(t) => t = s
  BY DEF Begun, Turn, Busy
<1>4. ~Begun(s)
  BY DEF Begun
<1>5. \A t \in Slots : Asks(t) => Begun(t)
  BY AskInSteps, Zenon DEF Asked, Begun
<1>6. PICK t \in Slots : DirectoryWrites(t) \/ BillingSteps(t)
  BY <1>1, <1>2, <1>3, <1>4, <1>5, PortalSteps, TimeIsNoRequest, Zenon
<1>7. t = s /\ (DirectoryWrites(s) \/ BillingSteps(s))
  BY <1>3, <1>6, DirectoryTurns, BillingTurns, Zenon
<1>8. BillingSteps(s) => BillingWrites(s) \/ expireLapsed(s)
  <2>1. BillingRequests(s) => Begun(s)
    BY Zenon DEF BillingRequests, Ready, createContractStart, updateContractStart, generateInvoice,
       markInvoicePaidStart, cancelInvoiceStart, Ask, Begun
  <2>2. generateDueInvoices(s) \/ markOverdue(s) => Begun(s)
    BY Zenon DEF generateDueInvoices, markOverdue, Free, Goes, Begun
  <2> QED
    BY <1>4, <2>1, <2>2, Zenon DEF BillingSteps, DailyJobs
<1> QED
  BY <1>7, <1>8, Zenon

(* Which step that is, its operation tells. *)
LEMMA OperationTells ==
    ASSUME NEW s, DirectoryWrites(s) \/ BillingWrites(s) \/ expireLapsed(s)
    PROVE  /\ call[s].op = "issue" => Issue(s)
           /\ call[s].op = "updateUser" => UpdateUser(s)
           /\ call[s].op = "setRole" => SetRole(s)
           /\ call[s].op = "setScopes" => SetScopes(s)
           /\ call[s].op = "setActive" => SetActive(s)
           /\ call[s].op = "assignSites" => AssignSites(s)
           /\ call[s].op = "unassignSite" => UnassignSite(s)
           /\ call[s].op = "raise" => ContractOver(s) \/ RaiseInvoice(s) \/ AlreadyInvoiced(s)
<1>1. /\ Issue(s) => call[s].op = "issue"
      /\ Resend(s) => call[s].op = "resend"
      /\ Revoke(s) => call[s].op = "revoke"
      /\ Accept(s) \/ AcceptRefused(s) => call[s].op = "accept"
  BY Zenon DEF Issue, Resend, Revoke, Accept, AcceptRefused, Writes
<1>2. /\ UpdateUser(s) => call[s].op = "updateUser"
      /\ SetRole(s) => call[s].op = "setRole"
      /\ SetScopes(s) => call[s].op = "setScopes"
      /\ SetActive(s) => call[s].op = "setActive"
  BY Zenon DEF UpdateUser, SetRole, SetScopes, SetActive, Writes
<1>3. /\ CreateGroup(s) => call[s].op = "createGroup"
      /\ GroupActive(s) => call[s].op = "groupActive"
      /\ RemoveGroup(s) => call[s].op = "removeGroup"
      /\ AssignSites(s) => call[s].op = "assignSites"
      /\ UnassignSite(s) => call[s].op = "unassignSite"
      /\ Snapshot(s) => call[s].op = "snapshot"
  BY Zenon DEF CreateGroup, GroupActive, RemoveGroup, AssignSites, UnassignSite, Snapshot, Writes
<1>4. /\ CreateSite(s) => call[s].op = "createSite"
      /\ UpdateSite(s) => call[s].op = "updateSite"
      /\ DeleteSite(s) => call[s].op = "deleteSite"
      /\ Operate(s) => call[s].op = "operate"
      /\ AssignExisting(s) => call[s].op = "assignExisting"
      /\ GrantExisting(s) => call[s].op = "grantExisting"
      /\ RoleExisting(s) => call[s].op = "roleExisting"
      /\ RemoveAccess(s) => call[s].op = "removeAccess"
      /\ CountAccess(s) => call[s].op = "countAccess"
  BY Zenon DEF CreateSite, UpdateSite, DeleteSite, Operate, AssignExisting, GrantExisting, RoleExisting,
     RemoveAccess, CountAccess, Writes
<1>5. /\ createContract(s) => call[s].op = "createContract"
      /\ updateContract(s) => call[s].op = "updateContract"
      /\ SettleInvoice(s) => call[s].op = "settle"
      /\ RaiseStart(s) \/ NotActive(s) => call[s].op = "bill"
      /\ ContractOver(s) \/ RaiseInvoice(s) \/ AlreadyInvoiced(s) => call[s].op = "raise"
      /\ expireLapsed(s) => call[s].op = "expire"
  BY Zenon DEF createContract, updateContract, SettleInvoice, RaiseStart, NotActive, ContractOver,
     RaiseInvoice, AlreadyInvoiced, expireLapsed, Writes
<1> QED
  BY <1>1, <1>2, <1>3, <1>4, <1>5 DEF DirectoryWrites, InvitationWrites, UserWrites, StructureWrites,
     SiteWrites, BillingWrites

-----------------------------------------------------------------------------
(* Nobody hands out access they do not hold. *)

\* The reach of a member in a scoped role.
ScopedReach(p) ==
    IF grants[p] = {} THEN {x \in Sites : access[p][x] # Null} ELSE resolveAll(grants[p])

LEMMA ScopedReaches ==
    ASSUME NEW p, Scoped(getEnterpriseRole(p))
    PROVE  getAllowedSiteIds(p) = ScopedReach(p)
BY DEF Scoped, isUnrestricted, isViewOnlyRole, getAllowedSiteIds, ScopedReach

LEMMA ScopedReachesNext ==
    ASSUME NEW p, Scoped(getEnterpriseRole(p)')
    PROVE  getAllowedSiteIds(p)' = ScopedReach(p)'
BY DEF Scoped, isUnrestricted, isViewOnlyRole, getAllowedSiteIds, ScopedReach

(* A role never takes from a member what the grants and accesses give. *)
LEMMA ReachesAtLeast ==
    ASSUME DirectoryInv, NEW p \in People
    PROVE  ScopedReach(p) \subseteq getAllowedSiteIds(p)
<1>1. {x \in Sites : access[p][x] # Null} \subseteq KnownSites
  BY DEF DirectoryInv, References, KnownSites
<1>2. \A scopes : resolveAll(scopes) \subseteq KnownSites
  BY DEF resolveAll, resolve
<1> QED
  BY <1>1, <1>2 DEF getAllowedSiteIds, ScopedReach

LEMMA ScopedReachStays ==
    ASSUME NEW p, UNCHANGED <<access, sites, groups, place>>, grants'[p] = grants[p]
    PROVE  ScopedReach(p)' = ScopedReach(p)
<1>1. \A scopes : resolveAll(scopes)' = resolveAll(scopes)
  BY ResolvesTheSame
<1> QED
  BY <1>1 DEF ScopedReach

Widens(s) ==
    \E p \in People :
        /\ Scoped(getEnterpriseRole(p)')
        /\ ~(getAllowedSiteIds(p)' \subseteq getAllowedSiteIds(p) \cup getAllowedSiteIds(call[s].by))

LEMMA RoleWidensNothing ==
    ASSUME DirectoryInv, NEW s \in Slots, UpdateUser(s)
    PROVE  ~Widens(s)
<1> SUFFICES ASSUME NEW p \in People, Scoped(getEnterpriseRole(p)')
             PROVE  getAllowedSiteIds(p)' \subseteq getAllowedSiteIds(p)
  BY DEF Widens
<1> DEFINE w == call[s]
<1>1. w.who \in People /\ w.role \in PORTAL_ROLES
  BY DEF UpdateUser, Writes, DirectoryInv, Good, UserGood
<1>2. UNCHANGED <<access, sites, groups, place>>
  BY DEF UpdateUser
<1>3. grants'[p] = grants[p]
  <2>1. CASE p # w.who
    BY <2>1 DEF UpdateUser, DirectoryInv, DirectoryTypes
  <2>2. CASE p = w.who
    <3>1. member'[p].role = w.role
      BY <1>1, <2>2 DEF UpdateUser, DirectoryInv, DirectoryTypes
    <3>2. getEnterpriseRole(p)' = w.role
      BY <1>1, <3>1, DirectoryAssumption DEF getEnterpriseRole, PORTAL_ROLES
    <3>3. ~isUnrestricted(w.role)
      BY <3>2 DEF Scoped
    <3> QED
      BY <1>1, <2>2, <3>3 DEF UpdateUser, DirectoryInv, DirectoryTypes
  <2> QED
    BY <2>1, <2>2
<1> QED
  BY <1>2, <1>3, ScopedReachesNext, ScopedReachStays, ReachesAtLeast

LEMMA ScopesWidenNothing ==
    ASSUME DirectoryInv, NEW s \in Slots, SetScopes(s)
    PROVE  ~Widens(s)
<1> SUFFICES ASSUME NEW p \in People, Scoped(getEnterpriseRole(p)')
             PROVE  getAllowedSiteIds(p)' \subseteq getAllowedSiteIds(p) \cup getAllowedSiteIds(call[s].by)
  BY DEF Widens
<1> DEFINE w == call[s]
<1>1. /\ w.who \in People
      /\ isUnrestricted(ShownRole(w.who)) \/ w.scopes # {}
      /\ resolveAll(w.scopes) \subseteq getAllowedSiteIds(w.by)
  BY DEF SetScopes, Writes, DirectoryInv, Good, UserGood, assertScopeSatisfiesRole,
     assertScopesWithinCallerReach
<1>2. UNCHANGED <<member, access, sites, groups, place>> /\ grants' = [grants EXCEPT ![w.who] = w.scopes]
  BY DEF SetScopes
<1>3. CASE p # w.who
  <2>1. grants'[p] = grants[p]
    BY <1>2, <1>3 DEF DirectoryInv, DirectoryTypes
  <2> QED
    BY <1>2, <2>1, ScopedReachesNext, ScopedReachStays, ReachesAtLeast
<1>4. CASE p = w.who
  <2>1. Scoped(ShownRole(p))
    <3>1. getEnterpriseRole(p)' = getEnterpriseRole(p)
      BY <1>2 DEF getEnterpriseRole
    <3> QED
      BY <3>1, DirectoryAssumption DEF Scoped, isUnrestricted, ShownRole, getEnterpriseRole
  <2>2. w.scopes # {}
    BY <1>1, <1>4, <2>1 DEF Scoped
  <2>3. grants'[p] = w.scopes
    BY <1>1, <1>2, <1>4 DEF DirectoryInv, DirectoryTypes
  <2>4. ScopedReach(p)' = resolveAll(w.scopes)
    <3>1. \A scopes : resolveAll(scopes)' = resolveAll(scopes)
      BY <1>2, ResolvesTheSame
    <3>2. resolveAll(grants[p])' = resolveAll(w.scopes)
      BY <2>3, <3>1
    <3> QED
      BY <2>2, <2>3, <3>2 DEF ScopedReach
  <2> QED
    BY <1>1, <2>4, ScopedReachesNext
<1> QED
  BY <1>3, <1>4

LEMMA PlacingWidensNothing ==
    ASSUME DirectoryInv, NEW s \in Slots, AssignSites(s) \/ UnassignSite(s)
    PROVE  ~Widens(s)
<1> SUFFICES ASSUME NEW p \in People, Scoped(getEnterpriseRole(p)')
             PROVE  getAllowedSiteIds(p)' \subseteq getAllowedSiteIds(p) \cup getAllowedSiteIds(call[s].by)
  BY DEF Widens
<1> DEFINE w == call[s]
<1>1. UNCHANGED <<member, access, sites, groups, grants>>
  BY DEF AssignSites, UnassignSite
<1>2. \A x \in Sites :
         place'[x] = place[x] \/ place'[x] = Null \/ x \in getAllowedSiteIds(w.by)
  <2>1. CASE AssignSites(s)
    <3>1. w.ss \subseteq getAllowedSiteIds(w.by)
      BY <2>1 DEF AssignSites, Writes, DirectoryInv, Good, StructureGood, assertSitesWithinReach
    <3> QED
      BY <2>1, <3>1 DEF AssignSites, upsertAssignment
  <2>2. CASE UnassignSite(s)
    BY <2>2 DEF UnassignSite, deleteAssignment, DirectoryInv, DirectoryTypes
  <2> QED
    BY <2>1, <2>2
<1>3. ASSUME NEW scope \in UserScope, NEW x \in resolve(scope)'
      PROVE  x \in resolve(scope) \/ x \in getAllowedSiteIds(w.by)
  <2>1. scope[1] = "GROUP" => scope[2] # Null
    BY DirectoryAssumption DEF UserScope
  <2> HIDE DEF w
  <2> QED
    BY <1>1, <1>2, <1>3, <2>1 DEF resolve, KnownSites, ScopeExists
<1>4. resolveAll(grants[p])' \subseteq resolveAll(grants[p]) \cup getAllowedSiteIds(w.by)
  <2>1. grants[p] \subseteq UserScope
    BY DEF DirectoryInv, DirectoryTypes
  <2> HIDE DEF w
  <2> QED
    BY <1>1, <1>3, <2>1 DEF resolveAll
<1>5. ScopedReach(p)' \subseteq ScopedReach(p) \cup getAllowedSiteIds(w.by)
  BY <1>1, <1>4 DEF ScopedReach
<1> QED
  BY <1>5, ScopedReachesNext, ReachesAtLeast

LEMMA InvitingWidensNothing ==
    ASSUME DirectoryInv, NEW s \in Slots, call[s].op = "issue"
    PROVE  call[s].by # Platform /\ Scoped(call[s].role) /\ call[s].role # "SITE_USER" =>
               resolveAll(call[s].scopes) \subseteq
                   resolveAll(invites[call[s].i].scopes) \cup getAllowedSiteIds(call[s].by)
BY DEF DirectoryInv, Good, InviteGood

(* NoWidening: whoever the caller is and whatever has happened before, a      *)
(* change to users, scopes or groups lets no member reach a site that is      *)
(* outside the reach of the caller and of that member before, and the scopes  *)
(* of an invitation do not reach beyond the caller's.  The site an invitation *)
(* makes somebody operate is compared with nothing (InvitesWithinReach).      *)
THEOREM NobodyWidens == PortalSpec /\ [][NotOvertaken]_portal => NoWidening
<1> DEFINE Step(s) ==
        /\ Writing(s, {"updateUser", "setScopes", "assignSites", "unassignSite"}) =>
               \A p \in People : Scoped(getEnterpriseRole(p)') =>
                   getAllowedSiteIds(p)' \subseteq getAllowedSiteIds(p) \cup getAllowedSiteIds(call[s].by)
        /\ Writing(s, {"issue"}) /\ call[s].by # Platform /\ Scoped(call[s].role) /\ call[s].role # "SITE_USER" =>
               resolveAll(call[s].scopes) \subseteq
                   resolveAll(invites[call[s].i].scopes) \cup getAllowedSiteIds(call[s].by)
<1>1. ASSUME DirectoryInv, [PortalNext]_portal, NEW s \in Slots
      PROVE  Step(s)
  <2>1. ASSUME Writing(s, {"updateUser", "setScopes", "assignSites", "unassignSite"})
        PROVE  ~Widens(s)
    <3>1. /\ call[s].op \in {"updateUser", "setScopes", "assignSites", "unassignSite"}
          /\ call[s] # call'[s] /\ s \in Busy
      BY <2>1, WriterIsBusy DEF Writing
    <3>2. UpdateUser(s) \/ SetScopes(s) \/ AssignSites(s) \/ UnassignSite(s)
      BY <1>1, <3>1, OwnTurn, OperationTells DEF DirectoryInv, DirectoryTypes
    <3> QED
      BY <1>1, <3>2, RoleWidensNothing, ScopesWidenNothing, PlacingWidensNothing
  <2>2. Writing(s, {"issue"}) => call[s].op = "issue"
    BY DEF Writing
  <2> QED
    BY <1>1, <2>1, <2>2, InvitingWidensNothing, Zenon DEF Widens
<1>2. DirectoryInv /\ [PortalNext]_portal => [\A s \in Slots : Step(s)]_portal
  BY <1>1
<1> QED
  BY <1>2, DirectoryConsistent, PTL DEF PortalSpec, NoWidening

-----------------------------------------------------------------------------
(* A Super Admin remains. *)

(* Another active member with the role counts as a Super Admin. *)
LEMMA AnotherCounts ==
    ASSUME DirectoryInv, NEW p, NEW q \in OtherSuperAdmins(p)
    PROVE  q \in SuperAdmins /\ q # p
BY DirectoryAssumption DEF OtherSuperAdmins, SuperAdmins, DirectoryInv, References, IsMember, ShownRole

(* Whoever is not the person concerned stays a Super Admin. *)
LEMMA OthersStay ==
    ASSUME NEW p, NEW q \in SuperAdmins, users'[q].active = users[q].active, member'[q] = member[q]
    PROVE  q \in SuperAdmins'
BY DEF SuperAdmins, IsMember, ShownRole

LEMMA RoleLeavesSuperAdmin ==
    ASSUME DirectoryInv, NEW s \in Slots, UpdateUser(s) \/ SetRole(s), SuperAdmins # {}
    PROVE  SuperAdmins' # {}
<1> DEFINE w == call[s]
           m == [orgRole |-> OrgRoleOf(w.role), role |-> w.role]
<1>1. /\ w.who \in People /\ w.role \in PORTAL_ROLES
      /\ ShownRole(w.who) # w.role => assertNotLastSuperAdmin(w.who, w.role)
  BY DEF UpdateUser, SetRole, Writes, DirectoryInv, Good, UserGood
<1>2. UNCHANGED users /\ member' = [member EXCEPT ![w.who] = m]
  BY DEF UpdateUser, SetRole
<1>3. member \in [People -> Membership]
  BY DEF DirectoryInv, DirectoryTypes
<1>4. PICK q \in People : q \in SuperAdmins
  BY DEF SuperAdmins
<1>5. CASE q # w.who
  <2>1. member'[q] = member[q]
    BY <1>2, <1>3, <1>4, <1>5
  <2> QED
    BY <1>2, <1>4, <2>1, OthersStay
<1>6. CASE q = w.who /\ w.role = "SUPER_ADMIN"
  <2>1. member'[q] = m /\ m.orgRole = "SUPER_ADMIN" /\ m.role = "SUPER_ADMIN"
    BY <1>1, <1>2, <1>3, <1>6 DEF OrgRoleOf
  <2> HIDE DEF m
  <2>2. q \in SuperAdmins'
    BY <1>2, <1>4, <2>1, DirectoryAssumption DEF SuperAdmins, IsMember, ShownRole
  <2> QED
    BY <2>2
<1>7. CASE q = w.who /\ w.role # "SUPER_ADMIN"
  <2>1. ShownRole(w.who) = "SUPER_ADMIN"
    BY <1>4, <1>7 DEF SuperAdmins
  <2>2. PICK r \in OtherSuperAdmins(w.who) : TRUE
    BY <1>1, <1>7, <2>1 DEF assertNotLastSuperAdmin
  <2>3. r \in People /\ r \in SuperAdmins /\ r # w.who
    BY <2>2, AnotherCounts DEF OtherSuperAdmins
  <2>4. member'[r] = member[r]
    BY <1>2, <1>3, <2>3
  <2> QED
    BY <1>2, <2>3, <2>4, OthersStay
<1> QED
  BY <1>5, <1>6, <1>7

LEMMA StandingLeavesSuperAdmin ==
    ASSUME DirectoryInv, NEW s \in Slots, SetActive(s), SuperAdmins # {}
    PROVE  SuperAdmins' # {}
<1> DEFINE w == call[s]
<1>1. /\ w.who \in People /\ w.on \in BOOLEAN
      /\ ~w.on => assertNotLastSuperAdmin(w.who, Null)
  BY DEF SetActive, Writes, DirectoryInv, Good, UserGood
<1>2. UNCHANGED member /\ users' = [users EXCEPT ![w.who].active = w.on]
  BY DEF SetActive
<1>3. users \in [People -> User]
  BY DEF DirectoryInv, DirectoryTypes
<1>4. PICK q \in People : q \in SuperAdmins
  BY DEF SuperAdmins
<1>5. ASSUME NEW r \in SuperAdmins, r # w.who
      PROVE  r \in SuperAdmins'
  <2>1. users'[r] = users[r]
    BY <1>2, <1>3, <1>5 DEF SuperAdmins
  <2> QED
    BY <1>2, <2>1, OthersStay
<1>6. CASE q = w.who /\ w.on
  <2>1. users'[q].active = w.on
    BY <1>1, <1>2, <1>3, <1>6 DEF User
  <2>2. q \in SuperAdmins'
    BY <1>2, <1>4, <1>6, <2>1, Zenon DEF SuperAdmins, IsMember, ShownRole
  <2> QED
    BY <2>2
<1>7. CASE q = w.who /\ ~w.on
  <2>1. ShownRole(w.who) = "SUPER_ADMIN"
    BY <1>4, <1>7 DEF SuperAdmins
  <2>2. PICK r \in OtherSuperAdmins(w.who) : TRUE
    BY <1>1, <1>7, <2>1, DirectoryAssumption DEF assertNotLastSuperAdmin
  <2> QED
    BY <1>5, <2>2, AnotherCounts
<1>8. CASE q # w.who
  BY <1>4, <1>5, <1>8
<1> QED
  BY <1>1, <1>6, <1>7, <1>8

(* SuperAdminRemains: no sequence of changes to members, by whomever asked    *)
(* for, takes away the last active Super Admin.                               *)
THEOREM SuperAdminIsKept == PortalSpec /\ [][NotOvertaken]_portal => SuperAdminRemains
<1> DEFINE Step(s) ==
        Writing(s, {"updateUser", "setRole", "setActive"}) /\ SuperAdmins # {} => SuperAdmins' # {}
<1>1. ASSUME DirectoryInv, [PortalNext]_portal, NEW s \in Slots
      PROVE  Step(s)
  <2> SUFFICES ASSUME Writing(s, {"updateUser", "setRole", "setActive"}), SuperAdmins # {}
               PROVE  SuperAdmins' # {}
    OBVIOUS
  <2>1. call[s].op \in {"updateUser", "setRole", "setActive"} /\ call[s] # call'[s] /\ s \in Busy
    BY WriterIsBusy DEF Writing
  <2>2. UpdateUser(s) \/ SetRole(s) \/ SetActive(s)
    BY <1>1, <2>1, OwnTurn, OperationTells DEF DirectoryInv, DirectoryTypes
  <2> QED
    BY <1>1, <2>2, RoleLeavesSuperAdmin, StandingLeavesSuperAdmin
<1>2. DirectoryInv /\ [PortalNext]_portal => [\A s \in Slots : Step(s)]_portal
  BY <1>1
<1> QED
  BY <1>2, DirectoryConsistent, PTL DEF PortalSpec, SuperAdminRemains

-----------------------------------------------------------------------------
(* Activation links keep the promise of ActivationLink. *)

\* The link a request is activating an account with.
Activating(s, w) == IF w.op = "accept" THEN {<<s, w.i, w.inv.link>>} ELSE {}

LEMMA OpenedBySlot == Opened = UNION {Activating(s, call[s]) : s \in Slots}
BY DEF Opened, Activating, Writes

(* A step moves one request. *)
LEMMA OpenedMoves ==
    ASSUME DOMAIN call = Slots, NEW s \in Slots, NEW w, call' = [call EXCEPT ![s] = w]
    PROVE  Opened' = (Opened \ Activating(s, call[s])) \cup Activating(s, w)
<1>1. Opened' = UNION {Activating(t, call'[t]) : t \in Slots}
  BY DEF Opened, Activating, Writes
<1>2. call'[s] = w /\ \A t \in Slots : t # s => call'[t] = call[t]
  OBVIOUS
<1>3. \A t, v, o : o \in Activating(t, v) => o[1] = t
  BY DEF Activating
<1> QED
  BY <1>1, <1>2, <1>3, OpenedBySlot

LEMMA OpenedStays ==
    ASSUME DOMAIN call = Slots, NEW s \in Slots, NEW w, call' = [call EXCEPT ![s] = w],
           call[s].op # "accept", w.op # "accept"
    PROVE  Opened' = Opened
BY OpenedMoves DEF Activating

LEMMA NothingOpened ==
    ASSUME \A s \in Slots : call[s].op # "accept"
    PROVE  Opened = {}
BY DEF Opened, Writes

LEMMA LinksRest ==
    ASSUME \A i \in Invites : NewestLink(i)' = NewestLink(i) /\ invites'[i].link = invites[i].link,
           Opened' = Opened
    PROVE  UNCHANGED Link!linkVars
BY DEF Link!linkVars

(* A step that changes one invitation, as ActivationLink sees it. *)
LEMMA OneLink ==
    ASSUME DirectoryInv, NEW i \in Invites, NEW row, invites' = [invites EXCEPT ![i] = row]
    PROVE  /\ [j \in Invites |-> NewestLink(j)]' = [[j \in Invites |-> NewestLink(j)] EXCEPT ![i] = NewestLink(i)']
           /\ [j \in Invites |-> invites[j].link]' = [[j \in Invites |-> invites[j].link] EXCEPT ![i] = row.link]
           /\ invites'[i] = row
<1>1. invites \in [Invites -> Invitation]
  BY DEF DirectoryInv, DirectoryTypes
<1>2. invites'[i] = row /\ \A j \in Invites : j # i => invites'[j] = invites[j]
  BY <1>1
<1>3. \A j \in Invites : j # i => NewestLink(j)' = NewestLink(j)
  BY <1>2 DEF NewestLink, Describable
<1>4. [j \in Invites |-> NewestLink(j)]' = [[j \in Invites |-> NewestLink(j)] EXCEPT ![i] = NewestLink(i)']
  BY <1>3
<1>5. [j \in Invites |-> invites[j].link]' = [[j \in Invites |-> invites[j].link] EXCEPT ![i] = row.link]
  <2> DEFINE Sent(j) == invites[j].link
  <2>1. Sent(i)' = row.link /\ \A j \in Invites : j # i => Sent(j)' = Sent(j)
    BY <1>2
  <2> HIDE DEF Sent
  <2>2. [j \in Invites |-> Sent(j)]' = [[j \in Invites |-> Sent(j)] EXCEPT ![i] = row.link]
    BY <2>1
  <2> QED
    BY <2>2 DEF Sent
<1> QED
  BY <1>2, <1>4, <1>5

LEMMA Sends ==
    ASSUME DirectoryInv, NEW i \in Invites, NEW row, invites' = [invites EXCEPT ![i] = row],
           row.link = invites[i].link + 1, row.status \in {"PENDING", "EXPIRED"}, row.lapsed = FALSE,
           invites[i].status # "ACCEPTED", Opened' = Opened
    PROVE  Link!Send(i)
<1>1. NewestLink(i) # "used"
  BY DEF NewestLink
<1>2. NewestLink(i)' = "live"
  BY OneLink, DirectoryAssumption DEF NewestLink, Describable
<1>3. [j \in Invites |-> NewestLink(j)]' = [[j \in Invites |-> NewestLink(j)] EXCEPT ![i] = "live"]
  BY <1>2, OneLink
<1>4. [j \in Invites |-> invites[j].link]' = [[j \in Invites |-> invites[j].link] EXCEPT ![i] = invites[i].link + 1]
  <2>1. [j \in Invites |-> invites[j].link]' = [[j \in Invites |-> invites[j].link] EXCEPT ![i] = row.link]
    BY OneLink
  <2> QED
    BY <2>1
<1> QED
  BY <1>1, <1>3, <1>4 DEF Link!Send

LEMMA Kills ==
    ASSUME DirectoryInv, NEW i \in Invites, NEW row, invites' = [invites EXCEPT ![i] = row],
           row.link = invites[i].link, NewestLink(i)' \in {NewestLink(i), "dead"},
           NewestLink(i)' = "dead" => NewestLink(i) \in {"live", "dead"},
           Opened' = Opened
    PROVE  Link!Kill(i) \/ UNCHANGED Link!linkVars
<1>1. CASE NewestLink(i)' = NewestLink(i)
  <2>1. \A j \in Invites : NewestLink(j)' = NewestLink(j) /\ invites'[j].link = invites[j].link
    <3>1. \A j \in Invites : j # i => invites'[j] = invites[j]
      BY DEF DirectoryInv, DirectoryTypes
    <3> QED
      BY <1>1, <3>1, OneLink DEF NewestLink, Describable
  <2> QED
    BY <2>1, LinksRest
<1>2. CASE NewestLink(i)' = "dead" /\ NewestLink(i) = "live"
  <2>1. [j \in Invites |-> invites[j].link]' = [j \in Invites |-> invites[j].link]
    <3>1. [j \in Invites |-> invites[j].link]' = [[j \in Invites |-> invites[j].link] EXCEPT ![i] = invites[i].link]
      BY OneLink
    <3> QED
      BY <3>1
  <2> QED
    BY <1>2, <2>1, OneLink DEF Link!Kill
<1> QED
  BY <1>1, <1>2

LinkStep == [Link!LinkNext]_(Link!linkVars)

LEMMA LinkStepKinds ==
    ASSUME \/ UNCHANGED Link!linkVars
           \/ \E i \in Invites :
                 \/ Link!Send(i) \/ Link!Kill(i)
                 \/ \E s \in Slots :
                        \/ Link!Open(s, i)
                        \/ \E n \in 1 .. invites[i].link : Link!Use(s, i, n) \/ Link!Leave(s, i, n)
    PROVE  LinkStep
BY DEF LinkStep, Link!LinkNext

LEMMA NoInviteTouched ==
    ASSUME UNCHANGED invites, Opened' = Opened
    PROVE  LinkStep
<1>1. \A i \in Invites : NewestLink(i)' = NewestLink(i) /\ invites'[i].link = invites[i].link
  BY DEF NewestLink, Describable
<1> QED
  BY <1>1, LinksRest, LinkStepKinds

(* A request that begins may open a link. *)
LEMMA AskRefines ==
    ASSUME DirectoryInv, NEW s \in Slots, Asks(s)
    PROVE  LinkStep
<1>1. UNCHANGED invites /\ s \notin Busy /\ DOMAIN call = Slots
  BY AskInSteps DEF Asked, rows, DirectoryInv, DirectoryTypes
<1>2. PICK w : call' = [call EXCEPT ![s] = w] /\ Good(w) /\ Opens(w)
  BY EveryCheck, Zenon DEF Checked
<1>3. call[s].op # "accept"
  BY <1>1, WriterIsBusy
<1>4. CASE w.op # "accept"
  <2>1. Opened' = Opened
    BY <1>1, <1>2, <1>3, <1>4, OpenedStays
  <2> QED
    BY <1>1, <2>1, NoInviteTouched
<1>5. CASE w.op = "accept"
  <2>1. Opened' = Opened \cup {<<s, w.i, w.inv.link>>}
    <3>1. Opened' = (Opened \ Activating(s, call[s])) \cup Activating(s, w)
      BY <1>1, <1>2, OpenedMoves
    <3>2. Activating(s, call[s]) = {} /\ Activating(s, w) = {<<s, w.i, w.inv.link>>}
      BY <1>3, <1>5 DEF Activating
    <3> QED
      BY <3>1, <3>2, Zenon
  <2>2. w.i \in Invites /\ w.inv = invites[w.i] /\ Describable(w.i)
    BY <1>2, <1>5 DEF Good, InviteGood, Opens
  <2>3. NewestLink(w.i) = "live"
    BY <2>2, DirectoryAssumption DEF NewestLink, Describable
  <2>4. \A i \in Invites : NewestLink(i)' = NewestLink(i)
    BY <1>1 DEF NewestLink, Describable
  <2>5. Link!Open(s, w.i)
    BY <1>1, <2>1, <2>2, <2>3, <2>4 DEF Link!Open
  <2> QED
    BY <2>2, <2>5, LinkStepKinds
<1> QED
  BY <1>4, <1>5

LEMMA InvitationRefines ==
    ASSUME DirectoryInv, NEW s \in Slots, InvitationWrites(s)
    PROVE  LinkStep
<1> DEFINE w == call[s]
<1>0. Done(s) /\ DOMAIN call = Slots
  BY Zenon DEF InvitationWrites, Issue, Resend, Revoke, Accept, AcceptRefused, DirectoryInv, DirectoryTypes
<1>1. call[s].op # "accept" => Opened' = Opened
  <2>1. call' = [call EXCEPT ![s] = Idle]
    BY <1>0 DEF Done
  <2>2. Idle.op # "accept"
    BY DEF Idle
  <2> QED
    BY <1>0, <2>1, <2>2, OpenedStays
<1>2. invites \in [Invites -> Invitation]
  BY DEF DirectoryInv, DirectoryTypes
<1>3. CASE Issue(s)
  <2>1. w.i \in Invites /\ invites[w.i].status \in {Null, "PENDING", "EXPIRED"} /\ w.op = "issue"
    BY <1>0, <1>3 DEF Issue, Writes, DirectoryInv, Good, InviteGood
  <2> DEFINE row == [status |-> IF invites[w.i].status = Null THEN "PENDING" ELSE invites[w.i].status,
                     email |-> w.email, role |-> w.role, scopes |-> w.scopes, siteFor |-> w.siteFor,
                     link |-> invites[w.i].link + 1, lapsed |-> FALSE]
  <2>2. invites' = [invites EXCEPT ![w.i] = row]
    BY <1>3 DEF Issue
  <2>3. row.link = invites[w.i].link + 1 /\ row.status \in {"PENDING", "EXPIRED"} /\ row.lapsed = FALSE
    BY <2>1
  <2>4. invites[w.i].status # "ACCEPTED"
    BY <2>1, DirectoryAssumption
  <2>5. Opened' = Opened
    BY <1>1, <2>1
  <2> HIDE DEF row, w
  <2> QED
    BY <2>1, <2>2, <2>3, <2>4, <2>5, Sends, LinkStepKinds
<1>4. CASE Resend(s)
  <2>1. w.i \in Invites /\ invites[w.i].status \in {"PENDING", "REVOKED", "EXPIRED"} /\ w.op = "resend"
    BY <1>0, <1>4 DEF Resend, Writes, DirectoryInv, Good, InviteGood
  <2>2. PICK k : k = invites[w.i].link + 1
    OBVIOUS
  <2>3. PICK row : row = [invites[w.i] EXCEPT !.status = "PENDING", !.link = k, !.lapsed = FALSE]
    OBVIOUS
  <2>4. invites' = [invites EXCEPT ![w.i] = row]
    BY <1>2, <1>4, <2>1, <2>2, <2>3 DEF Resend
  <2>5. row.link = k /\ row.status = "PENDING" /\ row.lapsed = FALSE
    BY <1>2, <2>1, <2>3 DEF Invitation
  <2>6. Opened' = Opened
    BY <1>1, <2>1
  <2> HIDE DEF w
  <2> QED
    BY <2>1, <2>2, <2>4, <2>5, <2>6, Sends, LinkStepKinds
<1>5. CASE Revoke(s)
  <2>0. PICK i : i = w.i
    OBVIOUS
  <2>1. i \in Invites /\ invites[i].status \in {"PENDING", "REVOKED", "EXPIRED"} /\ w.op = "revoke"
    BY <1>0, <1>5, <2>0 DEF Revoke, Writes, DirectoryInv, Good, InviteGood
  <2>2. PICK row : row = [invites[i] EXCEPT !.status = "REVOKED"]
    OBVIOUS
  <2>3. invites' = [invites EXCEPT ![i] = row] /\ invites'[i] = row
    BY <1>2, <1>5, <2>0, <2>1, <2>2 DEF Revoke
  <2>4. row.link = invites[i].link /\ row.status = "REVOKED"
    BY <1>2, <2>1, <2>2 DEF Invitation
  <2>5. NewestLink(i)' = "dead" /\ NewestLink(i) \in {"live", "dead"}
    BY <2>1, <2>3, <2>4, DirectoryAssumption DEF NewestLink, Describable
  <2>6. Opened' = Opened
    BY <1>1, <2>1
  <2> HIDE DEF w
  <2> QED
    BY <2>1, <2>3, <2>4, <2>5, <2>6, Kills, LinkStepKinds
<1>6. CASE Accept(s) \/ AcceptRefused(s)
  <2>0. PICK i, n : i = w.i /\ n = w.inv.link
    OBVIOUS
  <2>1. w.op = "accept" /\ i \in Invites /\ n \in 1 .. invites[i].link /\ invites[i].status # "ACCEPTED"
    BY <1>0, <1>6, <2>0 DEF Accept, AcceptRefused, Writes, DirectoryInv, Good, InviteGood
  <2>2. <<s, i, n>> \in Opened /\ Opened' = Opened \ {<<s, i, n>>}
    <3>1. Activating(s, w) = {<<s, i, n>>} /\ Activating(s, Idle) = {}
      BY <2>0, <2>1 DEF Activating, Idle
    <3>2. Opened' = (Opened \ Activating(s, w)) \cup Activating(s, Idle)
      BY <1>0, OpenedMoves DEF Done
    <3>3. Activating(s, w) \subseteq Opened
      BY OpenedBySlot
    <3> HIDE DEF w
    <3> QED
      BY <3>1, <3>2, <3>3
  <2>3. CASE Accept(s)
    <3>1. PICK row : row = [invites[i] EXCEPT !.status = "ACCEPTED"]
      OBVIOUS
    <3>2. invites' = [invites EXCEPT ![i] = row] /\ invites'[i] = row
      BY <1>2, <2>0, <2>1, <2>3, <3>1 DEF Accept
    <3>3. row.link = invites[i].link /\ row.status = "ACCEPTED"
      BY <1>2, <2>1, <3>1 DEF Invitation
    <3>4. NewestLink(i)' = "used"
      <4>1. invites'[i].status = "ACCEPTED" /\ "ACCEPTED" # Null
        BY <3>2, <3>3, DirectoryAssumption
      <4> QED
        BY <4>1 DEF NewestLink, Describable
    <3>5. [j \in Invites |-> invites[j].link]' = [j \in Invites |-> invites[j].link]
      <4>1. [j \in Invites |-> invites[j].link]' = [[j \in Invites |-> invites[j].link] EXCEPT ![i] = invites[i].link]
        BY <2>1, <3>2, <3>3, OneLink
      <4> QED
        BY <4>1
    <3>6. [j \in Invites |-> NewestLink(j)]' = [[j \in Invites |-> NewestLink(j)] EXCEPT ![i] = "used"]
      BY <2>1, <3>2, <3>4, OneLink
    <3>7. Link!Use(s, i, n)
      <4>1. NewestLink(i) # "used"
        BY <2>1 DEF NewestLink
      <4> QED
        BY <2>1, <2>2, <3>5, <3>6, <4>1 DEF Link!Use
    <3> QED
      BY <2>1, <3>7, LinkStepKinds
  <2>4. CASE AcceptRefused(s)
    <3>1. UNCHANGED invites
      BY <2>4 DEF AcceptRefused, rows
    <3>2. \A j \in Invites : NewestLink(j)' = NewestLink(j)
      BY <3>1 DEF NewestLink, Describable
    <3>3. Link!Leave(s, i, n)
      BY <2>2, <3>1, <3>2 DEF Link!Leave
    <3> QED
      BY <2>1, <3>3, LinkStepKinds
  <2> QED
    BY <1>6, <2>3, <2>4
<1> QED
  BY <1>3, <1>4, <1>5, <1>6 DEF InvitationWrites

LEMMA OtherWritesRefine ==
    ASSUME DirectoryInv, NEW s \in Slots, UserWrites(s) \/ StructureWrites(s) \/ SiteWrites(s)
    PROVE  LinkStep
<1>1. UNCHANGED invites
  BY Zenon DEF UserWrites, StructureWrites, SiteWrites,
     UpdateUser, SetRole, SetScopes, SetActive,
     CreateGroup, GroupActive, RemoveGroup, AssignSites, UnassignSite, Snapshot, rows,
     CreateSite, UpdateSite, DeleteSite, Operate, AssignExisting, GrantExisting, RoleExisting,
     RemoveAccess, CountAccess
<1>2. call[s].op # "accept"
  <2>1. UserWrites(s) => call[s].op # "accept"
    BY Zenon DEF UserWrites, UpdateUser, SetRole, SetScopes, SetActive, Writes
  <2>2. StructureWrites(s) => call[s].op # "accept"
    BY Zenon DEF StructureWrites, CreateGroup, GroupActive, RemoveGroup, AssignSites, UnassignSite,
       Snapshot, Writes
  <2>3. SiteWrites(s) => call[s].op # "accept"
    BY Zenon DEF SiteWrites, CreateSite, UpdateSite, DeleteSite, Operate, AssignExisting, GrantExisting,
       RoleExisting, RemoveAccess, CountAccess, Writes
  <2> QED
    BY <2>1, <2>2, <2>3, Zenon
<1>3. DirectoryWrites(s)
  BY Zenon DEF DirectoryWrites
<1>4. PICK w : call' = [call EXCEPT ![s] = w] /\ w.op # "accept"
  <2>1. CASE Done(s)
    <3>1. call' = [call EXCEPT ![s] = Idle]
      BY <2>1 DEF Done
    <3>2. Idle.op # "accept"
      BY DEF Idle
    <3> QED
      BY <3>1, <3>2
  <2>2. CASE GoesOn(s)
    BY <1>3, <2>2, FollowsUp, WritesKeepTables
  <2> QED
    BY <1>3, <2>1, <2>2, WritesEnd
<1>5. Opened' = Opened
  BY <1>2, <1>4, OpenedStays DEF DirectoryInv, DirectoryTypes
<1> QED
  BY <1>1, <1>5, NoInviteTouched

LEMMA BillingRefines ==
    ASSUME DirectoryInv, NEW s \in Slots, BillingSteps(s)
    PROVE  LinkStep
<1>1. PICK w : call' = [call EXCEPT ![s] = w] /\ w.op \in BillingOps
  BY BillingAside
<1>2. w.op # "accept"
  BY <1>1 DEF BillingOps
<1>3. call[s].op # "accept"
  <2>1. Begun(s) => call[s].op # "accept"
    BY WriterIsBusy DEF Begun
  <2>2. BillingRequests(s) => Begun(s)
    BY Zenon DEF BillingRequests, Ready, createContractStart, updateContractStart, generateInvoice,
       markInvoicePaidStart, cancelInvoiceStart, Ask, Begun
  <2>3. generateDueInvoices(s) \/ markOverdue(s) => Begun(s)
    BY Zenon DEF generateDueInvoices, markOverdue, Free, Goes, Begun
  <2>4. BillingWrites(s) \/ expireLapsed(s) => call[s].op # "accept"
    BY Zenon DEF BillingWrites, createContract, updateContract, SettleInvoice, RaiseStart, NotActive,
       ContractOver, RaiseInvoice, AlreadyInvoiced, expireLapsed, Writes
  <2> QED
    BY <2>1, <2>2, <2>3, <2>4, Zenon DEF BillingSteps, DailyJobs
<1>6. Opened' = Opened
  BY <1>1, <1>2, <1>3, OpenedStays DEF DirectoryInv, DirectoryTypes
<1>7. CASE UNCHANGED rows
  BY <1>6, <1>7, NoInviteTouched DEF rows
<1>8. CASE expireLapsedInvitations
  <2>1. ASSUME NEW i \in Invites
        PROVE  NewestLink(i)' = NewestLink(i) /\ invites'[i].link = invites[i].link
    <3>1. invites[i] \in Invitation
      BY DEF DirectoryInv, DirectoryTypes
    <3>2. CASE i \notin LapsedInvites
      <4>1. invites'[i] = invites[i]
        BY <1>8, <3>2 DEF expireLapsedInvitations
      <4> QED
        BY <4>1 DEF NewestLink, Describable
    <3>3. CASE i \in LapsedInvites
      <4>1. invites[i].status = "PENDING" /\ invites[i].lapsed
        BY <3>3 DEF LapsedInvites
      <4>2. PICK row : row = [invites[i] EXCEPT !.status = "EXPIRED"]
        OBVIOUS
      <4>3. invites'[i] = row
        BY <1>8, <3>3, <4>2 DEF expireLapsedInvitations
      <4>4. row.status = "EXPIRED" /\ row.lapsed /\ row.link = invites[i].link
        BY <3>1, <4>1, <4>2 DEF Invitation
      <4>5. NewestLink(i) = "dead" /\ NewestLink(i)' = "dead"
        BY <4>1, <4>3, <4>4, DirectoryAssumption DEF NewestLink, Describable
      <4> QED
        BY <4>3, <4>4, <4>5
    <3> QED
      BY <3>2, <3>3
  <2> QED
    BY <1>6, <2>1, LinksRest, LinkStepKinds
<1> QED
  BY <1>7, <1>8, BillingAside

(* Time only ever kills a link. *)
LEMMA TimeRefines ==
    ASSUME DirectoryInv, LinkSteps
    PROVE  LinkStep
<1>1. PICK i \in Invites : Lapse(i) \/ DescribeLapsed(i)
  BY Zenon DEF LinkSteps
<1>2. UNCHANGED call
  BY <1>1, Zenon DEF Lapse, DescribeLapsed
<1>3. Opened' = Opened
  BY <1>2 DEF Opened, Writes
<1>4. invites \in [Invites -> Invitation] /\ invites[i] \in Invitation
  BY DEF DirectoryInv, DirectoryTypes
<1>5. CASE Lapse(i)
  <2>1. PICK row : row = [invites[i] EXCEPT !.lapsed = TRUE]
    OBVIOUS
  <2>2. invites' = [invites EXCEPT ![i] = row] /\ invites'[i] = row
    BY <1>4, <1>5, <2>1 DEF Lapse
  <2>3. row.link = invites[i].link /\ row.status = invites[i].status /\ row.lapsed
    BY <1>4, <2>1 DEF Invitation
  <2>4. NewestLink(i)' = "dead" /\ NewestLink(i) = "live"
    BY <1>5, <2>2, <2>3, DirectoryAssumption DEF Lapse, NewestLink, Describable
  <2> QED
    BY <1>3, <2>2, <2>3, <2>4, Kills, LinkStepKinds
<1>6. CASE DescribeLapsed(i)
  <2>1. PICK row : row = [invites[i] EXCEPT !.status = "EXPIRED"]
    OBVIOUS
  <2>2. invites' = [invites EXCEPT ![i] = row] /\ invites'[i] = row
    BY <1>4, <1>6, <2>1 DEF DescribeLapsed
  <2>3. row.link = invites[i].link /\ row.status = "EXPIRED" /\ row.lapsed
    BY <1>4, <1>6, <2>1 DEF Invitation, DescribeLapsed
  <2>4. NewestLink(i)' = "dead" /\ NewestLink(i) = "dead"
    BY <1>6, <2>2, <2>3, DirectoryAssumption DEF DescribeLapsed, NewestLink, Describable
  <2> QED
    BY <1>3, <2>2, <2>3, <2>4, Kills, LinkStepKinds
<1> QED
  BY <1>1, <1>5, <1>6

LEMMA EveryStepRefines ==
    ASSUME DirectoryInv, [PortalNext]_portal
    PROVE  LinkStep
<1>1. CASE UNCHANGED <<invites, call>>
  <2>1. Opened' = Opened
    BY <1>1 DEF Opened, Writes
  <2> QED
    BY <1>1, <2>1, NoInviteTouched
<1>2. UNCHANGED portal => UNCHANGED <<invites, call>>
  BY DEF portal, vars, rows
<1>3. AccountSteps => UNCHANGED <<invites, call>>
  BY Zenon DEF AccountSteps, registerBusiness, resendVerificationEmail, CodeLapses, login, verifyEmail, rows
<1>4. Tick => UNCHANGED <<invites, call>>
  BY DEF Tick, directory, rows
<1>5. ASSUME NEW s \in Slots, DirectoryWrites(s)
      PROVE  LinkStep
  BY <1>5, InvitationRefines, OtherWritesRefine, Zenon DEF DirectoryWrites
<1> QED
  BY <1>1, <1>2, <1>3, <1>4, <1>5, PortalSteps, TimeRefines, AskRefines, BillingRefines, Zenon

LEMMA LinksAtFirst ==
    ASSUME PortalInit
    PROVE  Link!LinkInit
<1>1. PICK z \in Starts : Begin(z.situation)
  BY Zenon DEF PortalInit
<1>2. PICK w : w = z.situation
  OBVIOUS
<1>3. Sound(w) /\ invites = w.invites
  BY <1>1, <1>2, PortalAssumption DEF Begin
<1>4. \A i \in Invites : invites[i].link = IF NewestLink(i) = "unsent" THEN 0 ELSE 1
  <2>1. \A i \in Invites : invites[i].link = IF invites[i].status = Null THEN 0 ELSE 1
    BY <1>3 DEF Sound
  <2>2. ASSUME NEW i \in Invites
        PROVE  NewestLink(i) = "unsent" <=> invites[i].status = Null
    <3>1. CASE invites[i].status = Null
      BY <3>1, DirectoryAssumption DEF NewestLink, Describable
    <3>2. CASE invites[i].status # Null
      BY <3>2, DirectoryAssumption DEF NewestLink, Describable
    <3> QED
      BY <3>1, <3>2
  <2> QED
    BY <2>1, <2>2
<1>5. \A i \in Invites : NewestLink(i) \in {"unsent", "live", "dead", "used"}
  BY DEF NewestLink, Describable
<1>6. Opened = {}
  <2>1. \A s \in Slots : call[s].op # "accept"
    BY DEF PortalInit, Idle
  <2> QED
    BY <2>1, NothingOpened
<1> QED
  BY <1>4, <1>5, <1>6 DEF Link!LinkInit, Link!LinkState

(* LinksWork: invitations, whoever asks for them and however many open them,  *)
(* implement ActivationLink unless a request is overtaken.  A used invitation *)
(* is never sent, revoked, expired or used again, and only whoever opened the *)
(* newest link while it was live activates an account with it.                *)
THEOREM LinksKeepTheirPromise == PortalSpec /\ [][NotOvertaken]_portal => LinksWork
<1>1. PortalInit => Link!LinkInit
  BY LinksAtFirst
<1>2. DirectoryInv /\ [PortalNext]_portal => [Link!LinkNext]_(Link!linkVars)
  BY EveryStepRefines DEF LinkStep
<1> QED
  BY <1>1, <1>2, DirectoryConsistent, PTL DEF PortalSpec, LinksWork, Link!LinkSpec

-----------------------------------------------------------------------------
(* Billing: what the contract and the invoices agree on. *)

LEMMA BillGoodElsewhere ==
    ASSUME NEW w, w.op \notin BillingOps \/ w.op = "idle"
    PROVE  BillGood(w) /\ BillGood(w)'
BY DEF BillingOps, BillGood

LEMMA BillGoodStays ==
    ASSUME NEW w, BillGood(w), UNCHANGED billing
    PROVE  BillGood(w)'
<1>1. contract' = contract /\ invoices' = invoices /\ today' = today
  BY DEF billing
<1>2. Billed' = Billed /\ Due' = Due
  BY <1>1 DEF Billed, Due
<1>3. \A from : Open(from) => Open(from)'
  BY <1>1, <1>2 DEF Open
<1> QED
  BY <1>1, <1>2, <1>3 DEF BillGood

LEMMA BillingRowsStay ==
    ASSUME BillingRows, UNCHANGED <<contract, invoices, today>>
    PROVE  BillingRows'
<1>1. Billed' = Billed
  BY DEF Billed
<1>2. \A d \in Billed : InvoiceRow(d)'
  BY DEF BillingRows, InvoiceRow
<1>3. PeriodsInSequence' <=> PeriodsInSequence
  BY <1>1 DEF PeriodsInSequence
<1> QED
  BY <1>1, <1>2, <1>3 DEF BillingRows

(* Request s goes on to w, nobody is overtaken, and the rows allow it. *)
LEMMA BillingGoesOn ==
    ASSUME BillingInv, BillingNotOvertaken, DOMAIN call = Slots, NEW s \in Slots,
           NEW w, call' = [call EXCEPT ![s] = w], BillGood(w)', BillingRows'
    PROVE  BillingInv'
<1>1. ASSUME NEW t \in Slots
      PROVE  BillGood(call[t])'
  <2>1. CASE t = s
    <3>1. call'[t] = w
      BY <2>1
    <3> QED
      BY <3>1
  <2>2. CASE t # s
    <3>1. call'[t] = call[t]
      BY <2>2
    <3> QED
      BY <3>1 DEF BillingNotOvertaken, BillingInv
  <2> QED
    BY <2>1, <2>2
<1> QED
  BY <1>1 DEF BillingInv

(* While the rows stay, nobody can be overtaken. *)
LEMMA NobodyIsOvertaken ==
    ASSUME UNCHANGED billing
    PROVE  BillingNotOvertaken
BY BillGoodStays DEF BillingNotOvertaken

(* Requests on the directory leave billing alone. *)
LEMMA DirectoryKeepsBilling ==
    ASSUME DirectoryInv, BillingInv, NEW s \in Slots,
           Asks(s) \/ DirectoryWrites(s), UNCHANGED billing
    PROVE  BillingInv'
<1>1. PICK w : call' = [call EXCEPT ![s] = w] /\ BillGood(w)'
  <2>1. CASE Asks(s)
    BY <2>1, EveryCheck, BillGoodElsewhere DEF Checked, Opens
  <2>2. CASE DirectoryWrites(s) /\ Done(s)
    <3>1. Idle.op = "idle"
      BY DEF Idle
    <3> QED
      BY <2>2, <3>1, BillGoodElsewhere DEF Done
  <2>3. CASE DirectoryWrites(s) /\ GoesOn(s)
    BY <2>3, FollowsUp, WritesKeepTables, BillGoodElsewhere
  <2> QED
    BY <2>1, <2>2, <2>3, WritesEnd
<1>2. BillingRows'
  BY BillingRowsStay DEF BillingInv, billing
<1> QED
  BY <1>1, <1>2, NobodyIsOvertaken, BillingGoesOn DEF DirectoryInv, DirectoryTypes

(* A request or a job that begins has looked at the rows, and changes none. *)
LEMMA BillingBegins ==
    ASSUME BillingInv, NEW s \in Slots, BillingRequests(s) \/ generateDueInvoices(s)
    PROVE  UNCHANGED billing /\ \E w : call' = [call EXCEPT ![s] = w] /\ BillGood(w)
<1> DEFINE Begins == UNCHANGED billing /\ \E w : call' = [call EXCEPT ![s] = w] /\ BillGood(w)
<1>0. contract # Null => contract \in ContractRow
  BY DEF BillingInv, BillingRows
<1>1. ASSUME NEW f \in Frequencies, NEW start \in Dates, NEW end \in Dates \cup {Null},
             createContractStart(s, f, start, end)
      PROVE  Begins
  <2> DEFINE row == [status |-> "ACTIVE", frequency |-> f, end |-> end, next |-> start]
             w == [op |-> "createContract", by |-> Platform, contract |-> row]
  <2>1. row \in ContractRow
    BY DEF ContractRow, Dates
  <2> HIDE DEF row
  <2>2. BillGood(w)
    BY <2>1 DEF BillGood
  <2>3. Ask(s, Platform, w) /\ UNCHANGED billing
    BY <1>1 DEF createContractStart, row
  <2> QED
    BY <2>2, <2>3, Zenon DEF Ask
<1>2. ASSUME NEW change \in ContractChanges, updateContractStart(s, change[1], change[2])
      PROVE  Begins
  <2>1. PICK x, y : change = <<x, y>>
    BY DEF ContractChanges
  <2> DEFINE w == [op |-> "updateContract", field |-> x, to |-> y, by |-> Platform]
  <2>2. BillGood(w)
    BY <1>0, <1>2, <2>1 DEF BillGood, updateContractStart
  <2>3. Ask(s, Platform, w) /\ UNCHANGED billing
    BY <1>2, <2>1 DEF updateContractStart
  <2> QED
    BY <2>2, <2>3, Zenon DEF Ask
<1>3. ASSUME NEW from \in Dates \cup {Null}, generateInvoice(s, from)
      PROVE  Begins
  <2> DEFINE w == Billing(from)
  <2>1. BillGood(w)
    BY <1>0, <1>3 DEF BillGood, generateInvoice, Billing, Open
  <2>2. Ask(s, Platform, w) /\ UNCHANGED billing
    BY <1>3 DEF generateInvoice
  <2> HIDE DEF w
  <2> QED
    BY <2>1, <2>2, Zenon DEF Ask
<1>4. ASSUME NEW d \in Dates, NEW st \in {"PAID", "CANCELLED"}, d \in Billed,
             invoices[d].status \in {"PAID", "CANCELLED"} => invoices[d].status = st,
             Ask(s, Platform, [op |-> "settle", d |-> d, status |-> st, by |-> Platform]), UNCHANGED billing
      PROVE  Begins
  <2> DEFINE w == [op |-> "settle", d |-> d, status |-> st, by |-> Platform]
  <2>1. BillGood(w)
    BY <1>4 DEF BillGood
  <2> QED
    BY <1>4, <2>1, Zenon DEF Ask
<1>5. ASSUME NEW d \in Dates, markInvoicePaidStart(s, d) \/ cancelInvoiceStart(s, d)
      PROVE  Begins
  BY <1>4, <1>5 DEF markInvoicePaidStart, cancelInvoiceStart
<1>6. ASSUME generateDueInvoices(s)
      PROVE  Begins
  <2> DEFINE w == Billing(Null)
  <2>1. BillGood(w)
    BY <1>0, <1>6 DEF BillGood, generateDueInvoices, Due, Billing
  <2>2. Goes(s, w) /\ UNCHANGED billing
    BY <1>6 DEF generateDueInvoices
  <2> HIDE DEF w
  <2> QED
    BY <2>1, <2>2, Zenon DEF Goes
<1> HIDE DEF Begins
<1>7. ASSUME BillingRequests(s)
      PROVE  Begins
  BY <1>1, <1>2, <1>3, <1>5, <1>7, Zenon DEF BillingRequests
<1>8. Begins
  BY <1>6, <1>7
<1> QED
  BY <1>8 DEF Begins

LEMMA Months ==
    ASSUME NEW from \in Nat, NEW f
    PROVE  addBillingPeriod(from, f) \in Nat /\ from < addBillingPeriod(from, f)
BY DEF addBillingPeriod

(* Looking at the contract again, an invoice is worked out. *)
LEMMA RaiseIsSound ==
    ASSUME BillingInv, NEW s \in Slots, RaiseStart(s)
    PROVE  UNCHANGED billing /\ \E w : call' = [call EXCEPT ![s] = w] /\ BillGood(w)
<1>1. call[s].op = "bill" /\ BillGood(call[s])
  BY DEF BillingInv, RaiseStart, Writes
<1>2. contract \in ContractRow /\ (IF call[s].from = Null THEN Due ELSE Open(call[s].from))
  BY <1>1 DEF BillGood
<1> DEFINE from == IF call[s].from = Null THEN contract.next ELSE call[s].from
           to == addBillingPeriod(from, contract.frequency)
           w == [op |-> "raise", from |-> from, to |-> to,
                 over |-> contract.end # Null /\ from > contract.end,
                 named |-> call[s].from # Null, by |-> Platform]
<1>3. Goes(s, w) /\ UNCHANGED billing /\ from \in Dates
  BY Zenon DEF RaiseStart
<1>4. Open(from) /\ (call[s].from # Null \/ from <= today)
  <2>1. contract.next \in Nat
    BY <1>2 DEF ContractRow
  <2> QED
    BY <1>2, <1>3, <2>1 DEF Open, Due
<1>5. to \in Nat /\ from < to
  <2>1. from \in Nat
    BY <1>3 DEF Dates
  <2> HIDE DEF from
  <2> QED
    BY <2>1, Months
<1> HIDE DEF from, to
<1>6. BillGood(w)
  BY <1>2, <1>4, <1>5 DEF BillGood
<1> QED
  BY <1>3, <1>6, Zenon DEF Goes

LEMMA BillingReads ==
    ASSUME DOMAIN call = Slots, BillingInv, NEW s \in Slots,
           BillingRequests(s) \/ generateDueInvoices(s) \/ RaiseStart(s)
    PROVE  BillingInv'
<1>1. PICK w : call' = [call EXCEPT ![s] = w] /\ BillGood(w) /\ UNCHANGED billing
  BY BillingBegins, RaiseIsSound, Zenon
<1>2. BillGood(w)' /\ BillingRows'
  BY <1>1, BillGoodStays, BillingRowsStay DEF BillingInv, billing
<1> QED
  BY <1>1, <1>2, NobodyIsOvertaken, BillingGoesOn

(* The contract changes in what does not concern the periods. *)
LEMMA ContractChanged ==
    ASSUME BillingRows, contract \in ContractRow, contract' \in ContractRow,
           contract'.next = contract.next, UNCHANGED <<invoices, today>>
    PROVE  BillingRows'
<1>1. Billed' = Billed
  BY DEF Billed
<1>2. \A d \in Billed : InvoiceRow(d)'
  BY DEF BillingRows, InvoiceRow
<1>3. PeriodsInSequence' <=> PeriodsInSequence
  BY <1>1 DEF PeriodsInSequence
<1> QED
  BY <1>1, <1>2, <1>3 DEF BillingRows

LEMMA StatusChanged ==
    ASSUME NEW d, InvoiceRow(d), NEW st \in {"ISSUED", "OVERDUE", "PAID", "CANCELLED"},
           invoices'[d] = [invoices[d] EXCEPT !.status = st]
    PROVE  InvoiceRow(d)' /\ invoices'[d].to = invoices[d].to
<1>1. PICK n : n = invoices[d].number
  OBVIOUS
<1>2. invoices[d] \in [to : Nat, status : {"ISSUED", "OVERDUE", "PAID", "CANCELLED"}, due : Nat, number : {n}]
  BY <1>1 DEF InvoiceRow
<1>3. /\ invoices'[d] \in [to : Nat, status : {"ISSUED", "OVERDUE", "PAID", "CANCELLED"}, due : Nat, number : {n}]
      /\ invoices'[d].to = invoices[d].to
  BY <1>2
<1>4. invoices'[d].number = n
  BY <1>3
<1> QED
  BY <1>3, <1>4 DEF InvoiceRow

\* Some invoices are settled, or found to be overdue.
LEMMA InvoicesChanged ==
    ASSUME BillingRows, UNCHANGED <<contract, today>>, DOMAIN invoices' = Dates,
           \A d \in Dates :
               \/ invoices'[d] = invoices[d]
               \/ /\ d \in Billed
                  /\ \E st \in {"OVERDUE", "PAID", "CANCELLED"} :
                         invoices'[d] = [invoices[d] EXCEPT !.status = st]
    PROVE  BillingRows'
<1>1. \A d \in Billed' : d \in Billed
  BY DEF Billed
<1>2. \A d \in Billed : InvoiceRow(d)' /\ invoices'[d].to = invoices[d].to
  <2> TAKE d \in Billed
  <2>1. d \in Dates /\ InvoiceRow(d)
    BY DEF BillingRows, Billed
  <2>2. CASE invoices'[d] = invoices[d]
    BY <2>1, <2>2 DEF InvoiceRow
  <2> QED
    BY <2>1, <2>2, StatusChanged
<1>3. PeriodsInSequence => PeriodsInSequence'
  BY <1>1, <1>2 DEF PeriodsInSequence
<1>4. contract = Null /\ Billed = {} => contract' = Null /\ Billed' = {}
  BY <1>1
<1> QED
  BY <1>1, <1>2, <1>3, <1>4 DEF BillingRows

LEMMA ContractWrites ==
    ASSUME BillingInv, NEW s \in Slots,
           createContract(s) \/ updateContract(s) \/ ContractOver(s) \/ expireLapsed(s)
    PROVE  BillingRows'
<1>0. BillGood(call[s]) /\ BillingRows /\ UNCHANGED <<invoices, today>>
  BY Zenon DEF BillingInv, createContract, updateContract, ContractOver, expireLapsed
<1>1. CASE contract' = contract
  BY <1>0, <1>1, BillingRowsStay
<1>2. CASE createContract(s) /\ contract' # contract
  <2>1. contract = Null /\ contract' = call[s].contract /\ call[s].contract \in ContractRow
    BY <1>0, <1>2 DEF createContract, Writes, BillGood
  <2>2. \A d \in Dates : invoices[d] = Null
    <3>1. Billed = {}
      BY <1>0, <2>1, BillingAssumption DEF BillingRows
    <3> QED
      BY <3>1 DEF Billed
  <2>3. Billed' = {}
    BY <1>0, <2>2 DEF Billed
  <2> QED
    BY <1>0, <2>1, <2>3 DEF BillingRows, PeriodsInSequence
<1>3. CASE updateContract(s)
  <2>1. contract \in ContractRow /\ <<call[s].field, call[s].to>> \in ContractChanges
    BY <1>0, <1>3 DEF updateContract, Writes, BillGood
  <2>2. PICK x, y : x = call[s].field /\ y = call[s].to
    OBVIOUS
  <2>3. contract' = [contract EXCEPT ![x] = y]
    BY <1>3, <2>2 DEF updateContract
  <2>4. contract' \in ContractRow /\ contract'.next = contract.next
    <3>1. CASE x = "status" /\ y \in {"DRAFT", "ACTIVE", "EXPIRED", "TERMINATED"}
      BY <2>1, <2>3, <3>1 DEF ContractRow
    <3>2. CASE x = "frequency" /\ y \in Frequencies
      BY <2>1, <2>3, <3>2 DEF ContractRow
    <3>3. CASE x = "end" /\ y \in Dates
      BY <2>1, <2>3, <3>3 DEF ContractRow
    <3> QED
      BY <2>1, <2>2, <3>1, <3>2, <3>3 DEF ContractChanges
  <2> QED
    BY <1>0, <2>1, <2>4, ContractChanged
<1>4. CASE (ContractOver(s) \/ expireLapsed(s)) /\ contract' # contract
  <2>1. contract \in ContractRow /\ contract' = [contract EXCEPT !.status = "EXPIRED"]
    BY <1>0, <1>4 DEF ContractOver, expireLapsed, Writes, BillGood
  <2>2. contract' \in ContractRow /\ contract'.next = contract.next
    BY <2>1 DEF ContractRow
  <2> QED
    BY <1>0, <2>1, <2>2, ContractChanged
<1> QED
  BY <1>1, <1>2, <1>3, <1>4

LEMMA InvoiceWrites ==
    ASSUME BillingInv, NEW s \in Slots, SettleInvoice(s) \/ markOverdue(s)
    PROVE  BillingRows'
<1>0. BillGood(call[s]) /\ BillingRows /\ UNCHANGED <<contract, today>>
  BY Zenon DEF BillingInv, SettleInvoice, markOverdue
<1>1. CASE SettleInvoice(s)
  <2>1. PICK d, st : d = call[s].d /\ st = call[s].status
    OBVIOUS
  <2>2. d \in Billed /\ st \in {"PAID", "CANCELLED"}
    BY <1>0, <1>1, <2>1 DEF SettleInvoice, Writes, BillGood
  <2>3. invoices' = [invoices EXCEPT ![d] = [invoices[d] EXCEPT !.status = st]]
    BY <1>1, <2>1 DEF SettleInvoice
  <2>4. PICK row : row = [invoices[d] EXCEPT !.status = st]
    OBVIOUS
  <2>5. DOMAIN invoices' = Dates /\ \A e \in Dates : invoices'[e] = IF e = d THEN row ELSE invoices[e]
    BY <1>0, <2>3, <2>4 DEF BillingRows
  <2> QED
    BY <1>0, <2>2, <2>4, <2>5, InvoicesChanged
<1>2. CASE markOverdue(s)
  <2>1. Overdue \subseteq Billed
    BY DEF Overdue
  <2>2. DOMAIN invoices' = Dates
    BY <1>2 DEF markOverdue
  <2>3. \A d \in Dates :
           \/ invoices'[d] = invoices[d]
           \/ d \in Billed /\ invoices'[d] = [invoices[d] EXCEPT !.status = "OVERDUE"]
    BY <1>2, <2>1 DEF markOverdue
  <2> QED
    BY <1>0, <2>2, <2>3, InvoicesChanged
<1> QED
  BY <1>1, <1>2

(* The period billed is the next or a later one, and it ends where the next begins. *)
LEMMA RaisedInSequence ==
    ASSUME BillingInv, NEW s \in Slots, RaiseInvoice(s)
    PROVE  BillingRows'
<1>1. PICK from, to : from = call[s].from /\ to = call[s].to
  OBVIOUS
<1>2. /\ BillingRows /\ contract \in ContractRow /\ Open(from)
      /\ from \notin Billed /\ to \in Nat /\ from < to
  BY <1>1 DEF BillingInv, BillGood, RaiseInvoice, Writes, Refused, Billed
<1>3. from \in Dates /\ (BackBilling \/ from >= contract.next)
  BY <1>2 DEF Open
<1>4. PICK k : k = nextInvoiceNumber
  OBVIOUS
<1>5. PICK n : n = today + 1
  OBVIOUS
<1>6. PICK row : row = [to |-> to, status |-> "ISSUED", due |-> n, number |-> k]
  OBVIOUS
<1>7. invoices' = [invoices EXCEPT ![from] = row] /\ contract' = [contract EXCEPT !.next = to] /\ today' = today
  BY <1>1, <1>4, <1>5, <1>6 DEF RaiseInvoice
<1>8. contract' \in ContractRow /\ contract'.next = to
  BY <1>2, <1>7 DEF ContractRow
<1>9. n \in Nat
  BY <1>2, <1>5 DEF BillingRows
<1>10. invoices'[from] = row /\ DOMAIN invoices' = Dates /\ \A d \in Dates : d # from => invoices'[d] = invoices[d]
  BY <1>2, <1>3, <1>7 DEF BillingRows
<1>11. \A d \in Billed' : d = from \/ (d # from /\ d \in Billed)
  BY <1>10 DEF Billed
<1>12. InvoiceRow(from)' /\ invoices'[from].to = to
  BY <1>2, <1>6, <1>9, <1>10 DEF InvoiceRow
<1>13. \A d \in Billed : d # from => InvoiceRow(d)' /\ invoices'[d].to = invoices[d].to
  BY <1>2, <1>10 DEF BillingRows, InvoiceRow, Billed
<1>14. ASSUME ~BackBilling
       PROVE  PeriodsInSequence'
  <2>1. contract.next \in Nat /\ from \in Nat /\ contract.next <= from
    BY <1>2, <1>3, <1>14 DEF ContractRow, Dates
  <2>2. \A d \in Billed : d \in Nat /\ invoices[d].to \in Nat /\ d < invoices[d].to /\ invoices[d].to <= contract.next
    BY <1>2, <1>14 DEF BillingRows, InvoiceRow, PeriodsInSequence, Billed, Dates
  <2>3. \A d, e \in Billed : d < e => invoices[d].to <= e
    BY <1>2, <1>14 DEF BillingRows, PeriodsInSequence
  <2>4. \A d \in Billed' : invoices'[d].to <= to
    BY <1>2, <1>11, <1>12, <1>13, <2>1, <2>2
  <2>5. \A d, e \in Billed' : d < e => invoices'[d].to <= e
    BY <1>2, <1>11, <1>12, <1>13, <2>1, <2>2, <2>3
  <2> QED
    BY <1>8, <2>4, <2>5 DEF PeriodsInSequence
<1> QED
  BY <1>2, <1>7, <1>8, <1>10, <1>11, <1>12, <1>13, <1>14 DEF BillingRows

LEMMA BillingWritten ==
    ASSUME DOMAIN call = Slots, BillingInv, BillingNotOvertaken, NEW s \in Slots, BillingSteps(s)
    PROVE  BillingInv'
<1>1. CASE BillingRequests(s) \/ generateDueInvoices(s) \/ RaiseStart(s)
  BY <1>1, BillingReads
<1>2. CASE Done(s) /\ BillingRows'
  BY <1>2, BillingGoesOn, BillGoodElsewhere DEF Done, Idle
<1>3. CASE markOverdue(s)
  <2>0. PICK w : w = [op |-> "expire", lapsed |-> ContractLapsed, by |-> Platform]
    OBVIOUS
  <2>1. BillingRows'
    BY <1>3, InvoiceWrites
  <2>2. Goes(s, w) /\ contract' = contract
    BY <1>3, <2>0 DEF markOverdue
  <2>3. ContractLapsed => contract \in ContractRow
    BY DEF ContractLapsed, BillingInv, BillingRows
  <2>4. BillGood(w)'
    <3>1. w.op = "expire" /\ (w.lapsed => ContractLapsed)
      BY <2>0
    <3> QED
      BY <2>2, <2>3, <3>1 DEF BillGood
  <2> QED
    BY <2>1, <2>2, <2>4, BillingGoesOn DEF Goes
<1>4. CASE NotActive(s) \/ AlreadyInvoiced(s)
  BY <1>2, <1>4, BillingRowsStay DEF NotActive, AlreadyInvoiced, billing, BillingInv
<1>5. CASE createContract(s) \/ updateContract(s) \/ ContractOver(s) \/ expireLapsed(s)
  <2>1. Done(s)
    BY <1>5, Zenon DEF createContract, updateContract, ContractOver, expireLapsed
  <2> QED
    BY <1>2, <1>5, <2>1, ContractWrites
<1>6. CASE SettleInvoice(s) \/ RaiseInvoice(s)
  <2>1. Done(s)
    BY <1>6, Zenon DEF SettleInvoice, RaiseInvoice
  <2> QED
    BY <1>2, <1>6, <2>1, InvoiceWrites, RaisedInSequence
<1> QED
  BY <1>1, <1>3, <1>4, <1>5, <1>6, Zenon DEF BillingSteps, BillingWrites, DailyJobs

(* A month goes by: what was due stays due. *)
LEMMA MonthKeepsBilling ==
    ASSUME BillingInv, Tick
    PROVE  BillingInv'
<1>1. /\ contract' = contract /\ invoices' = invoices /\ call' = call
      /\ today \in Nat /\ today' = today + 1
  BY DEF Tick, BillingInv, BillingRows
<1>2. Billed' = Billed
  BY <1>1 DEF Billed
<1>3. BillingRows'
  BY <1>1, <1>2 DEF BillingInv, BillingRows, InvoiceRow, PeriodsInSequence
<1>4. \A from : Open(from) => Open(from)' /\ from \in Nat
  BY <1>1, <1>2 DEF Open, Dates
<1>5. contract \in ContractRow /\ Due => Due'
  BY <1>1 DEF Due, ContractRow
<1>6. \A w : BillGood(w) => BillGood(w)'
  <2> TAKE w
  <2> HAVE BillGood(w)
  <2>1. CASE w.op = "raise"
    BY <1>1, <1>4, <2>1 DEF BillGood
  <2>2. CASE w.op # "raise"
    BY <1>1, <1>2, <1>4, <1>5, <2>2 DEF BillGood
  <2> QED
    BY <2>1, <2>2
<1> QED
  BY <1>1, <1>3, <1>6 DEF BillingInv

LEMMA BillingInvStep ==
    ASSUME DirectoryInv, BillingInv, [BillingNotOvertaken]_portal, [PortalNext]_portal
    PROVE  BillingInv'
<1>1. CASE UNCHANGED <<billing, call>>
  <2>1. BillingRows'
    BY <1>1, BillingRowsStay DEF BillingInv, billing
  <2> QED
    BY <1>1, <2>1, BillGoodStays DEF BillingInv
<1>2. UNCHANGED portal => UNCHANGED <<billing, call>>
  BY DEF portal, vars
<1>3. AccountSteps \/ LinkSteps => UNCHANGED call
  BY TimeIsNoRequest
<1> QED
  BY <1>1, <1>2, <1>3, PortalSteps, MonthKeepsBilling, DirectoryKeepsBilling, BillingWritten
     DEF DirectoryInv, DirectoryTypes

LEMMA BillingInvAtFirst ==
    ASSUME PortalInit
    PROVE  BillingInv
<1>1. contract = Null /\ invoices = [d \in Dates |-> Null] /\ today = 0
  BY DEF PortalInit, BillingInit
<1>2. BillingRows
  BY <1>1 DEF BillingRows, Billed, PeriodsInSequence
<1>3. \A s \in Slots : call[s].op = "idle"
  BY DEF PortalInit, Idle
<1> QED
  BY <1>2, <1>3, BillGoodElsewhere DEF BillingInv

(* Unless a check of the billing is overtaken, a period that is about to be   *)
(* billed is the next one or a later one, and unless it was named it has      *)
(* begun, however many requests and months go by and whatever was changed     *)
(* about the contract before.                                                 *)
THEOREM BillingConsistent ==
    PortalSpec /\ [][NotOvertaken /\ BillingNotOvertaken]_portal => []BillingInv
<1>1. PortalInit => BillingInv
  BY BillingInvAtFirst
<1>2. DirectoryInv /\ BillingInv /\ [BillingNotOvertaken]_portal /\ [PortalNext]_portal => BillingInv'
  BY BillingInvStep
<1>3. [NotOvertaken /\ BillingNotOvertaken]_portal => [NotOvertaken]_portal /\ [BillingNotOvertaken]_portal
  OBVIOUS
<1> QED
  BY <1>1, <1>2, <1>3, DirectoryConsistent, PTL DEF PortalSpec

(* PeriodsInSequence: the periods billed follow each other, for any length of *)
(* time, any frequencies and any number of requests, unless a check of the    *)
(* billing is overtaken or administrators go back to a period they left out.  *)
THEOREM PeriodsFollow ==
    ASSUME BackBilling = FALSE
    PROVE  PortalSpec /\ [][NotOvertaken /\ BillingNotOvertaken]_portal => []PeriodsInSequence
<1>1. BillingInv => PeriodsInSequence
  BY DEF BillingInv, BillingRows
<1> QED
  BY <1>1, BillingConsistent, PTL

(* NotBilledEarly: unless a check of the billing is overtaken, as the second   *)
(* of two clicks is, no period is billed before it begins.                    *)
THEOREM BilledWhenDue ==
    PortalSpec /\ [][NotOvertaken /\ BillingNotOvertaken]_portal => NotBilledEarly
<1> DEFINE Step(s) ==
        Writing(s, {"raise"}) /\ invoices' # invoices /\ ~call[s].named => call[s].from <= today
<1>1. BillingInv => \A s \in Slots : Step(s)
  BY DEF BillingInv, BillGood, Writing
<1>2. BillingInv /\ [PortalNext]_portal => [\A s \in Slots : Step(s)]_portal
  BY <1>1
<1> QED
  BY <1>2, BillingConsistent, PTL DEF PortalSpec, NotBilledEarly
=============================================================================
