------------------------ MODULE EnterpriseInvitations ------------------------
(***************************************************************************)
(* EnterpriseInvitationService: an invitation escrows a role, scopes and a *)
(* site until its activation link is used.  Issuing is asked for by the    *)
(* user service (EnterpriseUsers).                                         *)
(***************************************************************************)
EXTENDS Directory

Pending(p) == {i \in Invites : invites[i].status = "PENDING" /\ invites[i].email = p}
Unused == {i \in Invites : invites[i].status = Null}

\* What issue decides before it writes; i is the pending invitation it
\* replaces the link of, or a new one.
IssueChecked(p) == ~IsMember(p) /\ p \notin elsewhere
IssueTarget(p) == IF Pending(p) # {} THEN Pending(p) ELSE Unused

Issuing(i, p, role, scopes, siteFor, caller) ==
    [op |-> "issue", i |-> i, email |-> p, role |-> role,
     scopes |-> IF isViewOnlyRole(role) THEN scopes ELSE invites[i].scopes \cup scopes,
     siteFor |-> IF siteFor = Null THEN invites[i].siteFor ELSE siteFor, by |-> caller]

\* An update by id leaves the status alone.
Issue(s) ==
    /\ Writes(s, "issue")
    /\ LET w == call[s] IN
        invites' = [invites EXCEPT ![w.i] =
            [status |-> IF @.status = Null THEN "PENDING" ELSE @.status,
             email |-> w.email, role |-> w.role, scopes |-> w.scopes, siteFor |-> w.siteFor,
             link |-> @.link + 1, lapsed |-> FALSE]]
    /\ Done(s)
    /\ UNCHANGED <<users, member, elsewhere, grants, access, sites, groups, place, history, codes, claims>>

Resendable_Any(i) == invites[i].status # Null

Resendable(i) == invites[i].status \in {"PENDING", "REVOKED", "EXPIRED"}

Resending(i, caller) == [op |-> "resend", i |-> i, by |-> caller]

Resend(s) ==
    /\ Writes(s, "resend")
    /\ LET i == call[s].i IN
        invites' = [invites EXCEPT ![i].status = "PENDING", ![i].link = @ + 1, ![i].lapsed = FALSE]
    /\ Done(s)
    /\ UNCHANGED <<users, member, elsewhere, grants, access, sites, groups, place, history, codes, claims>>

Revoking(i, caller) == [op |-> "revoke", i |-> i, by |-> caller]

Revoke(s) ==
    /\ Writes(s, "revoke")
    /\ invites' = [invites EXCEPT ![call[s].i].status = "REVOKED"]
    /\ Done(s)
    /\ UNCHANGED <<users, member, elsewhere, grants, access, sites, groups, place, history, codes, claims>>

-----------------------------------------------------------------------------
(* Activation *)

\* describe lets the link through, by its time and not by whether it is
\* marked expired; only the newest one is found at all.
Describable(i) == invites[i].status \in {"PENDING", "EXPIRED"} /\ ~invites[i].lapsed

\* Nobody is signed in to accept.
AcceptStart(s, i) ==
    /\ Describable(i)
    /\ Ask(s, Platform,
           [op |-> "accept", i |-> i, inv |-> invites[i], by |-> invites[i].email])

\* A lapsed link is found out when somebody opens it.
DescribeLapsed(i) ==
    /\ invites[i].status = "PENDING" /\ invites[i].lapsed
    /\ invites' = [invites EXCEPT ![i].status = "EXPIRED"]
    /\ UNCHANGED <<users, member, elsewhere, grants, access, sites, groups, place, history>>
    /\ UNCHANGED <<codes, claims, call, left, mix>>

\* acceptedUserId is unique: an account accepts one invitation, ever.
AcceptsTwice(i) ==
    \E j \in Invites \ {i} :
        invites[j].status = "ACCEPTED" /\ invites[j].email = invites[i].email

\* What an accepted invitation grants on a site; site users keep what they have.
GrantedAccess(inv, held) ==
    LET on == {s \in Sites : s = inv.siteFor \/ (~isViewOnlyRole(inv.role) /\ <<"SITE", s>> \in inv.scopes)}
    IN [s \in Sites |->
            IF s \notin on THEN held[s]
            ELSE IF inv.role # "SITE_USER" THEN "SITE_ADMIN"
            ELSE IF held[s] = Null THEN "STAFF" ELSE held[s]]

\* One transaction, on the invitation as it was opened.
Accept(s) ==
    /\ Writes(s, "accept")
    /\ ~AcceptsTwice(call[s].i)
    /\ LET inv == call[s].inv  p == inv.email IN
        /\ users' = [users EXCEPT ![p] = ActiveUser]
        /\ member' = [member EXCEPT ![p] =
               [orgRole |-> IF IsMember(p) THEN @.orgRole
                            ELSE IF inv.role = "SUPER_ADMIN" THEN "SUPER_ADMIN" ELSE "ORG_MEMBER",
                role |-> inv.role]]
        /\ grants' = [grants EXCEPT ![p] = IF inv.scopes = {} THEN @ ELSE inv.scopes]
        /\ access' = [access EXCEPT ![p] = GrantedAccess(inv, @)]
        /\ invites' = [invites EXCEPT ![call[s].i].status = "ACCEPTED"]
    /\ Done(s)
    /\ UNCHANGED <<elsewhere, sites, groups, place, history, codes, claims>>

\* The unique column refuses, and the transaction leaves nothing behind.
AcceptRefused(s) ==
    /\ Writes(s, "accept")
    /\ AcceptsTwice(call[s].i)
    /\ Done(s)
    /\ UNCHANGED <<rows, codes, claims>>

-----------------------------------------------------------------------------
(* Time *)

Lapse(i) ==
    /\ Describable(i)
    /\ "invitations" \in mix
    /\ invites' = [invites EXCEPT ![i].lapsed = TRUE]
    /\ UNCHANGED <<users, member, elsewhere, grants, access, sites, groups, place, history>>
    /\ UNCHANGED <<codes, claims, call, left, mix>>

\* Part of the daily job of the enterprise worker.
LapsedInvites == {i \in Invites : invites[i].status = "PENDING" /\ invites[i].lapsed}

expireLapsedInvitations ==
    /\ invites' = [i \in Invites |->
            IF i \in LapsedInvites THEN [invites[i] EXCEPT !.status = "EXPIRED"] ELSE invites[i]]
    /\ UNCHANGED <<users, member, elsewhere, grants, access, sites, groups, place, history, codes, claims>>

-----------------------------------------------------------------------------
(* The promise it keeps *)

NewestLink(i) ==
    CASE invites[i].status = Null -> "unsent"
      [] invites[i].status = "ACCEPTED" -> "used"
      [] Describable(i) -> "live"
      [] OTHER -> "dead"

Opened ==
    {<<s, call[s].i, call[s].inv.link>> : s \in {t \in Slots : Writes(t, "accept")}}

Link == INSTANCE ActivationLink WITH
    Openers <- Slots,
    state <- [i \in Invites |-> NewestLink(i)],
    sent <- [i \in Invites |-> invites[i].link],
    opened <- Opened
=============================================================================
