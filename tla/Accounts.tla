------------------------------ MODULE Accounts ------------------------------
(***************************************************************************)
(* AuthService, as far as the portal depends on it: signing up for an      *)
(* organisation of one's own, proving the address, and the token, which    *)
(* keeps the roles of the moment it was issued for as long as it lives.    *)
(* Passwords, the count of failed sign-ins and password resets are left    *)
(* out: they change none of this.                                          *)
(***************************************************************************)
EXTENDS Directory

\* The organisation somebody registers is another one than the enterprise.
registerBusiness(p) ==
    /\ "accounts" \in mix /\ left > 0
    /\ ~users[p].exists
    /\ users' = [users EXCEPT ![p] = [exists |-> TRUE, active |-> TRUE, verified |-> FALSE]]
    /\ elsewhere' = elsewhere \cup {p}
    /\ codes' = codes \cup {p}
    /\ left' = left - 1
    /\ UNCHANGED <<member, grants, access, sites, groups, place, history, invites, claims, call, mix>>

resendVerificationEmail(p) ==
    /\ "accounts" \in mix /\ left > 0
    /\ users[p].exists /\ ~users[p].verified
    /\ p \notin codes
    /\ codes' = codes \cup {p}
    /\ left' = left - 1
    /\ UNCHANGED <<rows, claims, call, mix>>

CodeLapses(p) ==
    /\ p \in codes
    /\ codes' = codes \ {p}
    /\ UNCHANGED <<rows, claims, call, left, mix>>

\* The oldest site access is not recorded: any of them may be the one.
generateTokens(p) ==
    IF ~IsMember(p) THEN {Null}
    ELSE LET on == {x \in Sites : access[p][x] # Null} IN
         {[orgRole |-> member[p].orgRole, role |-> member[p].role,
           site |-> x, siteRole |-> IF x = Null THEN Null ELSE access[p][x]] :
              x \in IF on = {} THEN {Null} ELSE on}

\* With two memberships either may be found: the other one gives a token
\* that means nothing here.
Tokens(p) == generateTokens(p) \cup (IF p \in elsewhere THEN {Null} ELSE {})

login(p) ==
    /\ "accounts" \in mix /\ left > 0
    /\ users[p].active /\ users[p].verified
    /\ IsMember(p) \/ p \in elsewhere
    /\ \E t \in Tokens(p) : claims' = [claims EXCEPT ![p] = t]
    /\ left' = left - 1
    /\ UNCHANGED <<rows, codes, call, mix>>

\* Verifies before it looks for a membership, and signs in.
verifyEmail(p) ==
    /\ "accounts" \in mix /\ left > 0
    /\ p \in codes /\ users[p].exists
    /\ users' = [users EXCEPT ![p].verified = TRUE]
    /\ codes' = codes \ {p}
    /\ \E t \in Tokens(p) : claims' = [claims EXCEPT ![p] = t]
    /\ left' = left - 1
    /\ UNCHANGED <<member, elsewhere, grants, access, sites, groups, place, history, invites, call, mix>>
=============================================================================
