--------------------------- MODULE ActivationLink ---------------------------
(***************************************************************************)
(* What an activation link promises, without the rest of the portal: a     *)
(* link is sent, may die and be sent anew; whoever opens it while it is    *)
(* live and the newest may use it, unless somebody else has used it, and   *)
(* one use is the end of it.                                               *)
(***************************************************************************)
EXTENDS Naturals

CONSTANTS Invites, Openers

VARIABLES
    state,  \* of the newest link of each invitation
    sent,   \* how many links each invitation has had
    opened  \* who is activating an account with which link

linkVars == <<state, sent, opened>>

LinkState == {"unsent", "live", "dead", "used"}

\* Links may have been sent before.
LinkInit ==
    /\ state \in [Invites -> LinkState]
    /\ sent = [i \in Invites |-> IF state[i] = "unsent" THEN 0 ELSE 1]
    /\ opened = {}

\* A new link replaces the earlier one, unless that was used.
Send(i) ==
    /\ state[i] # "used"
    /\ state' = [state EXCEPT ![i] = "live"]
    /\ sent' = [sent EXCEPT ![i] = @ + 1]
    /\ UNCHANGED opened

\* The link is withdrawn, or its time is over.
Kill(i) ==
    /\ state[i] = "live"
    /\ state' = [state EXCEPT ![i] = "dead"]
    /\ UNCHANGED <<sent, opened>>

Open(o, i) ==
    /\ state[i] = "live"
    /\ opened' = opened \cup {<<o, i, sent[i]>>}
    /\ UNCHANGED <<state, sent>>

Use(o, i, n) ==
    /\ <<o, i, n>> \in opened /\ state[i] # "used"
    /\ state' = [state EXCEPT ![i] = "used"]
    /\ opened' = opened \ {<<o, i, n>>}
    /\ UNCHANGED sent

\* The activation is refused in the end.
Leave(o, i, n) ==
    /\ <<o, i, n>> \in opened
    /\ opened' = opened \ {<<o, i, n>>}
    /\ UNCHANGED <<state, sent>>

LinkNext ==
    \E i \in Invites :
        \/ Send(i) \/ Kill(i)
        \/ \E o \in Openers :
            Open(o, i) \/ \E n \in 1 .. sent[i] : Use(o, i, n) \/ Leave(o, i, n)

LinkSpec == LinkInit /\ [][LinkNext]_linkVars
=============================================================================
