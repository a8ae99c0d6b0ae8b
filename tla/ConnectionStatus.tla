-------------------------- MODULE ConnectionStatus --------------------------
(***************************************************************************)
(* What the connections promise about their status, whoever changes it and *)
(* when: each goes through the transitions of ALLOWED_TRANSITIONS in       *)
(* connection.rules.  One statement may move several of them.              *)
(***************************************************************************)
CONSTANT Connections

VARIABLE status

ConnectionStatuses == {"PENDING", "ACTIVE", "PAUSED", "DECLINED", "EXPIRED", "ENDED"}

\* ALLOWED_TRANSITIONS; NONE is a connection that was not invited yet.
canTransition(from, to) ==
    \/ from = "NONE" /\ to = "PENDING"
    \/ from = "PENDING" /\ to \in {"ACTIVE", "DECLINED", "EXPIRED", "ENDED"}
    \/ from = "ACTIVE" /\ to \in {"PAUSED", "ENDED"}
    \/ from = "PAUSED" /\ to \in {"ACTIVE", "ENDED"}

StatusInit == status = [c \in Connections |-> "NONE"]

StatusNext ==
    /\ status' \in [Connections -> ConnectionStatuses \cup {"NONE"}]
    /\ \A c \in Connections :
        status'[c] # status[c] => canTransition(status[c], status'[c])

StatusSpec == StatusInit /\ [][StatusNext]_status
=============================================================================
