------------------------ MODULE ConnectionLifecycle ------------------------
(***************************************************************************)
(* Connections between one kitchen and the charities: ConnectionService    *)
(* (invite, accept, decline, pause, resume, end, update) and the job that  *)
(* expires invitations.  Every request reads, checks and then writes by    *)
(* id; only the job writes on condition of the status.  The row of today   *)
(* that accept opens is in ConnectionDays.                                 *)
(*                                                                         *)
(* Schedules are the ones the kitchen may ask for, valid or not.           *)
(***************************************************************************)
EXTENDS ConnectionSchedule

CONSTANTS
    Connections, \* ids of connections rows
    Charities,   \* receiver sites
    Schedules,   \* days of the week and pickup windows
    Slots,       \* slots for the requests in progress
    MaxBusy,     \* bound on the handlers in progress at the same time
    Null

ASSUME LifecycleAssumption ==
    /\ Schedules \subseteq ConnectionScheduleInput
    /\ IsFiniteSet(Slots)
    /\ MaxBusy \in Nat

VARIABLES
    status,   \* connections.status
    charity,  \* connections.receiverSiteId
    schedule, \* days of the week and pickup window
    overdue,  \* invitationExpiresAt has passed
    req       \* requests in progress

vars == <<status, charity, schedule, overdue, req>>

Contract == INSTANCE ConnectionStatus

\* invite and update cap the cut-off, and check what they are going to save.
Capped(x) == [x EXCEPT !.cutoffMinutes = cutoffMinutesOf(x)]

Accepted == {x \in {Capped(y) : y \in Schedules} : validateSchedule(x)}

Idle == [op |-> "idle"]
InviteReq == [op: {"invite"}, charity: Charities, schedule: Accepted]
StatusReq == [op: {"status"}, connection: Connections,
              to: {"ACTIVE", "DECLINED", "PAUSED", "ENDED"}]
UpdateReq == [op: {"update"}, connection: Connections, schedule: Accepted]

LifecycleTypeOK ==
    /\ status \in [Connections -> Contract!ConnectionStatuses \cup {"NONE"}]
    /\ charity \in [Connections -> Charities \cup {Null}]
    /\ schedule \in [Connections -> Accepted \cup {Null}]
    /\ overdue \in [Connections -> BOOLEAN]
    /\ req \in [Slots -> {Idle} \cup InviteReq \cup StatusReq \cup UpdateReq]

Init ==
    /\ status = [c \in Connections |-> "NONE"]
    /\ charity = [c \in Connections |-> Null]
    /\ schedule = [c \in Connections |-> Null]
    /\ overdue = [c \in Connections |-> FALSE]
    /\ req = [s \in Slots |-> Idle]

rows == <<status, charity, schedule, overdue>>

Busy == {s \in Slots : req[s] # Idle}

Start(s, r) ==
    /\ req[s] = Idle
    /\ Cardinality(Busy) < MaxBusy
    /\ req' = [req EXCEPT ![s] = r]
    /\ UNCHANGED rows

Done(s) == req' = [req EXCEPT ![s] = Idle]

\* LIVE_STATUSES
Live(c) == status[c] \in {"PENDING", "ACTIVE", "PAUSED"}

\* liveWithSameCharity and overlappingSame
Clashes(ch, x) ==
    \E c \in Connections :
        Live(c) /\ charity[c] = ch /\ schedulesOverlap(x, schedule[c])

\* Rows left for the invitations in progress.
InviteRoom ==
    Cardinality({c \in Connections : status[c] = "NONE"})
      > Cardinality({s \in Slots : req[s].op = "invite"})

InviteRead(s, ch, x) ==
    /\ InviteRoom
    /\ x \in Accepted
    /\ ~Clashes(ch, x)
    /\ Start(s, [op |-> "invite", charity |-> ch, schedule |-> x])

InviteWrite(s) ==
    /\ req[s].op = "invite"
    /\ \E c \in Connections :
        /\ status[c] = "NONE"
        /\ status' = [status EXCEPT ![c] = "PENDING"]
        /\ charity' = [charity EXCEPT ![c] = req[s].charity]
        /\ schedule' = [schedule EXCEPT ![c] = req[s].schedule]
    /\ UNCHANGED overdue
    /\ Done(s)

\* accept and decline by the charity; pause, resume and end by either side
StatusRead(s, c, to) ==
    /\ Contract!canTransition(status[c], to)
    /\ Start(s, [op |-> "status", connection |-> c, to |-> to])

StatusWrite_Withdrawn(s) ==
    /\ req[s].op = "status"
    /\ status' = [status EXCEPT ![req[s].connection] =
            IF req[s].to = "ENDED" THEN "WITHDRAWN" ELSE req[s].to]
    /\ UNCHANGED <<charity, schedule, overdue>>
    /\ Done(s)

StatusWrite(s) ==
    /\ req[s].op = "status"
    /\ status' = [status EXCEPT ![req[s].connection] = req[s].to]
    /\ UNCHANGED <<charity, schedule, overdue>>
    /\ Done(s)

\* update: not of an ended connection, and no comparison with the others
UpdateRead(s, c, x) ==
    /\ status[c] \notin {"NONE", "ENDED"}
    /\ x \in Accepted
    /\ Start(s, [op |-> "update", connection |-> c, schedule |-> x])

UpdateWrite(s) ==
    /\ req[s].op = "update"
    /\ schedule' = [schedule EXCEPT ![req[s].connection] = req[s].schedule]
    /\ UNCHANGED <<status, charity, overdue>>
    /\ Done(s)

InvitationLapses(c) ==
    /\ status[c] = "PENDING"
    /\ ~overdue[c]
    /\ overdue' = [overdue EXCEPT ![c] = TRUE]
    /\ UNCHANGED <<status, charity, schedule, req>>

\* expireInvitations: one conditional update
ExpireInvitations_Any ==
    /\ Cardinality(Busy) < MaxBusy
    /\ \E c \in Connections : overdue[c] /\ status[c] \in {"PENDING", "ACTIVE"}
    /\ status' = [c \in Connections |->
            IF overdue[c] /\ Live(c) THEN "EXPIRED" ELSE status[c]]
    /\ UNCHANGED <<charity, schedule, overdue, req>>

ExpireInvitations_Answered ==
    /\ Cardinality(Busy) < MaxBusy
    /\ \E c \in Connections : overdue[c] /\ status[c] = "ACTIVE"
    /\ status' = [c \in Connections |->
            IF overdue[c] /\ status[c] = "ACTIVE" THEN "EXPIRED" ELSE status[c]]
    /\ UNCHANGED <<charity, schedule, overdue, req>>

ExpireInvitations ==
    /\ Cardinality(Busy) < MaxBusy
    /\ \E c \in Connections : overdue[c] /\ status[c] = "PENDING"
    /\ status' = [c \in Connections |->
            IF overdue[c] /\ status[c] = "PENDING" THEN "EXPIRED" ELSE status[c]]
    /\ UNCHANGED <<charity, schedule, overdue, req>>

\* A request dies between its read and its write.
Crash(s) ==
    /\ req[s] # Idle
    /\ Done(s)
    /\ UNCHANGED rows

Next ==
    \/ \E s \in Slots :
        \/ \E ch \in Charities, x \in Schedules : InviteRead(s, ch, Capped(x))
        \/ \E c \in Connections :
            \/ \E to \in {"ACTIVE", "DECLINED", "PAUSED", "ENDED"} : StatusRead(s, c, to)
            \/ \E x \in Schedules : UpdateRead(s, c, Capped(x))
        \/ InviteWrite(s)
        \/ StatusWrite(s)
        \/ UpdateWrite(s)
        \/ Crash(s)
    \/ \E c \in Connections : InvitationLapses(c)
    \/ ExpireInvitations

Spec == Init /\ [][Next]_vars

\* Time passes, requests end and the invitation sweep runs every day.
FairSpec ==
    /\ Spec
    /\ \A c \in Connections : WF_vars(InvitationLapses(c))
    /\ \A s \in Slots : WF_vars(InviteWrite(s) \/ StatusWrite(s) \/ UpdateWrite(s))
    /\ SF_vars(ExpireInvitations)

-----------------------------------------------------------------------------
(* Properties *)

(***************************************************************************)
(* As long as handlers run one at a time, whatever they are and however    *)
(* many, they only take a connection through the transitions that          *)
(* ALLOWED_TRANSITIONS allows: this module implements ConnectionStatus.    *)
(***************************************************************************)
FollowsContract == Contract!StatusSpec

(***************************************************************************)
(* DECLINED, EXPIRED and ENDED are terminal: "a new invitation starts a    *)
(* new Connection rather than reviving one".                               *)
(***************************************************************************)
TerminalStays ==
    [][\A c \in Connections :
          status[c] \in {"DECLINED", "EXPIRED", "ENDED"} => status'[c] = status[c]]_vars

(***************************************************************************)
(* The kitchen and one charity have no two live connections that collect   *)
(* at the same time (invite answers "This charity already has a collection *)
(* in that window").                                                       *)
(***************************************************************************)
NoOverlap ==
    \A c, d \in Connections :
        c # d /\ Live(c) /\ Live(d) /\ charity[c] = charity[d]
          => ~schedulesOverlap(schedule[c], schedule[d])

(***************************************************************************)
(* An invitation that nobody answers does not stay pending for ever.       *)
(***************************************************************************)
InvitationsEnd ==
    \A c \in Connections : status[c] = "PENDING" ~> status[c] # "PENDING"
=============================================================================
