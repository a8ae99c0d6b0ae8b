--------------------- MODULE ConnectionLifecycle_proofs ---------------------
(***************************************************************************)
(* Proofs about ConnectionLifecycle, for any number of connections,        *)
(* charities, schedules and slots.                                         *)
(***************************************************************************)
EXTENDS ConnectionLifecycle, FiniteSetTheorems, TLAPS

(***************************************************************************)
(* A request in progress that is about to change a status still may: what  *)
(* changeConnection checked when it read the connection is still true.     *)
(***************************************************************************)
StillAllowed(s) ==
    req[s].op = "status"
        => Contract!canTransition(status[req[s].connection], req[s].to)

ReadStillTrue == \A s \in Slots : StillAllowed(s)

(***************************************************************************)
(* Nobody overtakes: a step of one request, or of the expiry job, leaves   *)
(* allowed what another request has checked and not written yet.  Requests *)
(* may overlap otherwise, any number of them.  The code does not promise   *)
(* it (TerminalStays shows what happens then).                             *)
(***************************************************************************)
NotOvertaken ==
    \A s \in Slots : req'[s] = req[s] /\ StillAllowed(s) => StillAllowed(s)'

-----------------------------------------------------------------------------
(* What a request in progress holds, by its kind. *)
LEMMA RequestShape ==
    ASSUME LifecycleTypeOK, NEW s \in Slots
    PROVE  /\ req[s].op = "invite" => req[s] \in InviteReq
           /\ req[s].op = "status" => req[s] \in StatusReq
           /\ req[s].op = "update" => req[s] \in UpdateReq
BY DEF LifecycleTypeOK, Idle, InviteReq, StatusReq, UpdateReq

LEMMA TypeInit == Init => LifecycleTypeOK
BY DEF Init, LifecycleTypeOK

LEMMA TypeNext == LifecycleTypeOK /\ [Next]_vars => LifecycleTypeOK'
<1> SUFFICES ASSUME LifecycleTypeOK, [Next]_vars PROVE LifecycleTypeOK'
  OBVIOUS
<1> USE DEF LifecycleTypeOK
<1>1. ASSUME NEW s \in Slots, NEW ch \in Charities, NEW x, InviteRead(s, ch, x)
      PROVE  LifecycleTypeOK'
  BY <1>1 DEF InviteRead, Start, rows, InviteReq
<1>2. ASSUME NEW s \in Slots, NEW c \in Connections,
             NEW to \in {"ACTIVE", "DECLINED", "PAUSED", "ENDED"}, StatusRead(s, c, to)
      PROVE  LifecycleTypeOK'
  BY <1>2 DEF StatusRead, Start, rows, StatusReq
<1>3. ASSUME NEW s \in Slots, NEW c \in Connections, NEW x, UpdateRead(s, c, x)
      PROVE  LifecycleTypeOK'
  BY <1>3 DEF UpdateRead, Start, rows, UpdateReq
<1>4. ASSUME NEW s \in Slots, InviteWrite(s)
      PROVE  LifecycleTypeOK'
  BY <1>4, RequestShape DEF InviteWrite, Done, InviteReq, Contract!ConnectionStatuses
<1>5. ASSUME NEW s \in Slots, StatusWrite(s)
      PROVE  LifecycleTypeOK'
  BY <1>5, RequestShape DEF StatusWrite, Done, StatusReq, Contract!ConnectionStatuses
<1>6. ASSUME NEW s \in Slots, UpdateWrite(s)
      PROVE  LifecycleTypeOK'
  BY <1>6, RequestShape DEF UpdateWrite, Done, UpdateReq
<1>7. ASSUME NEW s \in Slots, Crash(s)
      PROVE  LifecycleTypeOK'
  BY <1>7 DEF Crash, Done, rows
<1>8. ASSUME NEW c \in Connections, InvitationLapses(c)
      PROVE  LifecycleTypeOK'
  BY <1>8 DEF InvitationLapses
<1>9. CASE ExpireInvitations
  BY <1>9 DEF ExpireInvitations, Contract!ConnectionStatuses
<1>10. CASE UNCHANGED vars
  BY <1>10 DEF vars
<1> QED
  BY <1>1, <1>2, <1>3, <1>4, <1>5, <1>6, <1>7, <1>8, <1>9, <1>10 DEF Next

(***************************************************************************)
(* Type correctness: the columns keep their enums, and a request refers to *)
(* a connection, a charity and a schedule that exist.                      *)
(***************************************************************************)
THEOREM LifecycleTypeCorrect == Spec => []LifecycleTypeOK
BY TypeInit, TypeNext, PTL DEF Spec

-----------------------------------------------------------------------------
LEMMA ReadInit == Init => ReadStillTrue
BY DEF Init, ReadStillTrue, StillAllowed, Idle

(* A handler that begins registers what it has just read, and one that ends *)
(* leaves nothing to be checked: only the others could be overtaken.        *)
LEMMA OthersStand ==
    ASSUME ReadStillTrue, NotOvertaken, NEW s \in Slots, StillAllowed(s)',
           \A t \in Slots : t # s => req'[t] = req[t]
    PROVE  ReadStillTrue'
<1>1. ASSUME NEW t \in Slots PROVE StillAllowed(t)'
  <2>1. CASE t = s
    BY <2>1, Zenon
  <2>2. CASE t # s
    BY <2>2 DEF ReadStillTrue, NotOvertaken
  <2> QED
    BY <2>1, <2>2
<1> QED
  BY <1>1 DEF ReadStillTrue

LEMMA ReadStands ==
    ASSUME LifecycleTypeOK, ReadStillTrue, NotOvertaken, NEW s \in Slots, NEW r, Start(s, r),
           r.op = "status" => Contract!canTransition(status[r.connection], r.to)
    PROVE  ReadStillTrue'
<1>1. req'[s] = r /\ \A t \in Slots : t # s => req'[t] = req[t]
  BY DEF Start, LifecycleTypeOK
<1>2. status' = status
  BY DEF Start, rows
<1>3. StillAllowed(s)'
  BY <1>1, <1>2 DEF StillAllowed
<1> QED
  BY <1>1, <1>3, OthersStand

LEMMA DoneStands ==
    ASSUME LifecycleTypeOK, ReadStillTrue, NotOvertaken, NEW s \in Slots, Done(s)
    PROVE  ReadStillTrue'
<1>1. req'[s] = Idle /\ \A t \in Slots : t # s => req'[t] = req[t]
  BY DEF Done, LifecycleTypeOK
<1>2. StillAllowed(s)'
  BY <1>1 DEF StillAllowed, Idle
<1> QED
  BY <1>1, <1>2, OthersStand

LEMMA ReadNext ==
    LifecycleTypeOK /\ ReadStillTrue /\ [Next /\ NotOvertaken]_vars => ReadStillTrue'
<1> SUFFICES ASSUME LifecycleTypeOK, ReadStillTrue, [Next /\ NotOvertaken]_vars
             PROVE  ReadStillTrue'
  OBVIOUS
<1>1. ASSUME NEW s \in Slots, NEW ch \in Charities, NEW x, InviteRead(s, ch, x), NotOvertaken
      PROVE  ReadStillTrue'
  BY <1>1, ReadStands DEF InviteRead
<1>2. ASSUME NEW s \in Slots, NEW c \in Connections, NotOvertaken,
             NEW to \in {"ACTIVE", "DECLINED", "PAUSED", "ENDED"}, StatusRead(s, c, to)
      PROVE  ReadStillTrue'
  BY <1>2, ReadStands DEF StatusRead
<1>3. ASSUME NEW s \in Slots, NEW c \in Connections, NEW x, UpdateRead(s, c, x), NotOvertaken
      PROVE  ReadStillTrue'
  BY <1>3, ReadStands DEF UpdateRead
<1>4. ASSUME NEW s \in Slots, NotOvertaken,
             InviteWrite(s) \/ StatusWrite(s) \/ UpdateWrite(s) \/ Crash(s)
      PROVE  ReadStillTrue'
  BY <1>4, DoneStands DEF InviteWrite, StatusWrite, UpdateWrite, Crash
<1>5. ASSUME NotOvertaken, UNCHANGED req
      PROVE  ReadStillTrue'
  BY <1>5 DEF ReadStillTrue, NotOvertaken
<1>6. ASSUME NEW c \in Connections, InvitationLapses(c) \/ ExpireInvitations
      PROVE  UNCHANGED req
  BY <1>6 DEF InvitationLapses, ExpireInvitations
<1>7. CASE UNCHANGED vars
  BY <1>7 DEF vars, ReadStillTrue, StillAllowed
<1>8. CASE ExpireInvitations /\ NotOvertaken
  BY <1>5, <1>8 DEF ExpireInvitations
<1> QED
  BY <1>1, <1>2, <1>3, <1>4, <1>5, <1>6, <1>7, <1>8 DEF Next

-----------------------------------------------------------------------------
(* Every step is a step or a stutter of the abstract life cycle. *)
LEMMA ContractStep ==
    LifecycleTypeOK /\ LifecycleTypeOK' /\ ReadStillTrue /\ [Next]_vars
      => [Contract!StatusNext]_status
<1> SUFFICES ASSUME LifecycleTypeOK, LifecycleTypeOK', ReadStillTrue, [Next]_vars
             PROVE  [Contract!StatusNext]_status
  OBVIOUS
<1>a. status' \in [Connections -> Contract!ConnectionStatuses \cup {"NONE"}]
  BY DEF LifecycleTypeOK
<1>1. ASSUME NEW s \in Slots, InviteWrite(s)
      PROVE  Contract!StatusNext
  BY <1>1, <1>a DEF InviteWrite, LifecycleTypeOK, Contract!StatusNext, Contract!canTransition
<1>2. ASSUME NEW s \in Slots, StatusWrite(s)
      PROVE  Contract!StatusNext
  <2> DEFINE c == req[s].connection
  <2>1. c \in Connections /\ Contract!canTransition(status[c], req[s].to)
    BY <1>2, RequestShape DEF StatusWrite, StatusReq, ReadStillTrue, StillAllowed
  <2>2. \A d \in Connections : status'[d] # status[d] => d = c /\ status'[d] = req[s].to
    BY <1>2 DEF StatusWrite, LifecycleTypeOK
  <2> QED
    BY <1>a, <2>1, <2>2 DEF Contract!StatusNext
<1>3. CASE ExpireInvitations
  BY <1>3, <1>a DEF ExpireInvitations, Contract!StatusNext, Contract!canTransition
<1>4. ASSUME NEW s \in Slots, NEW ch, NEW c, NEW x, NEW to,
             \/ InviteRead(s, ch, x) \/ StatusRead(s, c, to) \/ UpdateRead(s, c, x)
             \/ UpdateWrite(s) \/ Crash(s)
      PROVE  UNCHANGED status
  BY <1>4 DEF InviteRead, StatusRead, UpdateRead, UpdateWrite, Crash, Start, rows
<1>5. ASSUME NEW c, InvitationLapses(c)
      PROVE  UNCHANGED status
  BY <1>5 DEF InvitationLapses
<1>6. CASE UNCHANGED vars
  BY <1>6 DEF vars
<1> QED
  BY <1>1, <1>2, <1>3, <1>4, <1>5, <1>6 DEF Next

(***************************************************************************)
(* Any number of requests of ConnectionService in progress at once, with   *)
(* the expiry job, implement the life cycle of ConnectionStatus as long as *)
(* none is overtaken between its read and its write: a stale read is the   *)
(* only way in which the code leaves ALLOWED_TRANSITIONS.                  *)
(***************************************************************************)
THEOREM FollowsContractUnlessOvertaken ==
    Spec /\ [][NotOvertaken]_vars => FollowsContract
<1>1. Init => Contract!StatusInit
  BY DEF Init, Contract!StatusInit
<1>2. LifecycleTypeOK /\ ReadStillTrue /\ [Next]_vars /\ [NotOvertaken]_vars => ReadStillTrue'
  BY ReadNext
<1>3. /\ LifecycleTypeOK /\ LifecycleTypeOK' /\ ReadStillTrue /\ [Next]_vars
      => [Contract!StatusNext]_status
  BY ContractStep
<1> QED
  BY <1>1, <1>2, <1>3, ReadInit, TypeInit, TypeNext, PTL
     DEF Spec, FollowsContract, Contract!StatusSpec

-----------------------------------------------------------------------------
(* The schedules (ConnectionSchedule), in any zone and on any date. *)

\* How far the clock is moved when the offset of a zone changes.
Jump(zone) ==
    IF zone.before <= zone.after THEN zone.after - zone.before
                                 ELSE zone.before - zone.after

\* The clocks of the zone show this time on this date: it is not skipped.
ShowsTime(zone, localDate, minutes) ==
    \E t \in Int :
        t + offsetMinutesAt(zone, t) = localDate * MINUTES_IN_DAY + minutes

LEMMA InstantType ==
    ASSUME NEW zone \in Zone, NEW d \in Int, NEW m \in Int
    PROVE  instantForLocalTime(zone, d, m) \in Int
BY DEF instantForLocalTime, offsetMinutesAt, Zone, MINUTES_IN_DAY

(***************************************************************************)
(* A time that the clocks show on a date is resolved to an instant at which *)
(* they show it, on either side of a change of offset, backward or forward *)
(* and however large it is: the second pass of instantForLocalTime is      *)
(* enough.                                                                 *)
(***************************************************************************)
THEOREM LocalTimeIsRight ==
    ASSUME NEW zone \in Zone, NEW d \in Int, NEW m \in Int, ShowsTime(zone, d, m)
    PROVE  LET r == instantForLocalTime(zone, d, m)
           IN  r + offsetMinutesAt(zone, r) = d * MINUTES_IN_DAY + m
<1> DEFINE naive == d * MINUTES_IN_DAY + m
<1>1. naive \in Int
  BY DEF MINUTES_IN_DAY
<1>2. PICK t \in Int : t + offsetMinutesAt(zone, t) = naive
  BY DEF ShowsTime
<1> HIDE DEF naive
<1>3. LET g == naive - offsetMinutesAt(zone, naive)
          r == naive - offsetMinutesAt(zone, g)
      IN  r + offsetMinutesAt(zone, r) = naive
  BY <1>1, <1>2 DEF offsetMinutesAt, Zone
<1> QED
  BY <1>3 DEF naive, instantForLocalTime

(* Read with the offset of any other instant, the answer is off by one jump. *)
LEMMA WithinJump ==
    ASSUME NEW zone \in Zone, NEW d \in Int, NEW m \in Int, NEW t \in Int,
           NEW naive \in Int, naive = d * MINUTES_IN_DAY + m
    PROVE  /\ naive - Jump(zone)
                <= instantForLocalTime(zone, d, m) + offsetMinutesAt(zone, t)
           /\ instantForLocalTime(zone, d, m) + offsetMinutesAt(zone, t)
                <= naive + Jump(zone)
<1>1. instantForLocalTime(zone, d, m)
        = naive - offsetMinutesAt(zone, naive - offsetMinutesAt(zone, naive))
  BY DEF instantForLocalTime
<1>2. \A g \in Int :
        LET local == naive - offsetMinutesAt(zone, g) + offsetMinutesAt(zone, t)
        IN  naive - Jump(zone) <= local /\ local <= naive + Jump(zone)
  BY DEF offsetMinutesAt, Zone, Jump
<1>3. naive - offsetMinutesAt(zone, naive) \in Int
  BY DEF offsetMinutesAt, Zone
<1> QED
  BY <1>1, <1>2, <1>3

(* Of two times that the clocks show, the sooner is resolved to the sooner    *)
(* instant, also where the clocks show them twice.                            *)
LEMMA SoonerIsSooner ==
    ASSUME NEW zone \in Zone, NEW d \in Int, NEW m \in Int, ShowsTime(zone, d, m),
           NEW e \in Int, NEW n \in Int, ShowsTime(zone, e, n),
           d * MINUTES_IN_DAY + m < e * MINUTES_IN_DAY + n
    PROVE  instantForLocalTime(zone, d, m) < instantForLocalTime(zone, e, n)
<1> DEFINE first == d * MINUTES_IN_DAY + m
           second == e * MINUTES_IN_DAY + n
<1>1. /\ instantForLocalTime(zone, d, m)
           = first - offsetMinutesAt(zone, first - offsetMinutesAt(zone, first))
      /\ instantForLocalTime(zone, e, n)
           = second - offsetMinutesAt(zone, second - offsetMinutesAt(zone, second))
  BY DEF instantForLocalTime
<1>2. first \in Int /\ second \in Int
  BY DEF MINUTES_IN_DAY
<1>3. PICK t \in Int : t + offsetMinutesAt(zone, t) = first
  BY DEF ShowsTime
<1>4. PICK u \in Int : u + offsetMinutesAt(zone, u) = second
  BY DEF ShowsTime
<1>5. first < second
  OBVIOUS
<1> HIDE DEF first, second
<1> QED
  BY <1>1, <1>2, <1>3, <1>4, <1>5 DEF offsetMinutesAt, Zone

LEMMA Minutes ==
    /\ \A i \in 0..(MINUTES_IN_DAY - 1) : i \in Int /\ 0 <= i /\ i < MINUTES_IN_DAY
    /\ \A i \in 0..MINUTES_IN_DAY : i \in Int /\ 0 <= i /\ i <= MINUTES_IN_DAY
BY DEF MINUTES_IN_DAY

LEMMA ScheduleNumbers ==
    ASSUME NEW x, validateSchedule(x)
    PROVE  /\ x.windowStartMinutes \in Int
           /\ 0 <= x.windowStartMinutes
           /\ x.windowStartMinutes < MINUTES_IN_DAY
           /\ x.windowEndMinutes \in Int
           /\ 0 <= x.windowEndMinutes
           /\ x.windowEndMinutes < MINUTES_IN_DAY
           /\ x.windowStartMinutes # x.windowEndMinutes
           /\ x.leadTimeMinutes \in Int
           /\ x.leadTimeMinutes <= MINUTES_IN_DAY
           /\ x.cutoffMinutes \in Int
           /\ 0 <= x.cutoffMinutes
           /\ x.cutoffMinutes <= x.leadTimeMinutes
<1>1. /\ x.windowStartMinutes \in 0..(MINUTES_IN_DAY - 1)
      /\ x.windowEndMinutes \in 0..(MINUTES_IN_DAY - 1)
      /\ x.windowStartMinutes # x.windowEndMinutes
      /\ x.leadTimeMinutes \in 0..MINUTES_IN_DAY
      /\ x.cutoffMinutes \in 0..MINUTES_IN_DAY
      /\ x.cutoffMinutes <= x.leadTimeMinutes
  BY Zenon DEF validateSchedule
<1> QED
  BY <1>1, Minutes, Zenon

(***************************************************************************)
(* resolveDay gives what the daily loop relies on (DaysAssumption): the    *)
(* prompt is not after the cut-off, which is not after the start and comes *)
(* after the list-by time; and the window ends after it starts, if neither *)
(* end of it is a time that the clocks skip on that date.                  *)
(***************************************************************************)
THEOREM ResolvedInOrder ==
    ASSUME NEW zone \in Zone, NEW d \in Int,
           NEW x \in ConnectionScheduleInput, validateSchedule(x)
    PROVE  LET day == resolveDay(zone, x, d)
           IN  /\ day.promptAt <= day.cutoffAt
               /\ day.cutoffAt <= day.windowStartAt
               /\ listByAt(day.windowStartAt) < day.cutoffAt
               /\ /\ ShowsTime(zone, d, x.windowStartMinutes)
                  /\ ShowsTime(zone, IF endsNextDay(x) THEN d + 1 ELSE d, x.windowEndMinutes)
                  => day.windowStartAt < day.windowEndAt
<1> DEFINE ws == x.windowStartMinutes
           we == x.windowEndMinutes
           e == IF endsNextDay(x) THEN d + 1 ELSE d
           start == instantForLocalTime(zone, d, ws)
           end == instantForLocalTime(zone, e, we)
<1>1. /\ ws \in Int /\ 0 <= ws /\ ws < MINUTES_IN_DAY
      /\ we \in Int /\ 0 <= we /\ we < MINUTES_IN_DAY /\ ws # we
      /\ x.leadTimeMinutes \in Int /\ x.cutoffMinutes \in Int
      /\ 0 <= x.cutoffMinutes
      /\ x.cutoffMinutes <= x.leadTimeMinutes
  BY ScheduleNumbers, Zenon
<1>2. e \in Int
  OBVIOUS
<1>3. d * MINUTES_IN_DAY + ws < e * MINUTES_IN_DAY + we
  <2>1. CASE endsNextDay(x)
    BY <1>1, <2>1 DEF MINUTES_IN_DAY
  <2>2. CASE ~endsNextDay(x)
    BY <1>1, <2>2 DEF endsNextDay, MINUTES_IN_DAY
  <2> QED
    BY <2>1, <2>2
<1>4. resolveDay(zone, x, d)
        = [scheduledDate |-> d, promptAt |-> start - x.leadTimeMinutes,
           cutoffAt |-> start - cutoffMinutesOf(x),
           windowStartAt |-> start, windowEndAt |-> end]
  BY DEF resolveDay
<1>5. start \in Int
  <2> HIDE DEF ws
  <2> QED BY <1>1, InstantType
<1>6. ShowsTime(zone, d, ws) /\ ShowsTime(zone, e, we) => start < end
  <2> HIDE DEF ws, we, e
  <2> QED BY <1>1, <1>2, <1>3, SoonerIsSooner
<1> HIDE DEF start, end, ws, we
<1>7. /\ start - x.leadTimeMinutes <= start - cutoffMinutesOf(x)
      /\ start - cutoffMinutesOf(x) <= start
      /\ start - 60 < start - cutoffMinutesOf(x)
  BY <1>1, <1>5 DEF cutoffMinutesOf, CHARITY_CONFIRM_MINUTES
<1> QED
  BY <1>4, <1>6, <1>7 DEF listByAt, LIST_BY_MINUTES, ws, we

(* The three dates that dueDays looks at. *)
LEMMA Neighbours ==
    ASSUME NEW local \in Int, NEW d \in Int,
           d * MINUTES_IN_DAY - MINUTES_IN_DAY <= local,
           local < d * MINUTES_IN_DAY + 2 * MINUTES_IN_DAY
    PROVE  LET today == local \div MINUTES_IN_DAY
           IN  today \in Int /\ d \in {today - 1, today, today + 1}
BY DEF MINUTES_IN_DAY

(***************************************************************************)
(* Looking at yesterday, today and tomorrow misses no day whose prompt is  *)
(* due (dueDays): neither a window just after midnight, prompted the night *)
(* before, nor one still open from the night before.  Where the clocks     *)
(* change, the lead time has to leave room for it in its 24 hours, and so  *)
(* does the end of a window that runs past midnight.                       *)
(***************************************************************************)
THEOREM DueDaysMissNone ==
    ASSUME NEW zone \in Zone, NEW x, validateSchedule(x),
           x.leadTimeMinutes + Jump(zone) <= MINUTES_IN_DAY,
           endsNextDay(x) => x.windowEndMinutes + Jump(zone) <= MINUTES_IN_DAY,
           NEW now \in Int, NEW d \in Int, collectsOn(x, d),
           isPromptDue(resolveDay(zone, x, d), now)
    PROVE  resolveDay(zone, x, d) \in dueDays(zone, x, now)
<1> DEFINE ws == x.windowStartMinutes
           we == x.windowEndMinutes
           e == IF endsNextDay(x) THEN d + 1 ELSE d
           start == instantForLocalTime(zone, d, ws)
           end == instantForLocalTime(zone, e, we)
           local == now + offsetMinutesAt(zone, now)
<1>1. /\ ws \in Int /\ 0 <= ws /\ ws < MINUTES_IN_DAY
      /\ we \in Int /\ 0 <= we /\ we < MINUTES_IN_DAY
      /\ x.leadTimeMinutes \in Int /\ x.cutoffMinutes \in Int
      /\ 0 <= x.cutoffMinutes
      /\ x.cutoffMinutes <= x.leadTimeMinutes
  BY ScheduleNumbers, Zenon
<1>2. start - x.leadTimeMinutes <= now /\ now < end
  BY DEF isPromptDue, resolveDay
<1>3. e \in Int /\ local \in Int /\ Jump(zone) \in Int /\ 0 <= Jump(zone)
      /\ offsetMinutesAt(zone, now) \in Int
  BY DEF offsetMinutesAt, Jump, Zone
<1>4. start \in Int /\ end \in Int
  <2> HIDE DEF ws, we, e
  <2> QED BY <1>1, <1>3, InstantType
<1> DEFINE s == d * MINUTES_IN_DAY + ws
           f == e * MINUTES_IN_DAY + we
<1>5. s \in Int /\ f \in Int
  <2> HIDE DEF ws, we, e
  <2> QED BY <1>1, <1>3 DEF MINUTES_IN_DAY
<1>6. s - Jump(zone) <= start + offsetMinutesAt(zone, now)
  <2> HIDE DEF ws, start
  <2>1. s = d * MINUTES_IN_DAY + ws
    OBVIOUS
  <2> HIDE DEF s
  <2> QED BY <1>1, <1>5, <2>1, WithinJump DEF start
<1>7. end + offsetMinutesAt(zone, now) <= f + Jump(zone)
  <2> HIDE DEF we, end, e
  <2>1. f = e * MINUTES_IN_DAY + we
    OBVIOUS
  <2> HIDE DEF f
  <2> QED BY <1>1, <1>3, <1>5, <2>1, WithinJump DEF end
<1>8. d * MINUTES_IN_DAY - MINUTES_IN_DAY <= local
  <2>1. s - Jump(zone) - x.leadTimeMinutes <= local
    <3> HIDE DEF s, start
    <3> QED BY <1>1, <1>2, <1>3, <1>4, <1>5, <1>6
  <2> HIDE DEF ws, local
  <2> QED BY <1>1, <1>3, <2>1 DEF MINUTES_IN_DAY
<1>9. local < d * MINUTES_IN_DAY + 2 * MINUTES_IN_DAY
  <2>1. local < f + Jump(zone)
    <3> HIDE DEF f, end
    <3> QED BY <1>1, <1>2, <1>3, <1>4, <1>5, <1>7
  <2>2. CASE endsNextDay(x)
    <3>1. e = d + 1 /\ we + Jump(zone) <= MINUTES_IN_DAY
      BY <2>2
    <3> HIDE DEF we, local, e
    <3> QED BY <1>1, <1>3, <2>1, <3>1 DEF MINUTES_IN_DAY
  <2>3. CASE ~endsNextDay(x)
    <3>1. e = d /\ Jump(zone) <= MINUTES_IN_DAY
      BY <1>1, <1>3, <2>3 DEF MINUTES_IN_DAY
    <3> HIDE DEF we, local, e
    <3> QED BY <1>1, <1>3, <2>1, <3>1 DEF MINUTES_IN_DAY
  <2> QED
    BY <2>2, <2>3
<1> DEFINE today == localDateAt(zone, now)
<1>10. d \in {today - 1, today, today + 1}
  <2>1. today = local \div MINUTES_IN_DAY
    BY DEF localDateAt
  <2> HIDE DEF local, today
  <2> QED BY <1>3, <1>8, <1>9, <2>1, Neighbours
<1> QED
  BY <1>10 DEF dueDays

(***************************************************************************)
(* Two windows that end before midnight overlap, by schedulesOverlap, just *)
(* when the clock shows a minute of the week in which both collect.        *)
(***************************************************************************)
THEOREM OverlapMeansTogether ==
    ASSUME NEW a, NEW b, validateSchedule(a), validateSchedule(b),
           ~endsNextDay(a), ~endsNextDay(b)
    PROVE  schedulesOverlap(a, b) <=> CollectTogether(a, b)
<1> DEFINE sa == a.windowStartMinutes
           ea == a.windowEndMinutes
           sb == b.windowStartMinutes
           eb == b.windowEndMinutes
           Both == a.daysOfWeek \cap b.daysOfWeek
           last == MINUTES_IN_DAY - 1
<1>1. /\ sa \in Int /\ ea \in Int /\ sb \in Int /\ eb \in Int
      /\ 0 <= sa /\ 0 <= sb
      /\ sa < MINUTES_IN_DAY /\ sb < MINUTES_IN_DAY
  BY ScheduleNumbers, Zenon
<1>2. ~(ea <= sa) /\ ~(eb <= sb)
  BY DEF endsNextDay
<1>3. schedulesOverlap(a, b) <=> Both # {} /\ sa < eb /\ sb < ea
  <2>1. spans(a) = {<<sa, ea>>} /\ spans(b) = {<<sb, eb>>}
    BY DEF spans
  <2> HIDE DEF sa, ea, sb, eb
  <2>2. (\E p \in spans(a), q \in spans(b) : p[1] < q[2] /\ q[1] < p[2])
          <=> sa < eb /\ sb < ea
    BY <2>1
  <2> QED
    BY <2>2, Zenon DEF schedulesOverlap
<1>4. CollectTogether(a, b)
        <=> \E w \in IsoWeekday, m \in 0..last :
              w \in Both /\ sa <= m /\ m < ea /\ sb <= m /\ m < eb
  BY Zenon DEF CollectTogether, CollectsAt
<1>5. Both \subseteq IsoWeekday
  BY Zenon DEF validateSchedule
<1>6. last \in Int /\ \A i \in Int : 0 <= i /\ i < MINUTES_IN_DAY => i \in 0..last
  BY DEF MINUTES_IN_DAY
<1> HIDE DEF sa, ea, sb, eb, Both, last
<1>7. sa < ea /\ sb < eb
  BY <1>1, <1>2
<1>8. ASSUME Both # {}, sa < eb, sb < ea
      PROVE  CollectTogether(a, b)
  <2>1. PICK w \in IsoWeekday : w \in Both
    BY <1>5, <1>8
  <2> DEFINE m == IF sa <= sb THEN sb ELSE sa
  <2>2. m \in Int /\ sa <= m /\ m < ea /\ sb <= m /\ m < eb
    BY <1>1, <1>7, <1>8
  <2>3. 0 <= m /\ m < MINUTES_IN_DAY
    BY <1>1
  <2>4. m \in 0..last
    BY <1>6, <2>2, <2>3
  <2> QED
    BY <1>4, <2>1, <2>2, <2>4
<1>9. ASSUME CollectTogether(a, b)
      PROVE  Both # {} /\ sa < eb /\ sb < ea
  <2>1. PICK w \in IsoWeekday, m \in 0..last :
              w \in Both /\ sa <= m /\ m < ea /\ sb <= m /\ m < eb
    BY <1>4, <1>9
  <2>2. m \in Int
    BY <1>6
  <2> QED
    BY <1>1, <2>1, <2>2
<1> QED
  BY <1>3, <1>8, <1>9

Window(day, start, end) ==
    [daysOfWeek |-> {day}, windowStartMinutes |-> start, windowEndMinutes |-> end,
     leadTimeMinutes |-> PROMPT_LEAD_MINUTES, cutoffMinutes |-> CHARITY_CONFIRM_MINUTES]

(***************************************************************************)
(* schedulesOverlap tests the weekdays before it splits a window that runs *)
(* past midnight.  So Monday 11pm-1am collects together with Tuesday 0:30-2am *)
(* and does not overlap it, and overlaps Monday 0:30-2am, with which it    *)
(* never collects.                                                         *)
(***************************************************************************)
THEOREM OverlapPastMidnight ==
    LET late == Window(1, 1380, 60)
        tuesday == Window(2, 30, 120)
        monday == Window(1, 30, 120)
    IN  /\ validateSchedule(late) /\ validateSchedule(tuesday) /\ validateSchedule(monday)
        /\ CollectTogether(late, tuesday) /\ ~schedulesOverlap(late, tuesday)
        /\ ~CollectTogether(late, monday) /\ schedulesOverlap(late, monday)
<1> DEFINE late == Window(1, 1380, 60)
           tuesday == Window(2, 30, 120)
           monday == Window(1, 30, 120)
<1>1. validateSchedule(late) /\ validateSchedule(tuesday) /\ validateSchedule(monday)
  BY DEF Window, validateSchedule, IsoWeekday, PROMPT_LEAD_MINUTES,
         CHARITY_CONFIRM_MINUTES, MINUTES_IN_DAY
<1>2. endsNextDay(late) /\ ~endsNextDay(tuesday) /\ ~endsNextDay(monday)
  BY SMTT(60) DEF Window, endsNextDay
<1>3. CollectTogether(late, tuesday)
  <2>1. CollectsAt(late, 2, 40) /\ CollectsAt(tuesday, 2, 40)
    BY <1>2 DEF CollectsAt, Window
  <2> QED
    BY <2>1 DEF CollectTogether, IsoWeekday, MINUTES_IN_DAY
<1>4. ~schedulesOverlap(late, tuesday)
  BY DEF Window, schedulesOverlap
<1>5. ~CollectTogether(late, monday)
  <2> SUFFICES ASSUME NEW w \in IsoWeekday, NEW m \in 0..(MINUTES_IN_DAY - 1),
                      CollectsAt(late, w, m), CollectsAt(monday, w, m)
               PROVE  FALSE
    BY DEF CollectTogether
  <2>1. w = 1 /\ m < 120 /\ m \in Int
    BY <1>2 DEF CollectsAt, Window
  <2> QED
    BY <1>2, <2>1 DEF CollectsAt, Window
<1>6. schedulesOverlap(late, monday)
  <2>1. <<0, 60>> \in spans(late) /\ <<30, 120>> \in spans(monday)
    BY <1>2 DEF spans, Window
  <2> QED
    BY <2>1 DEF schedulesOverlap, Window
<1> QED
  BY <1>1, <1>3, <1>4, <1>5, <1>6

(***************************************************************************)
(* On the night when the clocks skip 2-3am, a window of 2:30-3:15 ends     *)
(* before it starts: its start is read an hour later, its end is not.      *)
(***************************************************************************)
THEOREM SkippedHourSwapsWindow ==
    \E zone \in Zone, x \in ConnectionScheduleInput, d \in Int :
        /\ validateSchedule(x)
        /\ resolveDay(zone, x, d).windowEndAt < resolveDay(zone, x, d).windowStartAt
<1> DEFINE zone == [before |-> 600, after |-> 660, at |-> -480]
           x == Window(7, 150, 195)
<1>1. zone \in Zone
  BY DEF Zone
<1>2. x \in ConnectionScheduleInput /\ validateSchedule(x)
  BY DEF Window, ConnectionScheduleInput, validateSchedule, IsoWeekday,
         PROMPT_LEAD_MINUTES, CHARITY_CONFIRM_MINUTES, MINUTES_IN_DAY
<1>3. /\ instantForLocalTime(zone, 0, 150) = -450
      /\ instantForLocalTime(zone, 0, 195) = -465
  BY DEF instantForLocalTime, offsetMinutesAt, MINUTES_IN_DAY
<1>4. /\ resolveDay(zone, x, 0).windowStartAt = -450
      /\ resolveDay(zone, x, 0).windowEndAt = -465
  BY <1>3 DEF resolveDay, Window, endsNextDay
<1> QED
  BY <1>1, <1>2, <1>4

=============================================================================
