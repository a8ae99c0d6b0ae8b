------------------------- MODULE ConnectionSchedule -------------------------
(***************************************************************************)
(* The date arithmetic of connections (connection.schedule.ts): from       *)
(* "4-5pm on Mon and Wed", as the kitchen's clock reads, to instants.      *)
(*                                                                         *)
(* An instant is a number of minutes since the epoch.  A local date is the *)
(* number of its day since the epoch; the code keeps it as the UTC         *)
(* midnight of that day.  What the platform's time-zone database says of   *)
(* the zone of a site, around one instant, is a record: the offset from    *)
(* UTC changes from before to after at the instant at.                     *)
(***************************************************************************)
EXTENDS Integers, FiniteSets

MINUTES_IN_DAY == 24 * 60
PROMPT_LEAD_MINUTES == 4 * 60
LIST_BY_MINUTES == 60
CHARITY_CONFIRM_MINUTES == 30

IsoWeekday == 1..7

\* A zone with at most one change of offset near the instants of interest.
Zone == [before: Int, after: Int, at: Int]

ConnectionScheduleInput ==
    [daysOfWeek: SUBSET Nat, windowStartMinutes: Int, windowEndMinutes: Int,
     leadTimeMinutes: Int, cutoffMinutes: Int]

validateSchedule(input) ==
    /\ input.daysOfWeek # {}
    /\ input.daysOfWeek \subseteq IsoWeekday
    /\ {input.windowStartMinutes, input.windowEndMinutes} \subseteq 0..(MINUTES_IN_DAY - 1)
    /\ input.windowStartMinutes # input.windowEndMinutes
    /\ {input.leadTimeMinutes, input.cutoffMinutes} \subseteq 0..MINUTES_IN_DAY
    /\ input.cutoffMinutes <= input.leadTimeMinutes

-----------------------------------------------------------------------------
(* Local time and instants *)

offsetMinutesAt(zone, instant) ==
    IF instant < zone.at THEN zone.before ELSE zone.after

localDateAt(zone, instant) ==
    (instant + offsetMinutesAt(zone, instant)) \div MINUTES_IN_DAY

\* The epoch was a Thursday.
isoWeekdayOf(localDate) ==
    LET day == (localDate + 4) % 7
    IN  IF day = 0 THEN 7 ELSE day

\* The offset is resolved twice: of the local time read as UTC, and then of
\* the instant that this first offset gives.
instantForLocalTime(zone, localDate, minutes) ==
    LET naive == localDate * MINUTES_IN_DAY + minutes
        firstGuess == naive - offsetMinutesAt(zone, naive)
    IN  naive - offsetMinutesAt(zone, firstGuess)

-----------------------------------------------------------------------------
(* The days of a schedule *)

collectsOn(schedule, localDate) == isoWeekdayOf(localDate) \in schedule.daysOfWeek

endsNextDay(schedule) == schedule.windowEndMinutes <= schedule.windowStartMinutes

\* cutoffMinutes of old rows may be 90.
cutoffMinutesOf(schedule) ==
    IF schedule.cutoffMinutes < CHARITY_CONFIRM_MINUTES
    THEN schedule.cutoffMinutes
    ELSE CHARITY_CONFIRM_MINUTES

resolveDay(zone, schedule, localDate) ==
    LET start == instantForLocalTime(zone, localDate, schedule.windowStartMinutes)
        endDate == IF endsNextDay(schedule) THEN localDate + 1 ELSE localDate
    IN  [scheduledDate |-> localDate,
         promptAt      |-> start - schedule.leadTimeMinutes,
         cutoffAt      |-> start - cutoffMinutesOf(schedule),
         windowStartAt |-> start,
         windowEndAt   |-> instantForLocalTime(zone, endDate, schedule.windowEndMinutes)]

\* The dates that nextOccurrence looks at and would answer; it answers the
\* first of them, or null.
OpenDates(zone, schedule, from) ==
    LET today == localDateAt(zone, from)
    IN  {d \in today..(today + 7) :
            collectsOn(schedule, d) /\ resolveDay(zone, schedule, d).windowEndAt > from}

nextOccurrence(zone, schedule, from) ==
    LET open == OpenDates(zone, schedule, from)
    IN  resolveDay(zone, schedule, CHOOSE d \in open : \A e \in open : d <= e)

isPromptDue(day, now) == day.promptAt <= now /\ now < day.windowEndAt

\* dueDays answers these days, earliest first.
dueDays(zone, schedule, now) ==
    LET today == localDateAt(zone, now)
    IN  {day \in {resolveDay(zone, schedule, d) :
                    d \in {e \in {today - 1, today, today + 1} : collectsOn(schedule, e)}} :
            isPromptDue(day, now)}

dayWordFor(zone, windowStartAt, now) ==
    IF localDateAt(zone, windowStartAt) > localDateAt(zone, now)
    THEN "tomorrow" ELSE "today"

listByAt(windowStartAt) == windowStartAt - LIST_BY_MINUTES

isBusinessListByDue(windowStartAt, now) == now >= listByAt(windowStartAt)

-----------------------------------------------------------------------------
(* Two schedules of one site *)

\* A window that ends at or before its start runs past midnight.
spans(w) ==
    IF endsNextDay(w)
    THEN {<<w.windowStartMinutes, MINUTES_IN_DAY>>, <<0, w.windowEndMinutes>>}
    ELSE {<<w.windowStartMinutes, w.windowEndMinutes>>}

schedulesOverlap(a, b) ==
    /\ a.daysOfWeek \cap b.daysOfWeek # {}
    /\ \E p \in spans(a), q \in spans(b) : p[1] < q[2] /\ q[1] < p[2]

\* What "would collect at the same time" means: the kitchen's clock shows a
\* minute m of a weekday w in which both collect.  A window that runs past
\* midnight goes on on the next day.
CollectsAt(schedule, w, m) ==
    IF endsNextDay(schedule)
    THEN \/ w \in schedule.daysOfWeek /\ schedule.windowStartMinutes <= m
         \/ (IF w = 1 THEN 7 ELSE w - 1) \in schedule.daysOfWeek
               /\ m < schedule.windowEndMinutes
    ELSE /\ w \in schedule.daysOfWeek
         /\ schedule.windowStartMinutes <= m
         /\ m < schedule.windowEndMinutes

CollectTogether(a, b) ==
    \E w \in IsoWeekday, m \in 0..(MINUTES_IN_DAY - 1) :
        CollectsAt(a, w, m) /\ CollectsAt(b, w, m)
=============================================================================
