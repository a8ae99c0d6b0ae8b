-------------------------- MODULE MCConnectionDays --------------------------
(* Small instances of ConnectionDays: a kitchen b with two connections, to  *)
(* charities a1 and a2.  The first is prompted long before its list-by      *)
(* time; the lead time of the second is under an hour, so that its list-by  *)
(* time has passed when it is prompted.                                     *)
EXTENDS ConnectionDays, TLC

CONSTANTS b, a1, a2, d1, d2, i1

MCOrgType == (b :> "BUSINESS") @@ (a1 :> "CHARITY") @@ (a2 :> "CHARITY")

MCReceiver == [d \in Days |-> IF d = d1 THEN a1 ELSE a2]

MCSchedule ==
    [d \in Days |->
        IF d = d1
        THEN [prompt |-> 0, listBy |-> 1, cutoff |-> 2, start |-> 3, end |-> 4]
        ELSE [prompt |-> 2, listBy |-> 1, cutoff |-> 2, start |-> 3, end |-> 5]]

\* Two schedules of a kitchen in Brisbane (UTC+10, no daylight saving): 4-5pm,
\* asked four hours before, and 4-6pm, asked at the last moment.
Afternoon ==
    [daysOfWeek |-> 1..5, windowStartMinutes |-> 16 * 60, windowEndMinutes |-> 17 * 60,
     leadTimeMinutes |-> 4 * 60, cutoffMinutes |-> 30]
LastMinute == [Afternoon EXCEPT !.windowEndMinutes = 18 * 60, !.leadTimeMinutes = 30]

Dates == INSTANCE ConnectionSchedule
Brisbane == [before |-> 600, after |-> 600, at |-> 0]

\* Thursday 24 September 2026
Today == 20720

ASSUME TodayIsCollected ==
    /\ Dates!isoWeekdayOf(Today) = 4
    /\ \A x \in {Afternoon, LastMinute} :
        Dates!validateSchedule(x) /\ Dates!collectsOn(x, Today)

InstantsOf(x) ==
    LET r == Dates!resolveDay(Brisbane, x, Today)
    IN  [prompt |-> r.promptAt, listBy |-> Dates!listByAt(r.windowStartAt),
         cutoff |-> r.cutoffAt, start |-> r.windowStartAt, end |-> r.windowEndAt]

\* The clock of the model counts the instants that the schedules distinguish.
Instants ==
    UNION {{InstantsOf(x)[k] : k \in {"prompt", "listBy", "cutoff", "start", "end"}} :
            x \in {Afternoon, LastMinute}}
Rank(t) == Cardinality({i \in Instants : i < t})

ClockOf(x) ==
    LET r == InstantsOf(x)
    IN  [prompt |-> Rank(r.prompt), listBy |-> Rank(r.listBy), cutoff |-> Rank(r.cutoff),
         start |-> Rank(r.start), end |-> Rank(r.end)]

ScheduleOf(d) == IF d = d1 THEN Afternoon ELSE LastMinute

ASSUME ScheduleIsResolved == \A d \in Days : MCSchedule[d] = ClockOf(ScheduleOf(d))

\* At each of those instants, the days whose prompt is due are the ones whose
\* window is being prompted for or open.
ASSUME DueOnTheClock ==
    \A x \in {Afternoon, LastMinute}, t \in Instants :
        Dates!dueDays(Brisbane, x, t)
          = IF ClockOf(x).prompt <= Rank(t) /\ Rank(t) < ClockOf(x).end
            THEN {Dates!resolveDay(Brisbane, x, Today)} ELSE {}

\* connection.schedule.spec.ts: the next collection from Thursday 4:30pm and
\* from Friday 6pm; in India (UTC+5:30), a window of 0:30am-6pm is prompted for
\* the evening before, which calls it "tomorrow", and one of 11pm-1am is still
\* open after midnight.
Kolkata == [before |-> 330, after |-> 330, at |-> 0]
EveryDay ==
    [Afternoon EXCEPT !.daysOfWeek = 1..7, !.windowStartMinutes = 30,
                      !.windowEndMinutes = 18 * 60]
Overnight == [EveryDay EXCEPT !.windowStartMinutes = 23 * 60, !.windowEndMinutes = 60]

ASSUME SpecExamples ==
    LET minute(d, h, m) == d * 1440 + h * 60 + m
        thursday == Today + 7
    IN  /\ Dates!nextOccurrence(Brisbane, Afternoon, minute(Today, 6, 30)).scheduledDate
             = Today
        /\ Dates!nextOccurrence(Brisbane, Afternoon, minute(Today + 1, 8, 0)).scheduledDate
             = Today + 4
        /\ ~\E r \in Dates!dueDays(Kolkata, EveryDay, minute(thursday, 14, 59)) :
                r.scheduledDate = thursday + 1
        /\ \E r \in Dates!dueDays(Kolkata, EveryDay, minute(thursday, 15, 0)) :
                /\ r.scheduledDate = thursday + 1
                /\ r.windowStartAt = minute(thursday, 19, 0)
                /\ Dates!dayWordFor(Kolkata, r.windowStartAt, minute(thursday, 15, 0))
                     = "tomorrow"
                /\ Dates!dayWordFor(Kolkata, r.windowStartAt, minute(thursday, 18, 45))
                     = "today"
        /\ \E r \in Dates!dueDays(Kolkata, Overnight, minute(thursday, 19, 0)) :
                r.windowStartAt = minute(thursday, 17, 30)

MCSurplus == {(i1 :> 1)}

\* ListingClaims beside it: the donor withdraws a listing that is on offer.
WithdrawListing(l) ==
    /\ OpenListing(l)
    /\ listing' = [listing EXCEPT ![l].status = "CANCELLED"]
    /\ UNCHANGED <<day, info, window, creq>>
    /\ OnlyListing

MCNext == DaysNext \/ \E l \in Listings : WithdrawListing(l)

CrashSpec == DaysInit /\ [][MCNext]_<<storeVars, daysVars>> /\ DaysFairness

Symmetry == Permutations(Listings) \cup Permutations(Requests)
=============================================================================
