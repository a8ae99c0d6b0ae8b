------------------------ MODULE MCConnectionLifecycle ------------------------
(* Small instances of ConnectionLifecycle: one charity and two schedules    *)
(* that do not overlap, Mon/Wed 3-5pm and Tue/Thu 1-3pm, and a mistyped one *)
(* that asks the kitchen after the cut-off.                                 *)
EXTENDS ConnectionLifecycle, TLC

MonWed ==
    [daysOfWeek |-> {1, 3}, windowStartMinutes |-> 15 * 60, windowEndMinutes |-> 17 * 60,
     leadTimeMinutes |-> PROMPT_LEAD_MINUTES, cutoffMinutes |-> CHARITY_CONFIRM_MINUTES]
TueThu ==
    [MonWed EXCEPT !.daysOfWeek = {2, 4}, !.windowStartMinutes = 13 * 60,
                   !.windowEndMinutes = 15 * 60]

MCSchedules == {MonWed, TueThu, [MonWed EXCEPT !.leadTimeMinutes = 15]}

\* connection.schedule.spec.ts, "schedulesOverlap": windows that touch, that
\* overlap in part, and a late shift past midnight.
At(days, start, end) ==
    [MonWed EXCEPT !.daysOfWeek = days, !.windowStartMinutes = start,
                   !.windowEndMinutes = end]

ASSUME OverlapExamples ==
    /\ ~schedulesOverlap(At({1}, 960, 1020), At({1}, 1020, 1080))
    /\ ~schedulesOverlap(At({1, 2}, 960, 1020), At({3, 4}, 960, 1020))
    /\ schedulesOverlap(At({1}, 960, 1080), At({1}, 1020, 1140))
    /\ schedulesOverlap(At({1}, 1380, 60), At({1}, 1410, 1425))
    /\ ~schedulesOverlap(At({1}, 1380, 60), At({1}, 720, 780))

\* On windows of whole hours that do not run past midnight, schedulesOverlap
\* is what it means.
ASSUME OverlapMeansTogether ==
    \A i, j, k, l \in {0, 60, 120, 180} :
        i < j /\ k < l =>
            \A days \in {{1}, {1, 2}, {2}} :
                schedulesOverlap(At(days, i, j), At({1}, k, l))
                  <=> CollectTogether(At(days, i, j), At({1}, k, l))

Symmetry == Permutations(Connections) \cup Permutations(Slots)
=============================================================================
