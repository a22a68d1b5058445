---------------------------- MODULE MCOperations ----------------------------
(* Model-checking instance of Operations.                                  *)
EXTENDS Operations

CONSTANTS r1, r2, t1, t2, w1, w2

MCReplicas == {r1, r2}
MCTravels == {t1, t2}
MCWorkers == {w1, w2}

\* Nothing, the releases on either side of each migration that fails or whose
\* down does not restore the release before it, and the last ones.
MCInitialReleases == {0, 3, 4, 21, 22, 23, 28, 29, 30, 31, 32, 33, 36, 42, 43}

\* Days of three minutes.  Every window, whole or with a time missing, on every
\* day, on two days in a row (from Saturday to Sunday), on two apart, on no day
\* in particular or on none there is; schedules that touch, overlap or end
\* before they begin.
MCMinutes == 3

Times == (0 .. MCMinutes - 1) \cup {Missing}

Hours(statuses, types, times, days, schedules) ==
  [status: statuses, type: types, startTime: times, endTime: times,
   daysOfWeek: days, customSchedule: schedules]

Schedules == {[startDate |-> s, endDate |-> e] : <<s, e>> \in
                {<<0, 1>>, <<2, 2>>, <<5, 9>>, <<7, 12>>, <<12, 11>>, <<20, 25>>}}

MCPlanets ==
  UNION { Hours({"active"}, {"none", "DAILY"}, {0}, {{}}, {Missing}),
          Hours({"inactive"}, {"none", "daily"}, {0}, {{}}, {Missing}),
          Hours({"active"}, {"daily"}, Times, {{}}, {Missing}),
          Hours({"active"}, {"weekly"}, Times,
                {{}, {0}, {3}, {0, 6}, {1, 4}, 0 .. 6, {7}}, {Missing}),
          Hours({"active"}, {"custom"}, {Missing}, {{}},
                {Missing} \cup SUBSET Schedules) }
=============================================================================
