------------------------------ MODULE ChatHours ------------------------------
(***************************************************************************)
(* The hours at which a planet is open for chat (planet.entity.ts).  Who   *)
(* sends a message while it is closed is refused and told when to come     *)
(* back: isChatAllowed and getNextChatTime are two computations, which     *)
(* have to agree on every later instant.                                   *)
(*                                                                         *)
(* now counts minutes on the server's clock, from the start of a Sunday.   *)
(* Within a minute nothing opens or closes: the times of a window are      *)
(* HH:mm and compared as such.  timezone and recurring are read by         *)
(* nothing that is called.                                                 *)
(***************************************************************************)
EXTENDS Integers, FiniteSetsExt

CONSTANTS
  Planets,   \* planets with their status and restriction
  Minutes,   \* minutes of a day
  Horizon,   \* bound: the last instant
  Missing,   \* a field that is not given
  Never      \* the answer null, shown to the user as N/A

\* Times of day are HH:mm; what a schedule names are dates.
ASSUME HoursAssumption ==
  /\ Minutes \in Nat \ {0}
  /\ Horizon \in Nat
  /\ {Missing, Never} \cap Int = {}
  /\ \A p \in Planets :
       /\ {p.startTime, p.endTime} \subseteq 0 .. Minutes - 1 \cup {Missing}
       /\ p.customSchedule # Missing =>
            \A s \in p.customSchedule : {s.startDate, s.endDate} \subseteq Int

VARIABLES
  planet,    \* the planet in question; no code changes its restriction
  now,       \* the clock
  promised   \* what a refused user was told last, while it is not past

hoursVars == <<planet, now, promised>>

Day(t) == t \div Minutes
WeekDay(t) == Day(t) % 7
TimeOfDay(t) == t % Minutes

\* setHours(hours, minutes, 0, 0) on the day d days after t.
OnDay(t, d, time) == (Day(t) + d) * Minutes + time

-----------------------------------------------------------------------------
(* isChatAllowed, called at t.  A type that is none of the three, 'DAILY'  *)
(* among them, restricts nothing.                                          *)

CheckDaily(p, t) ==
  \/ Missing \in {p.startTime, p.endTime}
  \/ TimeOfDay(t) \in p.startTime .. p.endTime

CheckWeekly(p, t) ==
  \/ p.daysOfWeek = {}
  \/ WeekDay(t) \in p.daysOfWeek /\ CheckDaily(p, t)

CheckCustom(p, t) ==
  \/ p.customSchedule = Missing
  \/ \E s \in p.customSchedule : t \in s.startDate .. s.endDate

IsChatAllowed(p, t) ==
  /\ p.status = "active"
  /\ p.type = "daily" => CheckDaily(p, t)
  /\ p.type = "weekly" => CheckWeekly(p, t)
  /\ p.type = "custom" => CheckCustom(p, t)

-----------------------------------------------------------------------------
(* getNextChatTime, called at t.                                           *)

NextDaily(p, t) ==
  IF p.startTime = Missing THEN Never
  ELSE LET today == OnDay(t, 0, p.startTime)
       IN  IF today <= t THEN OnDay(t, 1, p.startTime) ELSE today

\* Variant: the loop over the days ahead ends at i < 7.
NextWeeklySixDays(p, t) ==
  IF p.daysOfWeek = {} \/ p.startTime = Missing THEN Never
  ELSE IF WeekDay(t) \in p.daysOfWeek /\ OnDay(t, 0, p.startTime) > t
       THEN OnDay(t, 0, p.startTime)
       ELSE LET ahead == {i \in 1 .. 6 : (WeekDay(t) + i) % 7 \in p.daysOfWeek}
            IN  IF ahead = {} THEN Never ELSE OnDay(t, Min(ahead), p.startTime)

\* Today if its hour is still to come; else the next of the days, which is
\* this day of next week when there is no other.
NextWeekly(p, t) ==
  IF p.daysOfWeek = {} \/ p.startTime = Missing THEN Never
  ELSE IF WeekDay(t) \in p.daysOfWeek /\ OnDay(t, 0, p.startTime) > t
       THEN OnDay(t, 0, p.startTime)
       ELSE LET ahead == {i \in 1 .. 7 : (WeekDay(t) + i) % 7 \in p.daysOfWeek}
            IN  IF ahead = {} THEN Never ELSE OnDay(t, Min(ahead), p.startTime)

NextCustom(p, t) ==
  LET starts == IF p.customSchedule = Missing THEN {}
                ELSE {s.startDate : s \in p.customSchedule}
      ahead == {start \in starts : start > t}
  IN  IF ahead = {} THEN Never ELSE Min(ahead)

GetNextChatTime(p, t) ==
  CASE p.type = "daily"  -> NextDaily(p, t)
    [] p.type = "weekly" -> NextWeekly(p, t)
    [] p.type = "custom" -> NextCustom(p, t)
    [] OTHER             -> Never

-----------------------------------------------------------------------------
HoursInit ==
  /\ planet \in Planets
  /\ now = 0
  /\ promised = Missing

\* message:send to a planet that is closed.  (The REST route refuses without
\* naming a time, and an open planet is no matter of this module.)
Refuse ==
  /\ ~IsChatAllowed(planet, now)
  /\ promised' = GetNextChatTime(planet, now)
  /\ UNCHANGED <<planet, now>>

\* The clock; a promise is over once its time has come.
Tick ==
  /\ now < Horizon
  /\ now' = now + 1
  /\ promised' = IF promised = now THEN Missing ELSE promised
  /\ UNCHANGED planet

HoursNext == Refuse \/ Tick

-----------------------------------------------------------------------------
\* What the computation of the next time takes for granted and nothing checks:
\* the planet is active, a daily or weekly window has both its times and does
\* not cross midnight, and no schedule ends before it begins.
Plain(p) ==
  /\ p.status = "active"
  /\ p.type \in {"daily", "weekly"} =>
       /\ Missing \notin {p.startTime, p.endTime}
       /\ p.startTime <= p.endTime
  /\ p.type = "custom" /\ p.customSchedule # Missing =>
       \A s \in p.customSchedule : s.startDate <= s.endDate

\* A user refused by message:send is told the very first instant at which the
\* planet is open again, neither a later one nor one at which it is still
\* closed; and who is told that there is none is never let in later on.  It
\* fails for no other reason than those of Plain.
PromiseKept ==
  promised # Missing /\ Plain(planet) =>
    IF promised = Never THEN ~IsChatAllowed(planet, now)
    ELSE now <= promised /\ (IsChatAllowed(planet, now) <=> now = promised)
=============================================================================
