------------------------------- MODULE Cron -------------------------------
(***************************************************************************)
(* Cron expressions (scheduler/cron.go): the five fields as sets of        *)
(* numbers, and the search for the next minute they match in a time zone.  *)
(* An instant is a number of minutes of UTC; a day has MinutesPerDay of    *)
(* them and the calendar is a constant, so that a month of 31 days or five *)
(* years are as long as an instance wants them.                            *)
(***************************************************************************)
EXTENDS Integers, Sequences, FiniteSets

CONSTANTS HoursPerDay, MinutesPerHour,
          Days,      \* local days, from 0: month, dayOfMonth and dayOfWeek of each
          Instants,  \* bound: the instants a zone is known at
          Horizon    \* days in five years

MinutesPerDay == HoursPerDay * MinutesPerHour

ASSUME CronAssumption ==
    /\ {HoursPerDay, MinutesPerHour, Horizon} \subseteq Nat \ {0}
    /\ Instants \subseteq Int
    /\ \A d \in DOMAIN Days : Days[d] \in [month : 1..12, dayOfMonth : 1..31, dayOfWeek : 0..6]

-----------------------------------------------------------------------------
(***************************************************************************)
(* Parsing.  An expression is a sequence of fields, a field a sequence of  *)
(* parts; a part is a range with a step, "*" being written from = to = Star *)
(* and a token that is no number NoNumber.                                 *)
(***************************************************************************)
Star == -2
NoNumber == -1
Unparsed == [ok |-> FALSE]

parseCronInt(value, min, max) == value \in min..max

\* The bounds of a part: start and end, or none.
parseCronRange(part, min, max) ==
    IF part.from = Star THEN {<<min, max>>}
    ELSE IF /\ parseCronInt(part.from, min, max) /\ parseCronInt(part.to, min, max)
            /\ part.from <= part.to
         THEN {<<part.from, part.to>>} ELSE {}

\* The values of one part: every step-th of its range.
PartValues(part, min, max) ==
    UNION {{v \in r[1]..r[2] : (v - r[1]) % part.step = 0} : r \in parseCronRange(part, min, max)}

PartOk(part, min, max) == part.step > 0 /\ parseCronRange(part, min, max) # {}

\* A list of parts; {} when one of them does not parse.  7 is Sunday too.
parseCronField(field, min, max, normalizeSunday) ==
    IF field = <<>> \/ \E i \in DOMAIN field : ~PartOk(field[i], min, max) THEN {}
    ELSE {IF normalizeSunday /\ v = 7 THEN 0 ELSE v :
              v \in UNION {PartValues(field[i], min, max) : i \in DOMAIN field}}

\* Some month of the schedule has some of its days, February 29 included.
validateCronSatisfiable(c) ==
    LET daysPerMonth == <<31, 29, 31, 30, 31, 30, 31, 31, 30, 31, 30, 31>>
    IN  \E m \in c.month : \E d \in c.dayOfMonth : d <= daysPerMonth[m]

\* The five fields, all parsed and satisfiable.
ParseCron(expr) ==
    IF Len(expr) # 5 THEN Unparsed
    ELSE LET c == [ok |-> TRUE,
                   minute |-> parseCronField(expr[1], 0, MinutesPerHour - 1, FALSE),
                   hour |-> parseCronField(expr[2], 0, HoursPerDay - 1, FALSE),
                   dayOfMonth |-> parseCronField(expr[3], 1, 31, FALSE),
                   month |-> parseCronField(expr[4], 1, 12, FALSE),
                   dayOfWeek |-> parseCronField(expr[5], 0, 7, TRUE)]
             empty == {} \in {c.minute, c.hour, c.dayOfMonth, c.month, c.dayOfWeek}
         IN  IF empty \/ ~validateCronSatisfiable(c) THEN Unparsed ELSE c

-----------------------------------------------------------------------------
(***************************************************************************)
(* Zones.  A zone gives each instant its offset: minutes ahead of UTC.     *)
(***************************************************************************)
Local(zone, t) == t + zone[t]
Day(zone, t) == Local(zone, t) \div MinutesPerDay
HourOf(zone, t) == (Local(zone, t) % MinutesPerDay) \div MinutesPerHour
MinuteOf(zone, t) == Local(zone, t) % MinutesPerHour

\* time.Date: the instant at which clocks show a minute of a day.  The
\* offset is looked up as if the wall clock were UTC, and once more if the
\* instant this gives has another; of a minute the clocks skip it returns
\* one an hour away.
Date(zone, day, minute) ==
    LET wall == day * MinutesPerDay + minute
    IN  wall - zone[wall - zone[wall]]

\* AddDate(0, 0, n).
AddDays(zone, t, n) == Date(zone, Day(zone, t) + n, Local(zone, t) % MinutesPerDay)

DayMatches(c, d) ==
    /\ Days[d].month \in c.month
    /\ Days[d].dayOfMonth \in c.dayOfMonth
    /\ Days[d].dayOfWeek \in c.dayOfWeek

TimeMatches(c, zone, t) == MinuteOf(zone, t) \in c.minute /\ HourOf(zone, t) \in c.hour

Matches(c, zone, t) == TimeMatches(c, zone, t) /\ DayMatches(c, Day(zone, t))

-----------------------------------------------------------------------------
(***************************************************************************)
(* Windows.                                                                *)
(***************************************************************************)
None == -1

\* The window an instant is in, if any.
CurrentWindow(c, zone, now) == IF Matches(c, zone, now) THEN now ELSE None

\* The n-th day the search looks at, as the instant it begins at.
ScanDay(zone, start) ==
    LET day[n \in 0..(Horizon + 1)] == IF n = 0 THEN Date(zone, Day(zone, start), 0)
                                                ELSE AddDays(zone, day[n - 1], 1)
    IN  day

\* The candidates on one of these days: one minute after the other for as
\* long as the day lasts.
Candidates(zone, from, day, deadline) ==
    {t \in from..deadline : \A u \in from..t : Day(zone, u) = day}

\* Mutant: the first day is searched from its midnight.
NextAfterFromMidnight(c, zone, after) ==
    LET start == after + 1
        deadline == AddDays(zone, start, Horizon)
        day == ScanDay(zone, start)
        found(n) == {t \in Candidates(zone, day[n], Day(zone, day[n]), deadline) : TimeMatches(c, zone, t)}
        hits == {n \in 0..(Horizon + 1) : /\ day[n] <= deadline /\ DayMatches(c, Day(zone, day[n])) /\ found(n) # {}}
    IN  IF hits = {} THEN None
        ELSE LET n == CHOOSE n \in hits : \A k \in hits : n <= k
             IN  CHOOSE t \in found(n) : \A u \in found(n) : t <= u

\* The first matching minute later than an instant, searched day by day for
\* five years: days that match, and in them the minutes that match, from
\* the beginning of the search on its first day.
NextAfter(c, zone, after) ==
    LET start == after + 1
        deadline == AddDays(zone, start, Horizon)
        day == ScanDay(zone, start)
        from(n) == IF day[n] = day[0] THEN start ELSE day[n]
        found(n) == {t \in Candidates(zone, from(n), Day(zone, day[n]), deadline) : TimeMatches(c, zone, t)}
        hits == {n \in 0..(Horizon + 1) : /\ day[n] <= deadline /\ DayMatches(c, Day(zone, day[n])) /\ found(n) # {}}
    IN  IF hits = {} THEN None
        ELSE LET n == CHOOSE n \in hits : \A k \in hits : n <= k
             IN  CHOOSE t \in found(n) : \A u \in found(n) : t <= u

\* What the search is for: the least later minute that matches.
FirstMatch(c, zone, after) ==
    LET later == {t \in (after + 1)..AddDays(zone, after + 1, Horizon) : Matches(c, zone, t)}
    IN  IF later = {} THEN None ELSE CHOOSE t \in later : \A u \in later : t <= u

-----------------------------------------------------------------------------
(***************************************************************************)
(* Zones in which the two agree.  From a day on, to the end of a search:   *)
(* there are clocks that show midnight, and it is later than that exactly  *)
(* if they show that day or a later one.                                   *)
(***************************************************************************)
MidnightIsShown(zone, day, start, deadline) ==
    LET midnight == Date(zone, day, 0)
    IN  /\ midnight \in Int /\ Local(zone, midnight) = day * MinutesPerDay
        /\ \A t \in start..deadline : t >= midnight <=> Day(zone, t) >= day

\* A search from an instant, in a zone whose clocks may be moved, but not
\* over midnight in either direction, and not by more than a day.
DaysInOrder(zone, start) ==
    LET deadline == AddDays(zone, start, Horizon)
        day == Day(zone, start)
    IN  /\ start \in Int /\ deadline \in Int /\ start <= deadline
        /\ \A t \in start..deadline : zone[t] \in Int
        /\ Day(zone, deadline) <= day + Horizon + 1
        /\ \A d \in day..(day + Horizon + 2) : MidnightIsShown(zone, d, start, deadline)
=============================================================================
