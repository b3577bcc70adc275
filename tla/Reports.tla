------------------------------- MODULE Reports -------------------------------
(***************************************************************************)
(* The figures of the monthly reports.  A date is a day number, and a      *)
(* month a set of them; hours are hundredths of an hour and the attendance *)
(* rate is hundredths of a percent, as the code rounds them.               *)
(***************************************************************************)
EXTENDS WorkHours

CONSTANT WorkLogs   \* stored logs: [account, org, date, hours]

HolidayTypes == {"Off", "Workday"}

(* getDay: day 0 is a Thursday.                                            *)
GetDay(d) == (d + 4) % 7
IsWeekend(d) == GetDay(d) \in {0, 6}

DatesOf(hs, type) == {h.date : h \in {g \in hs : g.type = type}}

(* Variant: a make-up day counts whatever the day of the week.             *)
AnyWorkdayCounts(month, hs) ==
  Cardinality({d \in month : ~IsWeekend(d) /\ d \notin DatesOf(hs, "Off")})
    + Cardinality(DatesOf(hs, "Workday") \cap month)

StandardWorkingDays(month, hs) ==
  Cardinality({d \in month : IF IsWeekend(d) THEN d \in DatesOf(hs, "Workday")
                                             ELSE d \notin DatesOf(hs, "Off")})

Positive(n) == IF n > 0 THEN n ELSE 0

(* Math.round((total / standard) * 10000): halves go up.                   *)
AttendanceRate(total, standard) ==
  IF standard > 0 THEN (20000 * total + standard) \div (2 * standard) ELSE 0

Figures(logs, schedule, days) ==
  LET total == MapThenSumSet(LAMBDA l : l.hours, logs)
      standard == StandardHoursPerDay(schedule) * days
  IN  [totalHours |-> total, totalStandardHours |-> standard,
       loggedDays |-> Cardinality(logs),
       overtimeHours |-> Positive(total - standard),
       missingHours |-> Positive(standard - total),
       attendanceRate |-> AttendanceRate(total, standard)]

(* The logs of an account in a month, of one organization when one is      *)
(* named.                                                                  *)
LogsFor(a, org, month) ==
  {l \in WorkLogs : l.account = a /\ l.date \in month /\ (org = None \/ l.org = org)}

(* findOne: the schedule of some active organization of the account.       *)
OwnSchedules(a, orgs) ==
  LET mine == {o \in DOMAIN orgs : orgs[o].isActive
                 /\ (orgs[o].owner = a \/ a \in orgs[o].members)}
  IN  IF mine = {} THEN {DefaultSchedule} ELSE {orgs[o].workSchedule : o \in mine}
=============================================================================
