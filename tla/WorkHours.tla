------------------------------ MODULE WorkHours ------------------------------
(***************************************************************************)
(* The arithmetic of WorkLogService: worked hours of a day, the standard   *)
(* hours of a work schedule, and the check-out that the nightly job writes.*)
(*                                                                         *)
(* Instants are seconds, schedules and lunch breaks are minutes, hours are *)
(* hundredths of an hour (the code keeps two decimals of an hour).  A sum  *)
(* of JavaScript numbers with two decimals is modelled as exact: every     *)
(* value the code rounds has a fractional part of 0, 1/3 or 2/3, so no     *)
(* rounding of it depends on the last bit of a double.                     *)
(***************************************************************************)
EXTENDS Integers, SequencesExt

CONSTANT None  \* null: no check-out yet, no value

ASSUME NoneAssumption == None \notin Int

DaySeconds == 86400

(* startOfDay, as a day number: local time without daylight saving.        *)
Day(t) == t \div DaySeconds

(* A session of a day's work; out is None while it is open.                *)
Session == [in : Nat, out : Int \cup {None}]

Closed(s) == s.out # None

HasOpen(items) == \E k \in DOMAIN items : ~Closed(items[k])

(* A work schedule, in minutes after midnight, and its unpaid lunch break. *)
Schedule == [start : Nat, end : Nat, lunch : Nat]

DefaultSchedule == [start |-> 480, end |-> 1050, lunch |-> 60]

(* Math.round((minutes / 60) * 100)                                        *)
RoundedDown(minutes) == (10 * minutes) \div 6
RoundHours(minutes) == (10 * minutes + 3) \div 6

(* differenceInMinutes truncates towards zero.                             *)
DifferenceInMinutes(b, a) ==
  IF b >= a THEN (b - a) \div 60 ELSE -((a - b) \div 60)

StandardHoursPerDay(schedule) ==
  RoundHours(schedule.end - schedule.start - schedule.lunch)

(* The rounded hours of one session; an open one counts nothing.           *)
SessionHours(s) ==
  IF Closed(s) THEN RoundHours(DifferenceInMinutes(s.out, s.in)) ELSE 0

RawHours(items) == SumFunction([k \in DOMAIN items |-> SessionHours(items[k])])

(* Math.round((rawHours - breakMinutes / 60) * 100), in hundredths.        *)
NetHours(raw, lunch) == (6 * raw - 10 * lunch + 3) \div 6

LunchOnLongDaysOnly(items, lunch, skip) ==
  LET raw == RawHours(items) IN
  IF skip \/ raw < 800 THEN raw ELSE NetHours(raw, lunch)

WorkedHoursByDay(items, lunch, skip) ==
  LET raw == RawHours(items) net == NetHours(raw, lunch) IN
  CASE raw <= 0 -> 0
    [] raw > 0 /\ skip -> raw
    [] OTHER -> IF net > 0 THEN net ELSE 0

(* addMinutes(checkIn, rawMinutes) of the nightly job: a hundredth of an   *)
(* hour is 36 seconds.                                                     *)
AutoCheckOutAlwaysLunch(in, schedule, skip) ==
  in + 36 * StandardHoursPerDay(schedule) + 60 * schedule.lunch
AutoCheckOut(in, schedule, skip) ==
  in + 36 * StandardHoursPerDay(schedule)
     + (IF skip THEN 0 ELSE 60 * schedule.lunch)

(* The last session ends, or ends anew, at t.                              *)
EndLast(items, t) == [items EXCEPT ![Len(items)].out = t]

(* The items the nightly job stores.                                       *)
AutoClose(items, schedule, skip) ==
  EndLast(items, AutoCheckOut(Last(items).in, schedule, skip))

=============================================================================
