----------------------------- MODULE MCWorkHours -----------------------------
(***************************************************************************)
(* A sheet that collects the sessions of one day, to evaluate the          *)
(* arithmetic of WorkHours on every sheet over a small grid of instants.   *)
(***************************************************************************)
EXTENDS WorkHours

CONSTANTS
  Grid,        \* the instants at which sessions start and end
  Spans,       \* lengths of a work day in minutes, lunch included
  Lunches,     \* lunch breaks in minutes
  MaxSessions  \* bound on the sessions of a sheet

ASSUME SheetAssumption ==
  /\ Grid \subseteq Nat /\ Spans \subseteq Nat /\ Lunches \subseteq Nat
  /\ MaxSessions \in Nat

VARIABLES sheet, schedule, skip

vars == <<sheet, schedule, skip>>

Init ==
  /\ sheet = <<>>
  /\ \E span \in Spans, lunch \in Lunches :
       schedule = [start |-> 480, end |-> 480 + span, lunch |-> lunch]
  /\ skip \in BOOLEAN

Ready(t) == sheet # <<>> => Closed(Last(sheet)) /\ Last(sheet).out <= t

OpenSession ==
  /\ Len(sheet) < MaxSessions
  /\ \E t \in Grid : Ready(t) /\ sheet' = Append(sheet, [in |-> t, out |-> None])
  /\ UNCHANGED <<schedule, skip>>

CloseSession ==
  /\ sheet # <<>> /\ ~Closed(Last(sheet))
  /\ \E t \in Grid :
       /\ t > Last(sheet).in
       /\ sheet' = [sheet EXCEPT ![Len(sheet)].out = t]
  /\ UNCHANGED <<schedule, skip>>

Next == OpenSession \/ CloseSession

Spec == Init /\ [][Next]_vars

-----------------------------------------------------------------------------

Hours(items) == WorkedHoursByDay(items, schedule.lunch, skip)

SessionMinutes(s) == IF Closed(s) THEN DifferenceInMinutes(s.out, s.in) ELSE 0
Minutes(items) == SumFunction([k \in DOMAIN items |-> SessionMinutes(items[k])])

NetMinutes ==
  LET net == Minutes(sheet) - (IF skip THEN 0 ELSE schedule.lunch)
  IN IF net > 0 THEN net ELSE 0

Distance(a, b) == IF a > b THEN a - b ELSE b - a

(* Stored hours against worked minutes: each session and the lunch break   *)
(* may be rounded by at most a third of a hundredth, whatever the order in *)
(* which getWorkedHoursByDay rounds, adds and deducts.  Hours are never    *)
(* negative.                                                               *)
HoursTrackMinutes ==
  /\ Hours(sheet) >= 0
  /\ Distance(3 * Hours(sheet), 5 * NetMinutes) <= Len(sheet) + 1

(* Leaving later never lowers the hours of the day, although a closed      *)
(* session is what makes the lunch break count.                            *)
LeavingLaterNeverCostsHours ==
  \A k \in DOMAIN sheet : \A t \in Grid :
    Closed(sheet[k]) /\ t > sheet[k].out
      => Hours([sheet EXCEPT ![k].out = t]) >= Hours(sheet)

(* What autoCheckoutMissed stores for a day with one open session, where   *)
(* the comment on it promises the standard hours of the schedule.          *)
StandardLost ==
  StandardHoursPerDay(schedule) - Hours(AutoClose(sheet, schedule, skip))
OneOpenSession == Len(sheet) = 1 /\ ~Closed(sheet[1])
PaidMinutes == schedule.end - schedule.start - schedule.lunch

(* The standard hours are stored when their minutes and the lunch break are*)
(* multiples of 3.  Otherwise the check-out, computed from rounded hours,  *)
(* is cut to a minute and rounded again: one hundredth of an hour may be   *)
(* lost, and a second one when the lunch break rounds as well.             *)
AutoCheckoutRestoresStandard ==
  LET lunchFits == skip \/ schedule.lunch % 3 = 0
  IN  OneOpenSession /\ PaidMinutes > 0
        => /\ StandardLost \in 0..2
           /\ lunchFits => StandardLost <= 1
           /\ lunchFits /\ PaidMinutes % 3 = 0 => StandardLost = 0

(* "So the resulting net work hours equal the org's standardHoursPerDay",  *)
(* as the comment on autoCheckoutMissed says.                              *)
StandardHoursAreStored ==
  OneOpenSession /\ PaidMinutes > 0 => StandardLost = 0

=============================================================================
