----------------------------- MODULE MCShareLinks -----------------------------
(***************************************************************************)
(* An organization of two of three people, holidays on a weekday and on a  *)
(* weekend, and a link to the report of a member of two organizations; as  *)
(* a part of its own, the sheets of MCWorkHours, whose figures the reports *)
(* add up.                                                                 *)
(***************************************************************************)
EXTENDS ShareLinks, MCWorkHours, TLC

Short == [start |-> 540, end |-> 1020, lunch |-> 30]
SchedulesDef == {DefaultSchedule, Short}
PatchesDef == {[isActive |-> FALSE, workSchedule |-> DefaultSchedule]}

OrgSeedDef ==
  <<[owner |-> "ann", members |-> {"ann", "bob"}, isActive |-> TRUE,
     workSchedule |-> Short]>>

(* Thursday, Friday and Saturday: a day off on Friday.                     *)
MonthDef == 28 .. 30
DatesDef == {29, 30}
YearOfDef == [d \in DatesDef |-> 2026]
HolidaySeedDef == <<[date |-> 29, type |-> "Off"]>>
NewDaysDef == {[date |-> 29, type |-> "Off"], [date |-> 30, type |-> "Workday"]}
DayPatchesDef == {[date |-> 30], [type |-> "Workday"]}

WorkLogsDef ==
  {[account |-> "bob", org |-> 1, date |-> 28, hours |-> 850],
   [account |-> "bob", org |-> 2, date |-> 28, hours |-> 125],
   [account |-> "ann", org |-> 1, date |-> 29, hours |-> 400]}

(* A behaviour keeps to the sheets, or to one part of the desk.  While     *)
(* organizations change, one account goes or one organization is made, with*)
(* the default schedule.                                                   *)
MCDeskInit ==
  /\ DeskInit
  /\ \/ open = "sheets" /\ Init
     \/ /\ open # "sheets"
        /\ sheet = <<>> /\ schedule = DefaultSchedule /\ skip = FALSE

MCDeskSpec ==
  /\ MCDeskInit
  /\ [][ \/ /\ open # "sheets" /\ DeskNext /\ UNCHANGED vars
            /\ open = "organizations" =>
                 Cardinality(People \ people') + Cardinality(orgsMade') <= 2
            /\ \A o \in DOMAIN orgs' \ DOMAIN orgs :
                 orgs'[o].workSchedule = DefaultSchedule
         \/ open = "sheets" /\ Next /\ UNCHANGED deskVars ]_<<deskVars, vars>>

Symmetry == Permutations(Callers) \cup Permutations(Editors)
=============================================================================
