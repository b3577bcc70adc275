-------------------------- MODULE MCWorkLogRegister --------------------------
EXTENDS WorkLogRegister

At(d, h, m, s) == d * DaySeconds + h * 3600 + m * 60 + s

(* Two days and the nights after them.                                     *)
TwoNights ==
  {At(1, 8, 0, 0), At(1, 12, 0, 0), At(1, 23, 59, 50),
   At(2, 0, 0, 10), At(2, 1, 0, 0), At(2, 9, 0, 0),
   At(3, 1, 0, 0)}

OneSchedule == {DefaultSchedule}
NoNotes == {}
NoBodies == {}
ClockAndOrg == {"checkIn", "checkOut", "removeOrg"}

(* An owner who ends yesterday's session by hand.                          *)
ClockAndEdit == {"checkIn", "update"}
EndedAtFive ==
  {[items |-> <<[in |-> At(1, 8, 0, 0), out |-> At(1, 17, 0, 0)]>>,
    skip |-> None, note |-> None]}

=============================================================================
