------------------------------ MODULE MCWorkLog ------------------------------
EXTENDS WorkLog

At(d, h, m, s) == d * DaySeconds + h * 3600 + m * 60 + s

(* A working day with a lunch break, and the turn of the day.              *)
ClockInstants ==
  {At(1, 8, 0, 0), At(1, 12, 0, 59), At(1, 13, 0, 0), At(1, 23, 59, 50),
   At(2, 0, 0, 10)}

Office == DefaultSchedule
Short == [start |-> 540, end |-> 1020, lunch |-> 30]
OneSchedule == {Office}
TwoSchedules == {Office, Short}

NoNotes == {}
NoBodies == {}
ClockCalls ==
  {"checkIn", "checkOut", "remove", "addMember", "removeMember"}

(* The evening of a day, the night after it, and the job at 01:00.         *)
NightInstants == {At(1, 18, 0, 0), At(2, 1, 0, 0)}

OneNote == {<<"note">>}
Morning == [in |-> At(1, 8, 0, 0), out |-> At(1, 12, 0, 0)]
Afternoon == [in |-> At(1, 13, 0, 0), out |-> None]
Backwards == [in |-> At(1, 17, 0, 0), out |-> At(1, 8, 0, 0)]
Tomorrow == [in |-> At(3, 0, 0, 1), out |-> None]

CreateOf(s, skip) == [in |-> s.in, out |-> s.out, skip |-> skip, note |-> None]
EditCreates ==
  {CreateOf(Afternoon, TRUE), CreateOf(Backwards, FALSE), CreateOf(Tomorrow, FALSE)}
EditUpdates ==
  {[items |-> <<Morning, Afternoon>>, skip |-> None, note |-> <<"note">>],
   [items |-> <<Backwards>>, skip |-> None, note |-> None]}
EditCalls == {"create", "update", "setSchedule", "removeOrg"}

Symmetry == Permutations(Accounts) \cup Permutations(Reqs)

=============================================================================
