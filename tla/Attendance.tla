----------------------------- MODULE Attendance -----------------------------
(***************************************************************************)
(* What the clock promises to an employee: a register that, for each       *)
(* account, organization and day, collects sessions one at a time.  A      *)
(* recorded session is never changed or lost; only the open one gets its   *)
(* end, from the employee or from the nightly job.                         *)
(***************************************************************************)
EXTENDS WorkHours

CONSTANTS
  Keys,             \* one register page for each account, organization, day
  Times,            \* the readings of the clock
  StandardEnds(_),  \* the ends of a standard day that starts at an instant
  Erasable          \* whether an employee may delete a page

VARIABLES book  \* the sessions of each key

Init == book = [k \in Keys |-> <<>>]

AllClosed(items) == items # <<>> => Closed(Last(items))

ClockIn(k, t) ==
  /\ AllClosed(book[k])
  /\ book[k] # <<>> => Last(book[k]).out <= t
  /\ book' = [book EXCEPT ![k] = Append(@, [in |-> t, out |-> None])]

EndSession(k, t) ==
  /\ ~AllClosed(book[k])
  /\ t > Last(book[k]).in
  /\ book' = [book EXCEPT ![k][Len(book[k])].out = t]

(* The nightly job ends the open session at the end of a standard day.     *)
EndOfDay(k) ==
  /\ ~AllClosed(book[k])
  /\ \E t \in StandardEnds(Last(book[k]).in) : EndSession(k, t)

(* The owner deletes the log.                                              *)
Erase(k) == Erasable /\ book' = [book EXCEPT ![k] = <<>>]

Next ==
  \E k \in Keys :
    \/ \E t \in Times : ClockIn(k, t) \/ EndSession(k, t)
    \/ EndOfDay(k) \/ Erase(k)

Spec == Init /\ [][Next]_book

=============================================================================
