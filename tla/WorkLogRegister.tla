--------------------------- MODULE WorkLogRegister ---------------------------
(***************************************************************************)
(* The work logs of an employee who waits for the answer to one request    *)
(* before sending the next implement the register of Attendance, and no    *)
(* day stays open.                                                         *)
(***************************************************************************)
EXTENDS WorkLog

Days == {Day(t) : t \in Instants}
Keys == Accounts \X Orgs \X Days

(* The register that the collection stores.                                *)
Book ==
  [k \in Keys |->
     LET ids == LogsOf(k[1], k[2], k[3]) IN
     IF ids = {} THEN <<>> ELSE logs[CHOOSE id \in ids : TRUE].items]

StandardEnds(t) ==
  {AutoCheckOut(t, s, FALSE) : s \in Schedules \cup {DefaultSchedule}}

Register ==
  INSTANCE Attendance WITH book <- Book, Times <- Instants,
                           Erasable <- "remove" \in Calls

(* Check-ins, check-outs and the nightly job keep every recorded session,  *)
(* although each of them writes back the whole array it read before.       *)
ImplementsRegister == Register!Spec

(* The event loop runs every callback that is ready, the database answers  *)
(* every query, the timer of the nightly job fires, and time passes.       *)
Fairness ==
  /\ \A r \in Reqs : WF_vars(HandlerStep(r))
  /\ WF_vars(CronStep)
  /\ SF_vars(Tick)

LiveSpec == Spec /\ Fairness

OpenDay(a, o, d) == \E id \in LogsOf(a, o, d) : HasOpen(logs[id].items)

(* A day followed by a night at which the job runs does not stay open,     *)
(* whenever its check-in came in and even if the organization is gone.     *)
NoDayStaysOpen ==
  \A a \in Accounts, o \in Orgs, d \in Days :
    (\E t \in Instants : CronTime(t) /\ Day(t) = d + 1)
      => (OpenDay(a, o, d) ~> ~OpenDay(a, o, d))

(* The job ends the open session of a log of the day before, and touches   *)
(* nothing else: no session that its owner has ended, no other day.        *)
AutoCheckout(id) ==
  LET before == logs[id] after == logs'[id] IN
  /\ before.day = Day(cron.since) - 1
  /\ ~Closed(Last(before.items))
  /\ after.items = [before.items EXCEPT ![Len(before.items)].out =
                                          Last(after.items).out]

AutoCheckoutKeepsWork ==
  [][CronSave => \A id \in DOMAIN logs : logs'[id] # logs[id] => AutoCheckout(id)]_vars
=============================================================================
