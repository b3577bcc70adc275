------------------------------- MODULE WorkLog -------------------------------
(***************************************************************************)
(* The work_logs collection and everything that writes it over HTTP or at  *)
(* night: WorkLogService (create, update, remove, autoCheckoutMissed),     *)
(* ClockService (checkIn, checkOut) in front of it, and the changes of an  *)
(* organization they read.                                                 *)
(*                                                                         *)
(* A handler is a slot of `req`.  It runs alone up to its next await, so   *)
(* an action is one database operation, done atomically by the server,     *)
(* together with the code that runs on its result.  A handler that answers *)
(* with an error, or is done, leaves its slot idle.                        *)
(***************************************************************************)
EXTENDS WorkHours, FiniteSets

CONSTANTS
  Accounts, Orgs,
  Schedules,      \* the work schedules an organization may have
  Notes,          \* the notes clients send, as sequences of lines
  CreateBodies,   \* bodies of POST /work-log: [in, out, skip, note]
  UpdateBodies,   \* bodies of PATCH /work-log/:id: [items, skip, note]
  Reqs,           \* slots for handlers in flight
  Calls,          \* the operations that clients use
  Instants,       \* the readings of the server's clock, in seconds
  Unanswered,     \* bound: requests of one account in flight together
  MaxFlight,      \* bound: seconds for which a handler or the job runs
  AlwaysUp,       \* whether the process is up every night at 01:00
  MaxLogs         \* bound: no removal is asked for after this many inserts

AllCalls ==
  {"checkIn", "checkOut", "create", "update", "remove", "setSchedule",
   "addMember", "removeMember", "removeOrg"}

CreateBody ==
  [in : Nat, out : Nat \cup {None}, skip : BOOLEAN, note : Notes \cup {None}]
UpdateBody ==
  [items : Seq(Session), skip : BOOLEAN \cup {None}, note : Notes \cup {None}]

ASSUME WorkLogAssumption ==
  /\ None \notin Accounts \cup Orgs /\ None \notin Notes /\ None \notin BOOLEAN
  /\ Schedules \subseteq Schedule /\ Schedules # {}
  /\ CreateBodies \subseteq CreateBody
  /\ \A b \in UpdateBodies : b \in UpdateBody
  /\ Calls \subseteq AllCalls
  /\ Instants \subseteq Nat /\ Instants # {}
  /\ Unanswered \in Nat /\ MaxFlight \in Nat /\ MaxLogs \in Nat
  /\ AlwaysUp \in BOOLEAN

VARIABLES
  now,      \* the server's clock
  logs,     \* the collection: a function from the ids of its documents
  nextId,   \* ObjectIds are never given twice
  orgs,     \* the organizations
  lastOrg,  \* UserRef.lastWorkLogOrganization of each account
  req,      \* the handlers in flight
  cron      \* the nightly job

vars == <<now, logs, nextId, orgs, lastOrg, req, cron>>

NoReq ==
  [pc |-> "idle", since |-> 0, acct |-> None, org |-> None, day |-> 0,
   id |-> 0, items |-> <<>>, skip |-> None, note |-> None, lunch |-> 0,
   hours |-> 0]

NoCron ==
  [pc |-> "idle", ran |-> None, since |-> 0, todo |-> <<>>, id |-> 0,
   schedule |-> DefaultSchedule]

Init ==
  /\ now \in Instants /\ \A t \in Instants : now <= t
  /\ logs = <<>>
  /\ nextId = 1
  /\ orgs \in [Orgs -> [alive : {TRUE}, members : {Accounts},
                        schedule : Schedules]]
  /\ lastOrg = [a \in Accounts |-> None]
  /\ req = [r \in Reqs |-> NoReq]
  /\ cron = NoCron

-----------------------------------------------------------------------------
(* The collection.                                                         *)

(* The document that findOne({account, organization, date}) may return.    *)
LogsOf(a, o, d) ==
  {id \in DOMAIN logs : logs[id].acct = a /\ logs[id].org = o /\ logs[id].day = d}

(* The unique index on (account, organization, date).                      *)
IndexNotUnique(a, o, d) == FALSE
KeyTaken(a, o, d) == LogsOf(a, o, d) # {}

Document(a, o, d, items, hours, skip, note) ==
  [acct |-> a, org |-> o, day |-> d, items |-> items, hours |-> hours,
   skip |-> skip, note |-> note]

Inserted(doc) ==
  [id \in DOMAIN logs \cup {nextId} |-> IF id = nextId THEN doc ELSE logs[id]]

(* $set of the fields of a log that change; nothing if the log is gone.    *)
Updated(id, items, hours, skip, note) ==
  [i \in DOMAIN logs |->
     IF i # id THEN logs[i]
     ELSE Document(logs[i].acct, logs[i].org, logs[i].day, items, hours, skip,
                   IF note = None THEN logs[i].note ELSE note)]

-----------------------------------------------------------------------------
(* Handlers.                                                               *)

Idle(r) == req[r].pc = "idle"
Finish(r) == req' = [req EXCEPT ![r] = NoReq]

(* setLastWorkLogOrganization is not awaited: the answer is out by then.   *)
Waiting(a) == {r \in Reqs : req[r].acct = a /\ req[r].pc # "setLast"}

Arrive(r, call, a, q) ==
  /\ call \in Calls /\ Idle(r)
  /\ Cardinality(Waiting(a)) < Unanswered
  /\ req' = [req EXCEPT ![r] = [q EXCEPT !.since = now, !.acct = a]]
  /\ UNCHANGED <<now, logs, nextId, orgs, lastOrg, cron>>

(* ClockService.checkIn: today's bounds are taken on arrival ...           *)
CallCheckIn(r, a, o, n) ==
  Arrive(r, "checkIn", a,
         [NoReq EXCEPT !.pc = "checkIn", !.org = o, !.day = Day(now), !.note = n])

(* ... and what the query for today's log finds decides.                   *)
CheckInFromMidnight(r) ==
  LET q == req[r] found == LogsOf(q.acct, q.org, q.day) IN
  /\ q.pc = "checkIn"
  /\ \/ /\ found = {}
        /\ req' = [req EXCEPT ![r] =
             [q EXCEPT !.pc = "create", !.skip = FALSE,
                       !.items = <<[in |-> q.day * DaySeconds, out |-> None]>>]]
     \/ \E id \in found :
          IF HasOpen(logs[id].items) THEN Finish(r)
          ELSE req' = [req EXCEPT ![r] =
                 [q EXCEPT !.pc = "update", !.id = id,
                    !.items = Append(logs[id].items,
                                [in |-> q.day * DaySeconds, out |-> None])]]
  /\ UNCHANGED <<now, logs, nextId, orgs, lastOrg, cron>>
CheckInWithoutOpenTest(r) ==
  LET q == req[r] found == LogsOf(q.acct, q.org, q.day)
      session == [in |-> now, out |-> None] IN
  /\ q.pc = "checkIn"
  /\ \/ /\ found = {}
        /\ req' = [req EXCEPT ![r] = [q EXCEPT !.pc = "create", !.skip = FALSE,
                                               !.items = <<session>>]]
     \/ \E id \in found :
          req' = [req EXCEPT ![r] =
                    [q EXCEPT !.pc = "update", !.id = id,
                              !.items = Append(logs[id].items, session)]]
  /\ UNCHANGED <<now, logs, nextId, orgs, lastOrg, cron>>
CheckInFindLog(r) ==
  LET q == req[r]
      found == LogsOf(q.acct, q.org, q.day)
      session == [in |-> now, out |-> None] IN
  /\ q.pc = "checkIn"
  /\ \/ /\ found = {}
        /\ req' = [req EXCEPT ![r] = [q EXCEPT !.pc = "create", !.skip = FALSE,
                                               !.items = <<session>>]]
     \/ \E id \in found :
          LET items == logs[id].items IN
          IF items # <<>> /\ ~Closed(Last(items))
          THEN Finish(r)  \* 400: check out first
          ELSE req' = [req EXCEPT ![r] = [q EXCEPT !.pc = "update", !.id = id,
                                            !.items = Append(items, session)]]
  /\ UNCHANGED <<now, logs, nextId, orgs, lastOrg, cron>>

(* ClockService.checkOut.                                                  *)
CallCheckOut(r, a, o, n) ==
  Arrive(r, "checkOut", a,
         [NoReq EXCEPT !.pc = "checkOut", !.org = o, !.day = Day(now), !.note = n])

CheckOutWithLastOnly(r) ==
  LET q == req[r]
      found == LogsOf(q.acct, q.org, q.day) IN
  /\ q.pc = "checkOut"
  /\ \/ found = {} /\ Finish(r)
     \/ \E id \in found :
          LET last == Last(logs[id].items) IN
          IF Closed(last) THEN Finish(r)
          ELSE req' = [req EXCEPT ![r] =
                 [q EXCEPT !.pc = "update", !.id = id,
                           !.items = <<[in |-> last.in, out |-> now]>>]]
  /\ UNCHANGED <<now, logs, nextId, orgs, lastOrg, cron>>
CheckOutFindLog(r) ==
  LET q == req[r]
      found == LogsOf(q.acct, q.org, q.day) IN
  /\ q.pc = "checkOut"
  /\ \/ found = {} /\ Finish(r)  \* 404: no check-in today
     \/ \E id \in found :
          LET items == logs[id].items IN
          IF items = <<>> \/ Closed(Last(items))
          THEN Finish(r)  \* 400: nothing to close
          ELSE req' = [req EXCEPT ![r] =
                         [q EXCEPT !.pc = "update", !.id = id,
                                   !.items = EndLast(items, now)]]
  /\ UNCHANGED <<now, logs, nextId, orgs, lastOrg, cron>>

(* WorkLogService.create.                                                  *)
CallCreate(r, a, o, b) ==
  Arrive(r, "create", a,
         [NoReq EXCEPT !.pc = "create", !.org = o, !.skip = b.skip, !.note = b.note,
                       !.items = <<[in |-> b.in, out |-> b.out]>>])

InFuture(t) == t > (Day(now) + 1) * DaySeconds

CreateReadOrg(r) ==
  LET q == req[r]
      s == q.items[1]
      refused ==
        \/ ~orgs[q.org].alive                                \* 404
        \/ q.acct \notin orgs[q.org].members                 \* 403
        \/ InFuture(s.in)                                    \* 400
        \/ Closed(s) /\ (Day(s.in) # Day(s.out) \/ s.out <= s.in) IN
  /\ q.pc = "create"
  /\ IF refused THEN Finish(r)
     ELSE req' = [req EXCEPT ![r] = [q EXCEPT !.pc = "existing",
                                       !.lunch = orgs[q.org].schedule.lunch]]
  /\ UNCHANGED <<now, logs, nextId, orgs, lastOrg, cron>>

CreateFindExisting(r) ==
  LET q == req[r] IN
  /\ q.pc = "existing"
  /\ IF LogsOf(q.acct, q.org, Day(q.items[1].in)) # {}
     THEN Finish(r)  \* 400: already exists
     ELSE req' = [req EXCEPT ![r] = [q EXCEPT !.pc = "insert",
                    !.hours = WorkedHoursByDay(q.items, q.lunch, q.skip)]]
  /\ UNCHANGED <<now, logs, nextId, orgs, lastOrg, cron>>

(* The date of the log is the day of its check-in.                         *)
DateOfServer(q) == Day(now)
DateOfLog(q) == Day(q.items[1].in)

CreateInsert(r) ==
  LET q == req[r]
      doc == Document(q.acct, q.org, DateOfLog(q), q.items, q.hours, q.skip,
                      IF q.note = None THEN <<>> ELSE q.note) IN
  /\ q.pc = "insert"
  /\ IF KeyTaken(doc.acct, doc.org, doc.day)
     THEN Finish(r) /\ UNCHANGED <<logs, nextId>>  \* 500: duplicate key
     ELSE /\ logs' = Inserted(doc)
          /\ nextId' = nextId + 1
          /\ req' = [req EXCEPT ![r].pc = "setLast"]
  /\ UNCHANGED <<now, orgs, lastOrg, cron>>

(* The void promise after the insert: UserRefService.patch.                *)
SetLastOrganization(r) ==
  /\ req[r].pc = "setLast"
  /\ lastOrg' = [lastOrg EXCEPT ![req[r].acct] = req[r].org]
  /\ Finish(r)
  /\ UNCHANGED <<now, logs, nextId, orgs, cron>>

(* WorkLogService.update, from PATCH /work-log/:id or from the clock.      *)
CallUpdate(r, a, id, b) ==
  Arrive(r, "update", a,
         [NoReq EXCEPT !.pc = "update", !.id = id, !.items = b.items,
                       !.skip = b.skip, !.note = b.note])

UpdateAnybodysLog(r) ==
  LET q == req[r] IN
  /\ q.pc = "update"
  /\ IF q.id \notin DOMAIN logs
     THEN Finish(r)
     ELSE req' = [req EXCEPT ![r] =
            [q EXCEPT !.pc = "updateOrg", !.org = logs[q.id].org,
                      !.skip = IF q.skip = None THEN logs[q.id].skip ELSE q.skip]]
  /\ UNCHANGED <<now, logs, nextId, orgs, lastOrg, cron>>
UpdateWithUndefinedFlag(r) ==
  LET q == req[r] IN
  /\ q.pc = "update"
  /\ IF q.id \notin DOMAIN logs \/ logs[q.id].acct # q.acct
     THEN Finish(r)
     ELSE req' = [req EXCEPT ![r].pc = "updateOrg", ![r].org = logs[q.id].org]
  /\ UNCHANGED <<now, logs, nextId, orgs, lastOrg, cron>>
UpdateFindLog(r) ==
  LET q == req[r] IN
  /\ q.pc = "update"
  /\ IF q.id \notin DOMAIN logs \/ logs[q.id].acct # q.acct
     THEN Finish(r)  \* 404, 403
     ELSE req' = [req EXCEPT ![r] =
            [q EXCEPT !.pc = "updateOrg", !.org = logs[q.id].org,
                      !.skip = IF q.skip = None THEN logs[q.id].skip ELSE q.skip]]
  /\ UNCHANGED <<now, logs, nextId, orgs, lastOrg, cron>>

(* items.some((i) => i.checkOut && i.checkOut <= i.checkIn)                *)
NothingRejected(items) == FALSE
Rejected(items) ==
  \E k \in DOMAIN items : Closed(items[k]) /\ items[k].out <= items[k].in

UpdateReadOrg(r) ==
  LET q == req[r] IN
  /\ q.pc = "updateOrg"
  /\ IF ~orgs[q.org].alive \/ Rejected(q.items)
     THEN Finish(r)  \* 404, 400
     ELSE req' = [req EXCEPT ![r] =
            [q EXCEPT !.pc = "write",
                      !.hours = WorkedHoursByDay(q.items,
                                  orgs[q.org].schedule.lunch, q.skip)]]
  /\ UNCHANGED <<now, logs, nextId, orgs, lastOrg, cron>>

UpdateWriteItemsOnly(r) ==
  LET q == req[r] IN
  /\ q.pc = "write"
  /\ logs' = [i \in DOMAIN logs |->
       IF i # q.id THEN logs[i] ELSE [logs[i] EXCEPT !.items = q.items]]
  /\ Finish(r)
  /\ UNCHANGED <<now, nextId, orgs, lastOrg, cron>>
UpdateWrite(r) ==
  LET q == req[r] IN
  /\ q.pc = "write"
  /\ logs' = Updated(q.id, q.items, q.hours, q.skip, q.note)
  /\ Finish(r)
  /\ UNCHANGED <<now, nextId, orgs, lastOrg, cron>>

(* WorkLogService.remove.                                                  *)
CallRemove(r, a, id) ==
  /\ nextId <= MaxLogs
  /\ Arrive(r, "remove", a, [NoReq EXCEPT !.pc = "remove", !.id = id])

RemoveFindLog(r) ==
  LET q == req[r] IN
  /\ q.pc = "remove"
  /\ IF q.id \notin DOMAIN logs \/ logs[q.id].acct # q.acct
     THEN Finish(r)
     ELSE req' = [req EXCEPT ![r].pc = "delete"]
  /\ UNCHANGED <<now, logs, nextId, orgs, lastOrg, cron>>

RemoveDelete(r) ==
  /\ req[r].pc = "delete"
  /\ logs' = [i \in DOMAIN logs \ {req[r].id} |-> logs[i]]
  /\ Finish(r)
  /\ UNCHANGED <<now, nextId, orgs, lastOrg, cron>>

-----------------------------------------------------------------------------
(* The nightly job: WorkLogScheduler at 01:00, autoCheckoutMissed.         *)

CronTime(t) == t % DaySeconds = 3600
CronDue == CronTime(now) /\ cron.ran # Day(now)

Today(day) == day = Day(now)
TodayToo(day) == day \in {Day(now) - 1, Day(now)}
Missed(day) == day = Day(now) - 1

CronFind ==
  LET found == {id \in DOMAIN logs : Missed(logs[id].day) /\ HasOpen(logs[id].items)} IN
  /\ cron.pc = "idle" /\ CronDue
  /\ cron' = [NoCron EXCEPT !.pc = IF found = {} THEN "idle" ELSE "org",
                            !.ran = Day(now), !.since = now,
                            !.todo = [id \in found |-> logs[id]]]
  /\ UNCHANGED <<now, logs, nextId, orgs, lastOrg, req>>

CronReadOrg(id) ==
  LET o == orgs[cron.todo[id].org] IN
  /\ cron.pc = "org"
  /\ cron' = [cron EXCEPT !.pc = "save", !.id = id,
                !.schedule = IF o.alive THEN o.schedule ELSE DefaultSchedule]
  /\ UNCHANGED <<now, logs, nextId, orgs, lastOrg, req>>

(* log.save() sets the items and the hours, computed from the document     *)
(* that find returned, and fails (caught) if the log is gone.              *)
CronSave ==
  LET log == cron.todo[cron.id]
      items == AutoClose(log.items, cron.schedule, log.skip)
      hours == WorkedHoursByDay(items, cron.schedule.lunch, log.skip)
      left == DOMAIN cron.todo \ {cron.id} IN
  /\ cron.pc = "save"
  /\ logs' = [i \in DOMAIN logs |->
       IF i # cron.id THEN logs[i]
       ELSE Document(logs[i].acct, logs[i].org, logs[i].day, items, hours,
                     logs[i].skip, logs[i].note)]
  /\ cron' = [NoCron EXCEPT !.pc = IF left = {} THEN "idle" ELSE "org",
                            !.ran = cron.ran, !.since = cron.since,
                            !.todo = [id \in left |-> cron.todo[id]]]
  /\ UNCHANGED <<now, nextId, orgs, lastOrg, req>>

-----------------------------------------------------------------------------
(* The writes of OrganizationService that these handlers can observe.      *)

ChangeOrg(call, o, doc) ==
  /\ call \in Calls /\ orgs[o].alive
  /\ orgs' = [orgs EXCEPT ![o] = doc]
  /\ UNCHANGED <<now, logs, nextId, lastOrg, req, cron>>

SetSchedule(o, s) ==
  ChangeOrg("setSchedule", o, [orgs[o] EXCEPT !.schedule = s])
AddMember(o, a) ==
  ChangeOrg("addMember", o, [orgs[o] EXCEPT !.members = @ \cup {a}])
RemoveMember(o, a) ==
  ChangeOrg("removeMember", o, [orgs[o] EXCEPT !.members = @ \ {a}])
RemoveOrg(o) ==
  ChangeOrg("removeOrg", o, [orgs[o] EXCEPT !.alive = FALSE])

(* The clock moves to its next reading, unless that keeps a handler or the *)
(* nightly job running for too long.  It passes 01:00 without the job only *)
(* if the process may be down.                                             *)
Tick ==
  \E t \in Instants :
    /\ t > now /\ \A u \in Instants : u > now => t <= u
    /\ \A r \in Reqs : Idle(r) \/ t - req[r].since <= MaxFlight
    /\ cron.pc = "idle" \/ t - cron.since <= MaxFlight
    /\ ~(AlwaysUp /\ CronDue)
    /\ now' = t
    /\ UNCHANGED <<logs, nextId, orgs, lastOrg, req, cron>>

-----------------------------------------------------------------------------
CallStep(r) ==
  \E a \in Accounts :
    \/ \E o \in Orgs, n \in Notes \cup {None} :
         CallCheckIn(r, a, o, n) \/ CallCheckOut(r, a, o, n)
    \/ \E o \in Orgs, b \in CreateBodies : CallCreate(r, a, o, b)
    \/ \E id \in DOMAIN logs :
         \/ CallRemove(r, a, id)
         \/ \E b \in UpdateBodies : CallUpdate(r, a, id, b)

HandlerStep(r) ==
  \/ CheckInFindLog(r) \/ CheckOutFindLog(r)
  \/ CreateReadOrg(r) \/ CreateFindExisting(r) \/ CreateInsert(r)
  \/ SetLastOrganization(r)
  \/ UpdateFindLog(r) \/ UpdateReadOrg(r) \/ UpdateWrite(r)
  \/ RemoveFindLog(r) \/ RemoveDelete(r)

CronStep == CronFind \/ (\E id \in DOMAIN cron.todo : CronReadOrg(id)) \/ CronSave

OrgStep ==
  \E o \in Orgs :
    \/ \E s \in Schedules : SetSchedule(o, s)
    \/ \E a \in Accounts : AddMember(o, a) \/ RemoveMember(o, a)
    \/ RemoveOrg(o)

Next ==
  \/ \E r \in Reqs : CallStep(r) \/ HandlerStep(r)
  \/ CronStep \/ OrgStep \/ Tick

Spec == Init /\ [][Next]_vars

-----------------------------------------------------------------------------
(* Correctness.                                                            *)

Pcs == {"idle", "checkIn", "checkOut", "create", "existing", "insert",
        "setLast", "update", "updateOrg", "write", "remove", "delete"}

LogFields == {"acct", "org", "day", "items", "hours", "skip", "note"}

LogOK(l) ==
  /\ DOMAIN l = LogFields
  /\ l.acct \in Accounts /\ l.org \in Orgs /\ l.day \in Nat
  /\ l.items \in Seq(Session) /\ l.skip \in BOOLEAN

ReqOK(q) ==
  /\ DOMAIN q = DOMAIN NoReq
  /\ q.pc \in Pcs /\ q.since \in Nat /\ q.day \in Nat /\ q.id \in Nat
  /\ q.pc # "idle" => q.acct \in Accounts
  /\ q.pc \in {"checkIn", "checkOut", "create", "existing", "insert", "setLast",
              "updateOrg", "write"} => q.org \in Orgs
  /\ q.items \in Seq(Session)
  /\ q.pc \in {"create", "existing", "insert"} => Len(q.items) = 1
  /\ q.skip \in BOOLEAN \cup {None}
  /\ q.pc \in {"create", "existing", "insert", "updateOrg", "write"}
       => q.skip \in BOOLEAN
  /\ q.note \in Notes \cup {None}

Ids == 1 .. nextId - 1  \* the ids given out so far

NotesOK == \A id \in DOMAIN logs : logs[id].note \in Notes \cup {<<>>}

LogsOK == DOMAIN logs \subseteq Ids /\ \A id \in DOMAIN logs : LogOK(logs[id])

OrgsOK ==
  /\ orgs \in [Orgs -> [alive : BOOLEAN, members : SUBSET Accounts,
                        schedule : Schedules]]
  /\ lastOrg \in [Accounts -> Orgs \cup {None}]

ReqsOK ==
  DOMAIN req = Reqs /\ \A r \in Reqs : ReqOK(req[r]) /\ req[r].id \in Ids \cup {0}

CronOK ==
  /\ DOMAIN cron = DOMAIN NoCron
  /\ cron.pc \in {"idle", "org", "save"}
  /\ cron.since \in Nat /\ cron.ran \in Nat \cup {None}
  /\ DOMAIN cron.todo \subseteq Ids
  /\ \A id \in DOMAIN cron.todo :
       LogOK(cron.todo[id]) /\ HasOpen(cron.todo[id].items)
  /\ cron.pc = "save" => cron.id \in DOMAIN cron.todo
  /\ cron.schedule \in Schedules \cup {DefaultSchedule}

StateOK ==
  now \in Nat /\ nextId \in Nat \ {0} /\ LogsOK /\ OrgsOK /\ ReqsOK /\ CronOK

(* The collections and the handlers' local variables are well formed: no   *)
(* handler writes an organization, an owner or a flag it has not read yet, *)
(* no handler knows an id that was not given out, the nightly job has a    *)
(* session to close in every log it took, and a note came from a client.   *)
TypeOK == StateOK /\ NotesOK

(* At most one log per account, organization and day, although check-in    *)
(* and create look for an existing log several awaits before they insert.  *)
UniqueLogPerDay ==
  \A i, j \in DOMAIN logs :
    /\ logs[i].acct = logs[j].acct
    /\ logs[i].org = logs[j].org
    /\ logs[i].day = logs[j].day
    => i = j

(* Sessions as the clock produces them: only the last one may be open, and *)
(* a closed one ends after it starts.  The clock decides on the last item  *)
(* alone, so an open session before it would never be closed.              *)
OpenLast(items) == \A k \in DOMAIN items : ~Closed(items[k]) => k = Len(items)
EndAfterStart(items) ==
  \A k \in DOMAIN items : Closed(items[k]) => items[k].out > items[k].in
WellFormed(items) == OpenLast(items) /\ EndAfterStart(items)

OnlyLastSessionOpen == \A id \in DOMAIN logs : WellFormed(logs[id].items)

(* Sessions of a log do not overlap, although a check-in or a check-out    *)
(* may write the items it read before another one wrote.                   *)
Ordered(items) ==
  \A j, k \in DOMAIN items :
    j < k => Closed(items[j]) /\ items[j].out <= items[k].in

SessionsDoNotOverlap == \A id \in DOMAIN logs : Ordered(logs[id].items)

(* A log carries the date of its first check-in, also when the request     *)
(* arrived before midnight and was served after it.                        *)
DatedByFirstCheckIn ==
  \A id \in DOMAIN logs :
    logs[id].items # <<>> => logs[id].day = Day(logs[id].items[1].in)

(* Hours are what getWorkedHoursByDay returns for the items and the flag   *)
(* stored beside them, under the lunch break of some schedule.             *)
HoursMatch(l) ==
  \E s \in Schedules \cup {DefaultSchedule} :
    l.hours = WorkedHoursByDay(l.items, s.lunch, l.skip)

HoursMatchItems == \A id \in DOMAIN logs : HoursMatch(logs[id])

(* A handler changes or deletes only logs of the account it serves.        *)
OnlyOwnersWrite ==
  [][\A r \in Reqs : \A id \in DOMAIN logs :
       /\ req'[r] # req[r]
       /\ id \in DOMAIN logs' => logs'[id] # logs[id]
       => logs[id].acct = req[r].acct]_vars

=============================================================================
