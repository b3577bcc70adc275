---------------------------- MODULE WorkLogProofs ----------------------------
(***************************************************************************)
(* Theorems about WorkLog for any number of accounts, organizations,       *)
(* handlers in flight, instants and request bodies.                        *)
(***************************************************************************)
EXTENDS WorkLog, TLAPS

-----------------------------------------------------------------------------
(* The sessions of a day.                                                  *)

LEMMA EndLastType ==
  ASSUME NEW items \in Seq(Session), items # <<>>, NEW t \in Int
  PROVE  /\ EndLast(items, t) \in Seq(Session)
         /\ Len(EndLast(items, t)) = Len(items)
         /\ \A k \in 1 .. Len(items) :
              EndLast(items, t)[k] = IF k = Len(items)
                                     THEN [in |-> items[k].in, out |-> t]
                                     ELSE items[k]
<1> DEFINE n == Len(items)
           last == items[n]
<1>1. n \in Nat \ {0} /\ last \in Session
  OBVIOUS
<1>2. [last EXCEPT !.out = t] = [in |-> last.in, out |-> t]
  BY <1>1 DEF Session
<1>3. [in |-> last.in, out |-> t] \in Session
  BY <1>1 DEF Session
<1>4. EndLast(items, t) = [items EXCEPT ![n] = [in |-> last.in, out |-> t]]
  BY <1>2 DEF EndLast
<1> QED
  BY <1>1, <1>3, <1>4

-----------------------------------------------------------------------------
(* Type correctness.                                                       *)

LEMMA DayNat == \A t \in Nat : Day(t) \in Nat
  BY DEF Day, DaySeconds

LEMMA NoReqOK == ReqOK(NoReq) /\ NoReq.id = 0
  BY DEF NoReq, ReqOK, Pcs

LEMMA NoCronTodo == NoCron.todo = <<>> /\ DOMAIN NoCron.todo = {}
  BY DEF NoCron

LEMMA StateInit == Init => StateOK
<1> SUFFICES ASSUME Init PROVE StateOK
  OBVIOUS
<1>1. now \in Nat /\ nextId \in Nat \ {0}
  BY WorkLogAssumption DEF Init
<1>2. LogsOK
  BY DEF Init, LogsOK
<1>3. OrgsOK
  BY DEF Init, OrgsOK
<1>4. ReqsOK
  BY NoReqOK DEF Init, ReqsOK, NoReq
<1>5. CronOK
  BY NoCronTodo DEF Init, CronOK, NoCron
<1> QED
  BY <1>1, <1>2, <1>3, <1>4, <1>5 DEF StateOK

(* A step that only moves its own slot keeps the types if the slot's new   *)
(* local state is well formed.                                             *)
LEMMA SlotStep ==
  ASSUME StateOK, NEW r \in Reqs, NEW q, ReqOK(q), q.id \in Ids \cup {0},
         req' = [req EXCEPT ![r] = q],
         UNCHANGED <<now, logs, nextId, orgs, lastOrg, cron>>
  PROVE  StateOK'
<1>1. ReqsOK'
  BY DEF StateOK, ReqsOK, Ids
<1>2. LogsOK' /\ OrgsOK' /\ CronOK'
  BY DEF StateOK, LogsOK, OrgsOK, CronOK, Ids
<1> QED
  BY <1>1, <1>2 DEF StateOK

LEMMA FinishStep ==
  ASSUME StateOK, NEW r \in Reqs, Finish(r),
         UNCHANGED <<now, logs, nextId, orgs, lastOrg, cron>>
  PROVE  StateOK'
  BY NoReqOK, SlotStep DEF Finish

LEMMA ReqType ==
  ASSUME StateOK, NEW r \in Reqs
  PROVE  ReqOK(req[r]) /\ req[r].id \in Ids \cup {0}
  BY DEF StateOK, ReqsOK

LEMMA LogType ==
  ASSUME StateOK, NEW id \in DOMAIN logs
  PROVE  LogOK(logs[id]) /\ id \in Ids
  BY DEF StateOK, LogsOK

LEMMA ArriveType ==
  ASSUME StateOK, NEW r \in Reqs, NEW call, NEW a \in Accounts, NEW q,
         Arrive(r, call, a, q), DOMAIN q = DOMAIN NoReq,
         ReqOK([q EXCEPT !.since = now, !.acct = a]), q.id \in Ids \cup {0}
  PROVE  StateOK'
<1> DEFINE p == [q EXCEPT !.since = now, !.acct = a]
<1>1. ReqOK(p) /\ p.id \in Ids \cup {0}
  BY DEF NoReq
<1> QED
  BY <1>1, SlotStep DEF Arrive

LEMMA CallType ==
  ASSUME StateOK, NEW r \in Reqs, CallStep(r)
  PROVE  StateOK'
<1>0. now \in Nat /\ Day(now) \in Nat
  BY DayNat DEF StateOK
<1>1. ASSUME NEW a \in Accounts, NEW o \in Orgs, NEW n \in Notes \cup {None},
             CallCheckIn(r, a, o, n)
      PROVE  StateOK'
  <2> DEFINE q == [NoReq EXCEPT !.pc = "checkIn", !.org = o, !.day = Day(now), !.note = n]
  <2>1. /\ ReqOK([q EXCEPT !.since = now, !.acct = a])
        /\ DOMAIN q = DOMAIN NoReq /\ q.id = 0
    BY <1>0 DEF NoReq, ReqOK, Pcs
  <2> QED
    BY <1>1, <2>1, ArriveType DEF CallCheckIn
<1>2. ASSUME NEW a \in Accounts, NEW o \in Orgs, NEW n \in Notes \cup {None},
             CallCheckOut(r, a, o, n)
      PROVE  StateOK'
  <2> DEFINE q == [NoReq EXCEPT !.pc = "checkOut", !.org = o, !.day = Day(now), !.note = n]
  <2>1. /\ ReqOK([q EXCEPT !.since = now, !.acct = a])
        /\ DOMAIN q = DOMAIN NoReq /\ q.id = 0
    BY <1>0 DEF NoReq, ReqOK, Pcs
  <2> QED
    BY <1>2, <2>1, ArriveType DEF CallCheckOut
<1>3. ASSUME NEW a \in Accounts, NEW o \in Orgs, NEW b \in CreateBodies,
             CallCreate(r, a, o, b)
      PROVE  StateOK'
  <2> DEFINE items == <<[in |-> b.in, out |-> b.out]>>
             q == [NoReq EXCEPT !.pc = "create", !.org = o, !.skip = b.skip,
                                !.note = b.note, !.items = items]
  <2>1. /\ items \in Seq(Session) /\ Len(items) = 1
        /\ b.skip \in BOOLEAN /\ b.note \in Notes \cup {None}
    BY WorkLogAssumption DEF CreateBody, Session
  <2>2. /\ ReqOK([q EXCEPT !.since = now, !.acct = a])
        /\ DOMAIN q = DOMAIN NoReq /\ q.id = 0
    BY <1>0, <2>1 DEF NoReq, ReqOK, Pcs
  <2> QED
    BY <1>3, <2>2, ArriveType DEF CallCreate
<1>4. ASSUME NEW a \in Accounts, NEW id \in DOMAIN logs, CallRemove(r, a, id)
      PROVE  StateOK'
  <2> DEFINE q == [NoReq EXCEPT !.pc = "remove", !.id = id]
  <2>1. id \in Ids /\ id \in Nat
    BY LogType DEF Ids
  <2>2. /\ ReqOK([q EXCEPT !.since = now, !.acct = a])
        /\ DOMAIN q = DOMAIN NoReq /\ q.id = id
    BY <1>0, <2>1 DEF NoReq, ReqOK, Pcs
  <2> QED
    BY <1>4, <2>1, <2>2, ArriveType DEF CallRemove
<1>5. ASSUME NEW a \in Accounts, NEW id \in DOMAIN logs, NEW b \in UpdateBodies,
             CallUpdate(r, a, id, b)
      PROVE  StateOK'
  <2> DEFINE q == [NoReq EXCEPT !.pc = "update", !.id = id, !.items = b.items,
                                !.skip = b.skip, !.note = b.note]
  <2>1. id \in Ids /\ id \in Nat
    BY LogType DEF Ids
  <2>2. /\ b.items \in Seq(Session) /\ b.skip \in BOOLEAN \cup {None}
        /\ b.note \in Notes \cup {None}
    BY WorkLogAssumption DEF UpdateBody
  <2>3. /\ ReqOK([q EXCEPT !.since = now, !.acct = a])
        /\ DOMAIN q = DOMAIN NoReq /\ q.id = id
    BY <1>0, <2>1, <2>2 DEF NoReq, ReqOK, Pcs
  <2> QED
    BY <1>5, <2>1, <2>3, ArriveType DEF CallUpdate
<1> QED
  BY <1>1, <1>2, <1>3, <1>4, <1>5 DEF CallStep

LEMMA CheckInType ==
  ASSUME StateOK, NEW r \in Reqs, CheckInFindLog(r)
  PROVE  StateOK'
<1> DEFINE q == req[r]
           found == LogsOf(q.acct, q.org, q.day)
           session == [in |-> now, out |-> None]
<1>0. /\ ReqOK(q) /\ q.id \in Ids \cup {0}
      /\ q.pc = "checkIn" /\ session \in Session
  BY ReqType DEF StateOK, CheckInFindLog, Session
<1>1. CASE req' = [req EXCEPT ![r] =
                     [q EXCEPT !.pc = "create", !.skip = FALSE, !.items = <<session>>]]
  <2> DEFINE p == [q EXCEPT !.pc = "create", !.skip = FALSE, !.items = <<session>>]
  <2>1. ReqOK(p) /\ p.id = q.id
    BY <1>0 DEF ReqOK, Pcs, NoReq
  <2> QED
    BY <2>1, <1>0, <1>1, SlotStep DEF CheckInFindLog
<1>2. CASE Finish(r)
  BY <1>2, FinishStep DEF CheckInFindLog
<1>3. ASSUME NEW id \in found,
             req' = [req EXCEPT ![r] =
                       [q EXCEPT !.pc = "update", !.id = id,
                                 !.items = Append(logs[id].items, session)]]
      PROVE  StateOK'
  <2> DEFINE p == [q EXCEPT !.pc = "update", !.id = id,
                            !.items = Append(logs[id].items, session)]
  <2>1. id \in Ids /\ id \in Nat /\ Append(logs[id].items, session) \in Seq(Session)
    BY <1>0, LogType DEF LogsOf, LogOK, Ids
  <2>2. ReqOK(p) /\ p.id = id
    BY <1>0, <2>1 DEF ReqOK, Pcs, NoReq
  <2> QED
    BY <2>1, <2>2, <1>3, SlotStep DEF CheckInFindLog
<1> QED
  BY <1>1, <1>2, <1>3 DEF CheckInFindLog

LEMMA CheckOutType ==
  ASSUME StateOK, NEW r \in Reqs, CheckOutFindLog(r)
  PROVE  StateOK'
<1> DEFINE q == req[r]
           found == LogsOf(q.acct, q.org, q.day)
           closed(id) == EndLast(logs[id].items, now)
<1>0. ReqOK(q) /\ q.id \in Ids \cup {0} /\ q.pc = "checkOut" /\ now \in Nat
  BY ReqType DEF StateOK, CheckOutFindLog
<1>1. CASE Finish(r)
  BY <1>1, FinishStep DEF CheckOutFindLog
<1>2. ASSUME NEW id \in found, logs[id].items # <<>>,
             req' = [req EXCEPT ![r] =
                       [q EXCEPT !.pc = "update", !.id = id, !.items = closed(id)]]
      PROVE  StateOK'
  <2> DEFINE p == [q EXCEPT !.pc = "update", !.id = id, !.items = closed(id)]
  <2>1. id \in Ids /\ id \in Nat /\ logs[id].items \in Seq(Session)
    BY LogType DEF LogsOf, LogOK, Ids
  <2>2. closed(id) \in Seq(Session)
    BY <2>1, <1>0, <1>2, EndLastType
  <2>3. ReqOK(p) /\ p.id = id
    BY <1>0, <2>1, <2>2 DEF ReqOK, Pcs, NoReq
  <2> QED
    BY <2>1, <2>3, <1>2, SlotStep DEF CheckOutFindLog
<1> QED
  BY <1>1, <1>2 DEF CheckOutFindLog

LEMMA CreateType ==
  ASSUME StateOK, NEW r \in Reqs, CreateReadOrg(r) \/ CreateFindExisting(r)
  PROVE  StateOK'
<1> DEFINE q == req[r]
<1>0. ReqOK(q) /\ q.id \in Ids \cup {0}
  BY ReqType
<1>1. CASE Finish(r)
  BY <1>1, FinishStep DEF CreateReadOrg, CreateFindExisting
<1>2. ASSUME q.pc = "create",
             req' = [req EXCEPT ![r] = [q EXCEPT !.pc = "existing",
                                          !.lunch = orgs[q.org].schedule.lunch]]
      PROVE  StateOK'
  <2> DEFINE p == [q EXCEPT !.pc = "existing", !.lunch = orgs[q.org].schedule.lunch]
  <2>1. ReqOK(p) /\ p.id = q.id
    BY <1>0, <1>2 DEF ReqOK, Pcs, NoReq
  <2> QED
    BY <2>1, <1>0, <1>2, SlotStep DEF CreateReadOrg, CreateFindExisting
<1>3. ASSUME q.pc = "existing",
             req' = [req EXCEPT ![r] = [q EXCEPT !.pc = "insert",
                       !.hours = WorkedHoursByDay(q.items, q.lunch, q.skip)]]
      PROVE  StateOK'
  <2> DEFINE p == [q EXCEPT !.pc = "insert",
                            !.hours = WorkedHoursByDay(q.items, q.lunch, q.skip)]
  <2>1. ReqOK(p) /\ p.id = q.id
    BY <1>0, <1>3 DEF ReqOK, Pcs, NoReq
  <2> QED
    BY <2>1, <1>0, <1>3, SlotStep DEF CreateReadOrg, CreateFindExisting
<1> QED
  BY <1>1, <1>2, <1>3 DEF CreateReadOrg, CreateFindExisting

(* A log that goes into the collection gets a fresh id.                    *)
LEMMA InsertType ==
  ASSUME StateOK, NEW r \in Reqs, CreateInsert(r)
  PROVE  StateOK'
<1> DEFINE q == req[r]
           doc == Document(q.acct, q.org, DateOfLog(q), q.items, q.hours, q.skip,
                           IF q.note = None THEN <<>> ELSE q.note)
<1>0. ReqOK(q) /\ q.id \in Ids \cup {0} /\ q.pc = "insert"
  BY ReqType DEF CreateInsert
<1>1. CASE KeyTaken(doc.acct, doc.org, doc.day)
  BY <1>1, FinishStep DEF CreateInsert
<1>2. CASE ~KeyTaken(doc.acct, doc.org, doc.day)
  <2>1. /\ logs' = Inserted(doc) /\ nextId' = nextId + 1
        /\ req' = [req EXCEPT ![r].pc = "setLast"]
        /\ UNCHANGED <<now, orgs, lastOrg, cron>>
    BY <1>2 DEF CreateInsert
  <2>2. nextId \in Nat \ {0}
    BY DEF StateOK
  <2>3. LogOK(doc)
    <3>1. q.items[1] \in Session
      BY <1>0 DEF ReqOK
    <3>2. DateOfLog(q) \in Nat
      BY <3>1, DayNat DEF Session, DateOfLog
    <3> QED
      BY <1>0, <3>2 DEF ReqOK, LogOK, LogFields, Document
  <2>4. LogsOK'
    BY <2>1, <2>2, <2>3 DEF StateOK, LogsOK, Inserted, Ids
  <2>5. ReqOK([q EXCEPT !.pc = "setLast"]) /\ [q EXCEPT !.pc = "setLast"].id = q.id
    BY <1>0 DEF ReqOK, Pcs, NoReq
  <2>6. ReqsOK'
    BY <2>1, <2>2, <2>5 DEF StateOK, ReqsOK, Ids
  <2>7. OrgsOK' /\ CronOK'
    BY <2>1, <2>2 DEF StateOK, OrgsOK, CronOK, Ids
  <2> QED
    BY <2>1, <2>2, <2>4, <2>6, <2>7 DEF StateOK
<1> QED
  BY <1>1, <1>2

LEMMA SetLastType ==
  ASSUME StateOK, NEW r \in Reqs, SetLastOrganization(r)
  PROVE  StateOK'
<1>1. ReqsOK'
  BY NoReqOK DEF SetLastOrganization, Finish, StateOK, ReqsOK, Ids
<1>2. OrgsOK'
  BY ReqType DEF SetLastOrganization, StateOK, OrgsOK, ReqOK
<1>3. LogsOK' /\ CronOK'
  BY DEF SetLastOrganization, StateOK, LogsOK, CronOK, Ids
<1> QED
  BY <1>1, <1>2, <1>3 DEF SetLastOrganization, StateOK

LEMMA UpdateType ==
  ASSUME StateOK, NEW r \in Reqs, UpdateFindLog(r) \/ UpdateReadOrg(r)
  PROVE  StateOK'
<1> DEFINE q == req[r]
           skip == IF q.skip = None THEN logs[q.id].skip ELSE q.skip
<1>0. ReqOK(q) /\ q.id \in Ids \cup {0}
  BY ReqType
<1>1. CASE Finish(r)
  BY <1>1, FinishStep DEF UpdateFindLog, UpdateReadOrg
<1>2. ASSUME q.pc = "update", q.id \in DOMAIN logs,
             req' = [req EXCEPT ![r] = [q EXCEPT !.pc = "updateOrg",
                       !.org = logs[q.id].org, !.skip = skip]]
      PROVE  StateOK'
  <2> DEFINE p == [q EXCEPT !.pc = "updateOrg", !.org = logs[q.id].org, !.skip = skip]
  <2>1. logs[q.id].org \in Orgs /\ logs[q.id].skip \in BOOLEAN
    BY <1>2, LogType DEF LogOK
  <2>2. skip \in BOOLEAN
    BY <1>0, <2>1 DEF ReqOK
  <2>3. ReqOK(p) /\ p.id = q.id
    BY <1>0, <1>2, <2>1, <2>2 DEF ReqOK, Pcs, NoReq
  <2> QED
    BY <2>3, <1>0, <1>2, SlotStep DEF UpdateFindLog, UpdateReadOrg
<1>3. ASSUME q.pc = "updateOrg",
             req' = [req EXCEPT ![r] = [q EXCEPT !.pc = "write",
                       !.hours = WorkedHoursByDay(q.items,
                                   orgs[q.org].schedule.lunch, q.skip)]]
      PROVE  StateOK'
  <2> DEFINE p == [q EXCEPT !.pc = "write",
                     !.hours = WorkedHoursByDay(q.items,
                                 orgs[q.org].schedule.lunch, q.skip)]
  <2>1. ReqOK(p) /\ p.id = q.id
    BY <1>0, <1>3 DEF ReqOK, Pcs, NoReq
  <2> QED
    BY <2>1, <1>0, <1>3, SlotStep DEF UpdateFindLog, UpdateReadOrg
<1> QED
  BY <1>1, <1>2, <1>3 DEF UpdateFindLog, UpdateReadOrg

(* A step that rewrites or deletes logs and leaves its slot.               *)
LEMMA WriteType ==
  ASSUME StateOK, NEW r \in Reqs, UpdateWrite(r) \/ RemoveDelete(r)
  PROVE  StateOK'
<1> DEFINE q == req[r]
<1>0. ReqOK(q)
  BY ReqType
<1>1. LogsOK'
  <2>1. CASE UpdateWrite(r)
    BY <1>0, <2>1 DEF UpdateWrite, Updated, Document, StateOK, LogsOK, LogOK, LogFields, ReqOK, Ids
  <2>2. CASE RemoveDelete(r)
    BY <2>2 DEF RemoveDelete, StateOK, LogsOK, Ids
  <2> QED
    BY <2>1, <2>2
<1>2. ReqsOK'
  BY NoReqOK DEF UpdateWrite, RemoveDelete, Finish, StateOK, ReqsOK, Ids
<1>3. OrgsOK' /\ CronOK'
  BY DEF UpdateWrite, RemoveDelete, StateOK, OrgsOK, CronOK, Ids
<1> QED
  BY <1>1, <1>2, <1>3 DEF UpdateWrite, RemoveDelete, StateOK

LEMMA RemoveType ==
  ASSUME StateOK, NEW r \in Reqs, RemoveFindLog(r)
  PROVE  StateOK'
<1> DEFINE q == req[r]
<1>1. CASE Finish(r)
  BY <1>1, FinishStep DEF RemoveFindLog
<1>2. CASE req' = [req EXCEPT ![r].pc = "delete"]
  <2>1. ReqOK([q EXCEPT !.pc = "delete"]) /\ [q EXCEPT !.pc = "delete"].id = q.id
    BY ReqType DEF RemoveFindLog, ReqOK, Pcs, NoReq
  <2> QED
    BY <1>2, <2>1, ReqType, SlotStep DEF RemoveFindLog
<1> QED
  BY <1>1, <1>2 DEF RemoveFindLog

LEMMA HandlerType ==
  ASSUME StateOK, NEW r \in Reqs, HandlerStep(r)
  PROVE  StateOK'
  BY CheckInType, CheckOutType, CreateType, InsertType, SetLastType, UpdateType,
     WriteType, RemoveType DEF HandlerStep

LEMMA AutoCloseType ==
  ASSUME NEW items \in Seq(Session), HasOpen(items), NEW skip \in BOOLEAN,
         NEW s \in Schedules \cup {DefaultSchedule}
  PROVE  /\ items # <<>>
         /\ AutoCheckOut(Last(items).in, s, skip) \in Int
         /\ AutoClose(items, s, skip) \in Seq(Session)
<1>1. items # <<>> /\ Len(items) \in Nat \ {0} /\ Last(items) \in Session
  BY DEF HasOpen, Last
<1>2. s \in Schedule
  BY WorkLogAssumption DEF Schedule, DefaultSchedule
<1>3. StandardHoursPerDay(s) \in Int
  BY <1>2 DEF Schedule, StandardHoursPerDay, RoundHours
<1>4. AutoCheckOut(Last(items).in, s, skip) \in Int
  BY <1>1, <1>2, <1>3 DEF AutoCheckOut, Session, Schedule
<1> QED
  BY <1>1, <1>4, EndLastType DEF AutoClose

LEMMA CronType ==
  ASSUME StateOK, CronStep
  PROVE  StateOK'
<1>0. now \in Nat /\ Day(now) \in Nat
  BY DayNat DEF StateOK
<1>1. ReqsOK' /\ OrgsOK' /\ now' = now /\ nextId' = nextId
  BY DEF CronStep, CronFind, CronReadOrg, CronSave, StateOK, ReqsOK, OrgsOK, Ids
<1>2. CASE CronFind
  <2> DEFINE found == {id \in DOMAIN logs : Missed(logs[id].day) /\ HasOpen(logs[id].items)}
             c == [NoCron EXCEPT !.pc = IF found = {} THEN "idle" ELSE "org",
                                 !.ran = Day(now), !.since = now,
                                 !.todo = [id \in found |-> logs[id]]]
  <2>1. cron' = c /\ logs' = logs
    BY <1>2 DEF CronFind
  <2>2. /\ DOMAIN c = DOMAIN NoCron /\ c.pc \in {"idle", "org"}
        /\ c.since = now /\ c.ran = Day(now) /\ c.schedule = DefaultSchedule
        /\ c.todo = [id \in found |-> logs[id]]
    BY DEF NoCron
  <2>3. \A id \in found : LogOK(logs[id]) /\ HasOpen(logs[id].items) /\ id \in Ids
    BY LogType
  <2> HIDE DEF c, found
  <2>4. CronOK'
    BY <1>0, <1>1, <2>1, <2>2, <2>3 DEF CronOK, Ids
  <2> QED
    BY <1>1, <2>1, <2>4 DEF StateOK, LogsOK, Ids
<1>3. ASSUME NEW id \in DOMAIN cron.todo, CronReadOrg(id)
      PROVE  StateOK'
  <2>1. LogOK(cron.todo[id])
    BY DEF StateOK, CronOK
  <2>2. orgs[cron.todo[id].org].schedule \in Schedules
    BY <2>1 DEF StateOK, OrgsOK, LogOK
  <2>3. CronOK'
    BY <1>1, <1>3, <2>2 DEF CronReadOrg, StateOK, CronOK, Ids, NoCron
  <2> QED
    BY <1>1, <1>3, <2>3 DEF CronReadOrg, StateOK, LogsOK, Ids
<1>4. CASE CronSave
  <2> DEFINE log == cron.todo[cron.id]
             items == AutoClose(log.items, cron.schedule, log.skip)
             left == DOMAIN cron.todo \ {cron.id}
             c == [NoCron EXCEPT !.pc = IF left = {} THEN "idle" ELSE "org",
                                 !.ran = cron.ran, !.since = cron.since,
                                 !.todo = [id \in left |-> cron.todo[id]]]
  <2>1. LogOK(log) /\ HasOpen(log.items)
    BY <1>4 DEF CronSave, StateOK, CronOK
  <2>2. items \in Seq(Session)
    BY <2>1, AutoCloseType DEF LogOK, StateOK, CronOK
  <2> HIDE DEF items
  <2>3. LogsOK'
    BY <1>1, <1>4, <2>2 DEF CronSave, Document, StateOK, LogsOK, LogOK, LogFields, Ids, items
  <2>4. cron' = c
    BY <1>4 DEF CronSave
  <2>5. /\ DOMAIN c = DOMAIN NoCron /\ c.pc \in {"idle", "org"}
        /\ c.since = cron.since /\ c.ran = cron.ran
        /\ c.schedule = DefaultSchedule
        /\ c.todo = [id \in left |-> cron.todo[id]]
    BY DEF NoCron
  <2> HIDE DEF c
  <2>6. CronOK'
    BY <1>1, <2>4, <2>5 DEF StateOK, CronOK, Ids
  <2> QED
    BY <1>1, <2>3, <2>6 DEF StateOK
<1> QED
  BY <1>2, <1>3, <1>4 DEF CronStep

LEMMA OrgType ==
  ASSUME StateOK, OrgStep
  PROVE  StateOK'
<1>1. LogsOK' /\ ReqsOK' /\ CronOK'
  BY DEF OrgStep, SetSchedule, AddMember, RemoveMember, RemoveOrg, ChangeOrg,
         StateOK, LogsOK, ReqsOK, CronOK, Ids
<1>2. ASSUME NEW o \in Orgs, NEW doc, orgs' = [orgs EXCEPT ![o] = doc],
             doc \in [alive : BOOLEAN, members : SUBSET Accounts,
                      schedule : Schedules],
             lastOrg' = lastOrg
      PROVE  OrgsOK'
  BY <1>2 DEF StateOK, OrgsOK
<1>3. ASSUME NEW o \in Orgs
      PROVE  orgs[o] \in [alive : BOOLEAN, members : SUBSET Accounts,
                          schedule : Schedules]
  BY DEF StateOK, OrgsOK
<1>4. OrgsOK'
  <2>1. ASSUME NEW o \in Orgs, NEW s \in Schedules, SetSchedule(o, s)
        PROVE  OrgsOK'
    BY <1>2, <1>3, <2>1 DEF SetSchedule, ChangeOrg
  <2>2. ASSUME NEW o \in Orgs, NEW a \in Accounts, AddMember(o, a)
        PROVE  OrgsOK'
    BY <1>2, <1>3, <2>2 DEF AddMember, ChangeOrg
  <2>3. ASSUME NEW o \in Orgs, NEW a \in Accounts, RemoveMember(o, a)
        PROVE  OrgsOK'
    BY <1>2, <1>3, <2>3 DEF RemoveMember, ChangeOrg
  <2>4. ASSUME NEW o \in Orgs, RemoveOrg(o)
        PROVE  OrgsOK'
    BY <1>2, <1>3, <2>4 DEF RemoveOrg, ChangeOrg
  <2> QED
    BY <2>1, <2>2, <2>3, <2>4 DEF OrgStep
<1> QED
  BY <1>1, <1>4 DEF OrgStep, SetSchedule, AddMember, RemoveMember, RemoveOrg,
                    ChangeOrg, StateOK

LEMMA TickType ==
  ASSUME StateOK, Tick
  PROVE  StateOK'
  BY WorkLogAssumption DEF Tick, StateOK, LogsOK, OrgsOK, ReqsOK, CronOK, Ids

LEMMA StutterType ==
  ASSUME StateOK, UNCHANGED vars
  PROVE  StateOK'
  BY DEF vars, StateOK, LogsOK, OrgsOK, ReqsOK, CronOK, Ids

LEMMA StateStep == StateOK /\ [Next]_vars => StateOK'
  BY CallType, HandlerType, CronType, OrgType, TickType, StutterType DEF Next

(* The steps that write the collection.                                    *)
LEMMA Writes ==
  ASSUME [Next]_vars
  PROVE  \/ UNCHANGED logs
         \/ \E r \in Reqs : CreateInsert(r) \/ UpdateWrite(r) \/ RemoveDelete(r)
         \/ CronSave
<1>1. ASSUME NEW r \in Reqs, CallStep(r) PROVE UNCHANGED logs
  BY <1>1 DEF CallStep, CallCheckIn, CallCheckOut, CallCreate, CallRemove,
              CallUpdate, Arrive
<1>2. ASSUME NEW r \in Reqs, HandlerStep(r)
      PROVE  \/ UNCHANGED logs
             \/ CreateInsert(r) \/ UpdateWrite(r) \/ RemoveDelete(r)
  BY <1>2 DEF HandlerStep, CheckInFindLog, CheckOutFindLog, CreateReadOrg,
     CreateFindExisting, SetLastOrganization, UpdateFindLog, UpdateReadOrg,
     RemoveFindLog
<1>3. CronStep => UNCHANGED logs \/ CronSave
  BY DEF CronStep, CronFind, CronReadOrg
<1>4. CASE OrgStep \/ Tick \/ UNCHANGED vars
  BY <1>4 DEF OrgStep, SetSchedule, AddMember, RemoveMember, RemoveOrg,
              ChangeOrg, Tick, vars
<1> QED
  BY <1>1, <1>2, <1>3, <1>4 DEF Next

(* A step writes a note that a client sent, an empty one, or none.         *)
LEMMA NotesMove ==
  ASSUME StateOK, [Next]_vars, NEW id \in DOMAIN logs'
  PROVE  \/ id \in DOMAIN logs /\ logs'[id].note = logs[id].note
         \/ logs'[id].note \in Notes \cup {<<>>}
<1>1. ASSUME NEW r \in Reqs, CreateInsert(r)
      PROVE  \/ id \in DOMAIN logs /\ logs'[id].note = logs[id].note
             \/ logs'[id].note \in Notes \cup {<<>>}
  <2> DEFINE q == req[r]
             doc == Document(q.acct, q.org, DateOfLog(q), q.items, q.hours, q.skip,
                             IF q.note = None THEN <<>> ELSE q.note)
  <2>1. UNCHANGED logs \/ logs' = Inserted(doc)
    BY <1>1 DEF CreateInsert
  <2>2. doc.note \in Notes \cup {<<>>}
    BY ReqType DEF ReqOK, Document
  <2> HIDE DEF doc
  <2> QED
    BY <2>1, <2>2 DEF Inserted
<1>2. ASSUME NEW r \in Reqs, UpdateWrite(r)
      PROVE  \/ id \in DOMAIN logs /\ logs'[id].note = logs[id].note
             \/ logs'[id].note \in Notes \cup {<<>>}
  <2>1. req[r].note \in Notes \cup {None}
    BY ReqType DEF ReqOK
  <2> QED
    BY <1>2, <2>1 DEF UpdateWrite, Updated, Document
<1>3. ASSUME NEW r \in Reqs, RemoveDelete(r)
      PROVE  id \in DOMAIN logs /\ logs'[id].note = logs[id].note
  BY <1>3 DEF RemoveDelete
<1>4. CronSave => id \in DOMAIN logs /\ logs'[id].note = logs[id].note
  BY DEF CronSave, Document
<1> QED
  BY <1>1, <1>2, <1>3, <1>4, Writes

LEMMA NotesStep == StateOK /\ NotesOK /\ [Next]_vars => NotesOK'
  BY NotesMove DEF NotesOK

LEMMA TypeStep == TypeOK /\ [Next]_vars => TypeOK'
  BY StateStep, NotesStep DEF TypeOK

(* No handler writes data it has not read, and no id is used before it is  *)
(* given out: the type invariant holds for every value of the constants.   *)
THEOREM TypeCorrect == Spec => []TypeOK
<1>1. Init => TypeOK
  <2>1. Init => NotesOK
    BY DEF Init, NotesOK
  <2> QED
    BY <2>1, StateInit DEF TypeOK
<1> QED
  BY <1>1, TypeStep, PTL DEF Spec

LEMMA StateCorrect == Spec => []StateOK
<1>1. TypeOK => StateOK
  BY DEF TypeOK
<1> QED
  BY <1>1, TypeCorrect, PTL

-----------------------------------------------------------------------------
(* One log per account, organization and day.                              *)

LEMMA UniqueStep == StateOK /\ UniqueLogPerDay /\ [Next]_vars => UniqueLogPerDay'
<1> SUFFICES ASSUME StateOK, UniqueLogPerDay, [Next]_vars
             PROVE  UniqueLogPerDay'
  OBVIOUS
(* Every step but an insert keeps the keys of the logs that it leaves.     *)
<1>1. ASSUME DOMAIN logs' \subseteq DOMAIN logs,
             \A id \in DOMAIN logs' : /\ logs'[id].acct = logs[id].acct
                                      /\ logs'[id].org = logs[id].org
                                      /\ logs'[id].day = logs[id].day
      PROVE  UniqueLogPerDay'
  BY <1>1 DEF UniqueLogPerDay
<1>2. CASE UNCHANGED logs
  BY <1>1, <1>2
<1>3. ASSUME NEW r \in Reqs, CreateInsert(r)
      PROVE  UniqueLogPerDay'
  <2> DEFINE q == req[r]
             doc == Document(q.acct, q.org, DateOfLog(q), q.items, q.hours, q.skip,
                             IF q.note = None THEN <<>> ELSE q.note)
  <2>1. CASE KeyTaken(doc.acct, doc.org, doc.day)
    BY <1>2, <1>3, <2>1 DEF CreateInsert
  <2>2. CASE ~KeyTaken(doc.acct, doc.org, doc.day)
    <3>1. logs' = Inserted(doc)
      BY <1>3, <2>2 DEF CreateInsert
    <3>2. nextId \notin DOMAIN logs
      BY DEF StateOK, LogsOK, Ids
    <3>3. \A id \in DOMAIN logs :
            ~ (/\ logs[id].acct = doc.acct
               /\ logs[id].org = doc.org
               /\ logs[id].day = doc.day)
      BY <2>2 DEF KeyTaken, LogsOf
    <3> HIDE DEF doc
    <3> QED
      BY <3>1, <3>2, <3>3 DEF UniqueLogPerDay, Inserted
  <2> QED
    BY <2>1, <2>2
<1>4. ASSUME NEW r \in Reqs, UpdateWrite(r) \/ RemoveDelete(r)
      PROVE  UniqueLogPerDay'
  BY <1>1, <1>4 DEF UpdateWrite, RemoveDelete, Updated, Document
<1>5. CASE CronSave
  BY <1>1, <1>5 DEF CronSave, Document
<1> QED
  BY <1>2, <1>3, <1>4, <1>5, Writes

(* However many check-ins and creations race, an account has at most one   *)
(* log per organization and day.                                           *)
THEOREM OneLogPerDay == Spec => []UniqueLogPerDay
<1>1. Init => UniqueLogPerDay
  BY DEF Init, UniqueLogPerDay
<1> QED
  BY <1>1, StateCorrect, UniqueStep, PTL DEF Spec

-----------------------------------------------------------------------------
(* The clock decides on the last session of a log alone.  That this is     *)
(* enough, for any number of handlers in flight, follows from an invariant *)
(* of everything that is about to be stored: the items a handler holds and *)
(* the documents the nightly job holds are well formed, or a check that is *)
(* still to come refuses them.                                             *)

(* Two things the code does not check: that a schedule ends after it       *)
(* starts, and that a PATCH leaves no session open before the last one.    *)
DaySchedules == \A s \in Schedules : s.end - s.start - s.lunch > 0
SheetsOpenLast == "update" \in Calls => \A b \in UpdateBodies : OpenLast(b.items)

SlotSound(q) ==
  /\ q.pc \in {"update", "updateOrg"} => OpenLast(q.items)
  /\ q.pc \in {"existing", "insert", "write"} => WellFormed(q.items)

SessionsInv ==
  /\ OnlyLastSessionOpen
  /\ \A r \in Reqs : SlotSound(req[r])
  /\ \A id \in DOMAIN cron.todo : WellFormed(cron.todo[id].items)

LEMMA NoReqSound == SlotSound(NoReq)
  BY DEF NoReq, SlotSound

(* A check-in appends to sessions that are all closed.                     *)
LEMMA AppendOpen ==
  ASSUME NEW items \in Seq(Session), OpenLast(items), NEW s,
         items = <<>> \/ Closed(Last(items))
  PROVE  OpenLast(Append(items, s))
<1>1. \A k \in DOMAIN items : Closed(items[k])
  BY DEF OpenLast, Last
<1> QED
  BY <1>1 DEF OpenLast

(* A check-out, and the nightly job, leave no session open.                *)
LEMMA EndLastCloses ==
  ASSUME NEW items \in Seq(Session), items # <<>>, OpenLast(items), NEW t \in Int
  PROVE  \A k \in DOMAIN EndLast(items, t) : Closed(EndLast(items, t)[k])
<1>1. \A k \in 1 .. Len(items) : k # Len(items) => Closed(items[k])
  BY DEF OpenLast
<1>2. DOMAIN EndLast(items, t) = 1 .. Len(items)
  BY EndLastType
<1> QED
  <2> SUFFICES ASSUME NEW k \in 1 .. Len(items)
               PROVE  Closed(EndLast(items, t)[k])
    BY <1>2
  <2>1. CASE k = Len(items)
    <3>1. EndLast(items, t)[k] = [in |-> items[k].in, out |-> t]
      BY <2>1, EndLastType
    <3> QED
      BY <3>1, NoneAssumption DEF Closed
  <2>2. CASE k # Len(items)
    BY <1>1, <2>2, EndLastType
  <2> QED
    BY <2>1, <2>2

(* What passes the check of update ends after it starts.                   *)
LEMMA NotRejected ==
  ASSUME NEW items \in Seq(Session), ~Rejected(items)
  PROVE  EndAfterStart(items)
<1> SUFFICES ASSUME NEW k \in DOMAIN items, Closed(items[k])
             PROVE  items[k].out > items[k].in
  BY DEF EndAfterStart
<1>1. items[k] \in Session
  OBVIOUS
<1>2. items[k].out \in Int /\ items[k].in \in Nat
  BY <1>1 DEF Session, Closed
<1>3. ~(items[k].out <= items[k].in)
  BY DEF Rejected
<1> QED
  BY <1>2, <1>3

(* The end of a standard day is after its start.                           *)
LEMMA StandardDayEnds ==
  ASSUME DaySchedules, NEW s \in Schedules \cup {DefaultSchedule},
         NEW skip \in BOOLEAN, NEW in \in Nat
  PROVE  AutoCheckOut(in, s, skip) > in
<1>1. s \in Schedule /\ s.end - s.start - s.lunch > 0
  BY WorkLogAssumption DEF DaySchedules, Schedule, DefaultSchedule
<1> DEFINE m == s.end - s.start - s.lunch
<1>2. m \in Nat /\ m > 0 /\ s.lunch \in Nat
  BY <1>1 DEF Schedule
<1> HIDE DEF m
<1>3. RoundHours(m) \in Nat /\ RoundHours(m) >= 1
  BY <1>2 DEF RoundHours
<1>4. StandardHoursPerDay(s) = RoundHours(m)
  BY DEF StandardHoursPerDay, m
<1> QED
  BY <1>2, <1>3, <1>4 DEF AutoCheckOut

LEMMA AutoCloseSound ==
  ASSUME DaySchedules, NEW s \in Schedules \cup {DefaultSchedule},
         NEW skip \in BOOLEAN, NEW items \in Seq(Session),
         HasOpen(items), WellFormed(items)
  PROVE  WellFormed(AutoClose(items, s, skip))
<1> DEFINE t == AutoCheckOut(Last(items).in, s, skip)
<1>1. items # <<>> /\ t \in Int /\ Last(items) \in Session
  BY AutoCloseType DEF Last
<1>2. t > Last(items).in
  BY <1>1, StandardDayEnds DEF Session
<1> HIDE DEF t
<1>3. \A k \in DOMAIN EndLast(items, t) : Closed(EndLast(items, t)[k])
  BY <1>1, EndLastCloses DEF WellFormed
<1>4. EndAfterStart(EndLast(items, t))
  <2>1. \A k \in 1 .. Len(items) :
          Closed(items[k]) => items[k].out > items[k].in
    BY DEF WellFormed, EndAfterStart
  <2>2. \A k \in 1 .. Len(items) :
          EndLast(items, t)[k].out > EndLast(items, t)[k].in
    <3> TAKE k \in 1 .. Len(items)
    <3>1. CASE k = Len(items)
      <4>1. EndLast(items, t)[k] = [in |-> Last(items).in, out |-> t]
        BY <1>1, <3>1, EndLastType DEF Last
      <4> QED
        BY <1>1, <1>2, <4>1 DEF Session
    <3>2. CASE k # Len(items)
      <4>1. EndLast(items, t)[k] = items[k]
        BY <1>1, <3>2, EndLastType
      <4>2. Closed(items[k])
        BY <3>2 DEF WellFormed, OpenLast
      <4> QED
        BY <2>1, <4>1, <4>2
    <3> QED
      BY <3>1, <3>2
  <2>3. DOMAIN EndLast(items, t) = 1 .. Len(items)
    BY <1>1, EndLastType
  <2> QED
    BY <2>2, <2>3 DEF EndAfterStart
<1> QED
  BY <1>3, <1>4 DEF WellFormed, OpenLast, AutoClose, t

-----------------------------------------------------------------------------
(* A step that only moves its own slot.                                    *)
LEMMA SlotSessions ==
  ASSUME StateOK, SessionsInv, NEW r \in Reqs, NEW q, SlotSound(q),
         req' = [req EXCEPT ![r] = q], UNCHANGED <<logs, cron>>
  PROVE  SessionsInv'
<1>1. \A p \in Reqs : SlotSound(req'[p])
  BY DEF StateOK, ReqsOK, SessionsInv
<1> QED
  BY <1>1 DEF SessionsInv, OnlyLastSessionOpen

LEMMA FinishSessions ==
  ASSUME StateOK, SessionsInv, NEW r \in Reqs, Finish(r), UNCHANGED <<logs, cron>>
  PROVE  SessionsInv'
  BY NoReqSound, SlotSessions DEF Finish

LEMMA ArriveSessions ==
  ASSUME StateOK, SessionsInv, NEW r \in Reqs, NEW call, NEW a, NEW q,
         Arrive(r, call, a, q), DOMAIN q = DOMAIN NoReq,
         q.pc \in {"checkIn", "checkOut", "create", "update", "remove"},
         q.pc = "update" => OpenLast(q.items)
  PROVE  SessionsInv'
<1>1. SlotSound([q EXCEPT !.since = now, !.acct = a])
  BY DEF SlotSound, NoReq
<1> QED
  BY <1>1, SlotSessions DEF Arrive

LEMMA CallSessions ==
  ASSUME StateOK, SessionsInv, SheetsOpenLast, NEW r \in Reqs, CallStep(r)
  PROVE  SessionsInv'
<1>1. ASSUME NEW a \in Accounts, NEW o \in Orgs, NEW n \in Notes \cup {None},
             NEW pc \in {"checkIn", "checkOut"},
             Arrive(r, pc, a, [NoReq EXCEPT !.pc = pc, !.org = o,
                                            !.day = Day(now), !.note = n])
      PROVE  SessionsInv'
  <2> DEFINE q == [NoReq EXCEPT !.pc = pc, !.org = o, !.day = Day(now), !.note = n]
  <2>1. DOMAIN q = DOMAIN NoReq /\ q.pc = pc
    BY DEF NoReq
  <2> HIDE DEF q
  <2> QED
    BY <1>1, <2>1, ArriveSessions DEF q
<1>2. ASSUME NEW a \in Accounts, NEW o \in Orgs, NEW b \in CreateBodies,
             CallCreate(r, a, o, b)
      PROVE  SessionsInv'
  <2> DEFINE q == [NoReq EXCEPT !.pc = "create", !.org = o, !.skip = b.skip,
                     !.note = b.note, !.items = <<[in |-> b.in, out |-> b.out]>>]
  <2>1. DOMAIN q = DOMAIN NoReq /\ q.pc = "create"
    BY DEF NoReq
  <2>2. Arrive(r, "create", a, q)
    BY <1>2 DEF CallCreate
  <2> HIDE DEF q
  <2> QED
    BY <2>1, <2>2, ArriveSessions
<1>3. ASSUME NEW a \in Accounts, NEW id \in DOMAIN logs, CallRemove(r, a, id)
      PROVE  SessionsInv'
  <2> DEFINE q == [NoReq EXCEPT !.pc = "remove", !.id = id]
  <2>1. DOMAIN q = DOMAIN NoReq /\ q.pc = "remove"
    BY DEF NoReq
  <2>2. Arrive(r, "remove", a, q)
    BY <1>3 DEF CallRemove
  <2> HIDE DEF q
  <2> QED
    BY <2>1, <2>2, ArriveSessions
<1>4. ASSUME NEW a \in Accounts, NEW id \in DOMAIN logs, NEW b \in UpdateBodies,
             CallUpdate(r, a, id, b)
      PROVE  SessionsInv'
  <2> DEFINE q == [NoReq EXCEPT !.pc = "update", !.id = id, !.items = b.items,
                                !.skip = b.skip, !.note = b.note]
  <2>1. DOMAIN q = DOMAIN NoReq /\ q.pc = "update" /\ q.items = b.items
    BY DEF NoReq
  <2>2. Arrive(r, "update", a, q)
    BY <1>4 DEF CallUpdate
  <2>3. "update" \in Calls
    BY <1>4 DEF CallUpdate, Arrive
  <2> HIDE DEF q
  <2> QED
    BY <2>1, <2>2, <2>3, ArriveSessions DEF SheetsOpenLast
<1> QED
  BY <1>1, <1>2, <1>3, <1>4 DEF CallStep, CallCheckIn, CallCheckOut

(* The clock's handlers hand their items to create and update.             *)
LEMMA ClockSessions ==
  ASSUME StateOK, SessionsInv, NEW r \in Reqs,
         CheckInFindLog(r) \/ CheckOutFindLog(r)
  PROVE  SessionsInv'
<1> DEFINE q == req[r]
           found == LogsOf(q.acct, q.org, q.day)
           session == [in |-> now, out |-> None]
<1>0. DOMAIN q = DOMAIN NoReq /\ now \in Nat /\ session \in Session
  BY ReqType DEF ReqOK, StateOK, Session
<1>1. \A id \in found : OpenLast(logs[id].items) /\ logs[id].items \in Seq(Session)
  BY LogType DEF LogsOf, LogOK, SessionsInv, OnlyLastSessionOpen, WellFormed
<1>2. CASE Finish(r)
  BY <1>2, FinishSessions DEF CheckInFindLog, CheckOutFindLog
<1>3. ASSUME NEW items,
             req' = [req EXCEPT ![r] = [q EXCEPT !.pc = "create", !.skip = FALSE,
                                                 !.items = items]]
      PROVE  SessionsInv'
  <2>1. SlotSound([q EXCEPT !.pc = "create", !.skip = FALSE, !.items = items])
    BY <1>0 DEF SlotSound, NoReq
  <2> QED
    BY <1>3, <2>1, SlotSessions DEF CheckInFindLog, CheckOutFindLog
<1>4. ASSUME NEW id, NEW items, OpenLast(items),
             req' = [req EXCEPT ![r] = [q EXCEPT !.pc = "update", !.id = id,
                                                 !.items = items]]
      PROVE  SessionsInv'
  <2>1. SlotSound([q EXCEPT !.pc = "update", !.id = id, !.items = items])
    BY <1>0, <1>4 DEF SlotSound, NoReq
  <2> QED
    BY <1>4, <2>1, SlotSessions DEF CheckInFindLog, CheckOutFindLog
<1>5. CASE CheckInFindLog(r)
  <2>1. ASSUME NEW id \in found,
               logs[id].items = <<>> \/ Closed(Last(logs[id].items))
        PROVE  OpenLast(Append(logs[id].items, session))
    BY <1>0, <1>1, <2>1, AppendOpen
  <2> QED
    BY <1>2, <1>3, <1>4, <1>5, <2>1 DEF CheckInFindLog
<1>6. CASE CheckOutFindLog(r)
  <2>1. ASSUME NEW id \in found, logs[id].items # <<>>
        PROVE  OpenLast(EndLast(logs[id].items, now))
    BY <1>0, <1>1, <2>1, EndLastCloses DEF OpenLast
  <2> QED
    BY <1>2, <1>4, <1>6, <2>1 DEF CheckOutFindLog
<1> QED
  BY <1>5, <1>6

(* create and update refuse a session that ends before it starts.          *)
LEMMA CheckSessions ==
  ASSUME StateOK, SessionsInv, NEW r \in Reqs,
         CreateReadOrg(r) \/ CreateFindExisting(r) \/ UpdateFindLog(r)
           \/ UpdateReadOrg(r) \/ RemoveFindLog(r)
  PROVE  SessionsInv'
<1> DEFINE q == req[r]
<1>0. /\ DOMAIN q = DOMAIN NoReq /\ q.items \in Seq(Session)
      /\ q.pc \in {"create", "existing"} => Len(q.items) = 1
      /\ SlotSound(q)
  BY ReqType DEF ReqOK, SessionsInv
<1>1. CASE Finish(r)
  BY <1>1, FinishSessions DEF CreateReadOrg, CreateFindExisting, UpdateFindLog,
                              UpdateReadOrg, RemoveFindLog
<1>2. ASSUME NEW p, SlotSound(p), req' = [req EXCEPT ![r] = p]
      PROVE  SessionsInv'
  BY <1>2, SlotSessions DEF CreateReadOrg, CreateFindExisting, UpdateFindLog,
                            UpdateReadOrg, RemoveFindLog
<1>3. CASE CreateReadOrg(r)
  <2> DEFINE s == q.items[1]
             p == [q EXCEPT !.pc = "existing", !.lunch = orgs[q.org].schedule.lunch]
  <2>1. CASE Closed(s) /\ s.out <= s.in
    BY <1>1, <1>3, <2>1 DEF CreateReadOrg
  <2>2. CASE ~(Closed(s) /\ s.out <= s.in)
    <3>0. \A k \in DOMAIN q.items : k = 1 /\ k = Len(q.items)
      <4>1. q.pc = "create"
        BY <1>3 DEF CreateReadOrg
      <4>2. Len(q.items) = 1 /\ DOMAIN q.items = 1 .. Len(q.items)
        BY <1>0, <4>1
      <4> QED
        BY <4>2
    <3>1. WellFormed(q.items)
      BY <1>0, <2>2, <3>0, NotRejected DEF WellFormed, OpenLast, Rejected
    <3>2. SlotSound(p)
      BY <1>0, <3>1 DEF SlotSound, NoReq
    <3> QED
      BY <1>1, <1>2, <1>3, <3>2 DEF CreateReadOrg
  <2> QED
    BY <2>1, <2>2
<1>4. CASE CreateFindExisting(r)
  <2> DEFINE p == [q EXCEPT !.pc = "insert",
                            !.hours = WorkedHoursByDay(q.items, q.lunch, q.skip)]
  <2>1. SlotSound(p)
    BY <1>0, <1>4 DEF CreateFindExisting, SlotSound, NoReq
  <2> QED
    BY <1>1, <1>2, <1>4, <2>1 DEF CreateFindExisting
<1>5. CASE UpdateFindLog(r)
  <2> DEFINE p == [q EXCEPT !.pc = "updateOrg", !.org = logs[q.id].org,
                     !.skip = IF q.skip = None THEN logs[q.id].skip ELSE q.skip]
  <2>1. SlotSound(p)
    BY <1>0, <1>5 DEF UpdateFindLog, SlotSound, NoReq
  <2> QED
    BY <1>1, <1>2, <1>5, <2>1 DEF UpdateFindLog
<1>6. CASE UpdateReadOrg(r)
  <2> DEFINE p == [q EXCEPT !.pc = "write",
                     !.hours = WorkedHoursByDay(q.items,
                                 orgs[q.org].schedule.lunch, q.skip)]
  <2>1. CASE Rejected(q.items)
    BY <1>1, <1>6, <2>1 DEF UpdateReadOrg
  <2>2. CASE ~Rejected(q.items)
    <3>1. SlotSound(p)
      BY <1>0, <1>6, <2>2, NotRejected DEF UpdateReadOrg, SlotSound, WellFormed, NoReq
    <3> QED
      BY <1>1, <1>2, <1>6, <3>1 DEF UpdateReadOrg
  <2> QED
    BY <2>1, <2>2
<1>7. CASE RemoveFindLog(r)
  <2>1. SlotSound([q EXCEPT !.pc = "delete"])
    BY <1>0 DEF SlotSound, NoReq
  <2> QED
    BY <1>1, <1>2, <1>7, <2>1 DEF RemoveFindLog
<1> QED
  BY <1>3, <1>4, <1>5, <1>6, <1>7

(* What reaches the collection has been checked.                           *)
LEMMA StoreSessions ==
  ASSUME StateOK, SessionsInv, NEW r \in Reqs,
         CreateInsert(r) \/ UpdateWrite(r) \/ RemoveDelete(r)
           \/ SetLastOrganization(r)
  PROVE  SessionsInv'
<1> DEFINE q == req[r]
<1>0. DOMAIN q = DOMAIN NoReq /\ SlotSound(q)
  BY ReqType DEF ReqOK, SessionsInv
<1>1. OnlyLastSessionOpen'
  <2>1. CASE UNCHANGED logs
    BY <2>1 DEF SessionsInv, OnlyLastSessionOpen
  <2>2. ASSUME CreateInsert(r), logs' # logs
        PROVE  OnlyLastSessionOpen'
    <3> DEFINE doc == Document(q.acct, q.org, DateOfLog(q), q.items, q.hours, q.skip,
                               IF q.note = None THEN <<>> ELSE q.note)
    <3>1. logs' = Inserted(doc) /\ doc.items = q.items /\ WellFormed(q.items)
      BY <1>0, <2>2 DEF CreateInsert, Document, SlotSound
    <3> HIDE DEF doc
    <3> QED
      BY <3>1 DEF Inserted, SessionsInv, OnlyLastSessionOpen
  <2>3. CASE UpdateWrite(r)
    <3>1. WellFormed(q.items)
      BY <1>0, <2>3 DEF UpdateWrite, SlotSound
    <3> QED
      BY <2>3, <3>1 DEF UpdateWrite, Updated, Document, SessionsInv, OnlyLastSessionOpen
  <2>4. CASE RemoveDelete(r)
    BY <2>4 DEF RemoveDelete, SessionsInv, OnlyLastSessionOpen
  <2>5. CASE SetLastOrganization(r)
    BY <2>1, <2>5 DEF SetLastOrganization
  <2> QED
    BY <2>1, <2>2, <2>3, <2>4, <2>5
<1>2. \A p \in Reqs : SlotSound(req'[p])
  <2>1. SlotSound([q EXCEPT !.pc = "setLast"])
    BY <1>0 DEF SlotSound, NoReq
  <2> QED
    BY <2>1, NoReqSound DEF CreateInsert, UpdateWrite, RemoveDelete,
       SetLastOrganization, Finish, StateOK, ReqsOK, SessionsInv
<1>3. cron' = cron
  BY DEF CreateInsert, UpdateWrite, RemoveDelete, SetLastOrganization
<1> QED
  BY <1>1, <1>2, <1>3 DEF SessionsInv

LEMMA CronSessions ==
  ASSUME StateOK, SessionsInv, DaySchedules, CronStep
  PROVE  SessionsInv'
<1>1. req' = req
  BY DEF CronStep, CronFind, CronReadOrg, CronSave
<1>2. CASE CronFind
  <2> DEFINE found == {id \in DOMAIN logs : Missed(logs[id].day) /\ HasOpen(logs[id].items)}
  <2>1. logs' = logs /\ cron'.todo = [id \in found |-> logs[id]]
    BY <1>2 DEF CronFind, NoCron
  <2> QED
    BY <1>1, <2>1 DEF SessionsInv, OnlyLastSessionOpen
<1>3. ASSUME NEW id \in DOMAIN cron.todo, CronReadOrg(id)
      PROVE  SessionsInv'
  <2>1. logs' = logs /\ cron'.todo = cron.todo
    BY <1>3 DEF CronReadOrg, StateOK, CronOK, NoCron
  <2> QED
    BY <1>1, <2>1 DEF SessionsInv, OnlyLastSessionOpen
<1>4. CASE CronSave
  <2> DEFINE log == cron.todo[cron.id]
             items == AutoClose(log.items, cron.schedule, log.skip)
             left == DOMAIN cron.todo \ {cron.id}
  <2>1. /\ LogOK(log) /\ HasOpen(log.items) /\ WellFormed(log.items)
        /\ cron.schedule \in Schedules \cup {DefaultSchedule}
    BY <1>4 DEF CronSave, StateOK, CronOK, SessionsInv
  <2>2. WellFormed(items)
    BY <2>1, AutoCloseSound DEF LogOK
  <2>3. cron'.todo = [id \in left |-> cron.todo[id]]
    BY <1>4 DEF CronSave, NoCron
  <2>4. \A id \in DOMAIN logs' :
          /\ id \in DOMAIN logs
          /\ logs'[id].items = IF id = cron.id THEN items ELSE logs[id].items
    BY <1>4 DEF CronSave, Document
  <2> HIDE DEF items, left
  <2>5. OnlyLastSessionOpen'
    BY <2>2, <2>4 DEF SessionsInv, OnlyLastSessionOpen
  <2>6. \A id \in DOMAIN cron'.todo : WellFormed(cron'.todo[id].items)
    BY <2>3 DEF SessionsInv, left
  <2> QED
    BY <1>1, <2>5, <2>6 DEF SessionsInv
<1> QED
  BY <1>2, <1>3, <1>4 DEF CronStep

LEMMA SessionsStep ==
  ASSUME DaySchedules, SheetsOpenLast
  PROVE  StateOK /\ SessionsInv /\ [Next]_vars => SessionsInv'
<1> SUFFICES ASSUME StateOK, SessionsInv, [Next]_vars PROVE SessionsInv'
  OBVIOUS
<1>1. ASSUME NEW r \in Reqs, CallStep(r) PROVE SessionsInv'
  BY <1>1, CallSessions
<1>2. ASSUME NEW r \in Reqs, HandlerStep(r) PROVE SessionsInv'
  BY <1>2, ClockSessions, CheckSessions, StoreSessions DEF HandlerStep
<1>3. CASE CronStep
  BY <1>3, CronSessions
<1>4. CASE OrgStep \/ Tick \/ UNCHANGED vars
  <2>1. UNCHANGED <<logs, req, cron>>
    BY <1>4 DEF OrgStep, SetSchedule, AddMember, RemoveMember, RemoveOrg,
                ChangeOrg, Tick, vars
  <2> QED
    BY <2>1 DEF SessionsInv, OnlyLastSessionOpen
<1> QED
  BY <1>1, <1>2, <1>3, <1>4 DEF Next

(* Only the last session of a log may be open, and a closed one ends after *)
(* it starts, whatever handlers and nightly jobs interleave: with day      *)
(* schedules, and clients whose sheets are open at the end only.           *)
THEOREM SessionsWellFormed ==
  ASSUME DaySchedules, SheetsOpenLast
  PROVE  Spec => []OnlyLastSessionOpen
<1>1. Init => SessionsInv
  BY NoReqSound, NoCronTodo DEF Init, SessionsInv, OnlyLastSessionOpen
<1>2. StateOK /\ SessionsInv /\ [Next]_vars => SessionsInv'
  BY SessionsStep
<1>3. SessionsInv => OnlyLastSessionOpen
  BY DEF SessionsInv
<1> QED
  BY <1>1, <1>2, <1>3, StateCorrect, PTL DEF Spec

=============================================================================
