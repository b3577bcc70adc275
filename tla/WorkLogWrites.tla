---------------------------- MODULE WorkLogWrites ----------------------------
(***************************************************************************)
(* What the steps of WorkLog do to a slot and to the collection, said once *)
(* as facts about fields, and the theorems that need the history of a      *)
(* handler: whose log it writes, which hours, under which date, and that   *)
(* the sessions the clock stores follow one another.                       *)
(***************************************************************************)
EXTENDS WorkLogProofs

-----------------------------------------------------------------------------
(* A handler goes from the local state q to p.                             *)

Arrives(q, p) ==
  /\ q.pc = "idle" /\ p.since = now /\ p.acct \in Accounts
  /\ Cardinality(Waiting(p.acct)) < Unanswered
  /\ \/ p.pc \in {"checkIn", "checkOut"} /\ p.skip = None /\ p.day = Day(now)
     \/ p.pc = "create" /\ "create" \in Calls
     \/ /\ p.pc = "update" /\ "update" \in Calls
        /\ \E b \in UpdateBodies : p.items = b.items /\ p.skip = b.skip
     \/ p.pc = "remove" /\ "remove" \in Calls

Opening == [in |-> now, out |-> None]

AsksClock(q, p) ==
  \/ /\ q.pc = "checkIn" /\ p.pc = "create"
     /\ p.items = <<Opening>> /\ p.skip = FALSE
  \/ /\ q.pc = "checkIn" /\ p.pc = "update" /\ p.skip = q.skip
     /\ p.id \in LogsOf(q.acct, q.org, q.day)
     /\ logs[p.id].items = <<>> \/ Closed(Last(logs[p.id].items))
     /\ p.items = Append(logs[p.id].items, Opening)
  \/ /\ q.pc = "checkOut" /\ p.pc = "update" /\ p.skip = q.skip
     /\ p.id \in LogsOf(q.acct, q.org, q.day)
     /\ logs[p.id].items # <<>> /\ ~Closed(Last(logs[p.id].items))
     /\ p.items = EndLast(logs[p.id].items, now)

Creates(q, p) ==
  /\ p.items = q.items /\ p.skip = q.skip
  /\ \/ /\ q.pc = "create" /\ p.pc = "existing"
        /\ p.lunch = orgs[q.org].schedule.lunch
     \/ /\ q.pc = "existing" /\ p.pc = "insert"
        /\ p.hours = WorkedHoursByDay(q.items, q.lunch, q.skip)
     \/ q.pc = "insert" /\ p.pc = "setLast"

OwnLog(q) == q.id \in DOMAIN logs /\ logs[q.id].acct = q.acct

Updates(q, p) ==
  /\ p.id = q.id /\ p.items = q.items
  /\ \/ /\ q.pc = "update" /\ p.pc = "updateOrg" /\ OwnLog(q)
        /\ p.skip = IF q.skip = None THEN logs[q.id].skip ELSE q.skip
     \/ /\ q.pc = "updateOrg" /\ p.pc = "write" /\ p.skip = q.skip
        /\ p.hours = WorkedHoursByDay(q.items, orgs[q.org].schedule.lunch, q.skip)
     \/ q.pc = "remove" /\ p.pc = "delete" /\ OwnLog(q)

Moves(q, p) ==
  \/ p = q \/ p = NoReq \/ Arrives(q, p)
  \/ /\ p.acct = q.acct /\ p.since = q.since /\ p.day = q.day
     /\ AsksClock(q, p) \/ Creates(q, p) \/ Updates(q, p)

(* Arrivals.                                                               *)
LEMMA ArriveMoves ==
  ASSUME NEW r \in Reqs, DOMAIN req = Reqs, CallStep(r)
  PROVE  Arrives(req[r], req'[r])
<1>1. ASSUME NEW a \in Accounts, NEW call, NEW q, DOMAIN q = DOMAIN NoReq,
             Arrive(r, call, a, q)
      PROVE  /\ req[r].pc = "idle" /\ call \in Calls
             /\ req'[r].since = now /\ req'[r].acct = a
             /\ Cardinality(Waiting(a)) < Unanswered
             /\ req'[r].pc = q.pc /\ req'[r].skip = q.skip
             /\ req'[r].day = q.day /\ req'[r].items = q.items
  BY <1>1 DEF Arrive, Idle, NoReq
<1>2. ASSUME NEW a \in Accounts, NEW o \in Orgs, NEW n \in Notes \cup {None},
             CallCheckIn(r, a, o, n) \/ CallCheckOut(r, a, o, n)
      PROVE  Arrives(req[r], req'[r])
  <2> DEFINE q(pc) == [NoReq EXCEPT !.pc = pc, !.org = o, !.day = Day(now), !.note = n]
  <2>1. \A pc : /\ DOMAIN q(pc) = DOMAIN NoReq /\ q(pc).pc = pc
                /\ q(pc).skip = None /\ q(pc).day = Day(now)
    BY DEF NoReq
  <2>2. \E pc \in {"checkIn", "checkOut"} : Arrive(r, pc, a, q(pc))
    BY <1>2 DEF CallCheckIn, CallCheckOut
  <2> HIDE DEF q
  <2> QED
    BY <1>1, <2>1, <2>2 DEF Arrives
<1>3. ASSUME NEW a \in Accounts, NEW o \in Orgs, NEW b \in CreateBodies,
             CallCreate(r, a, o, b)
      PROVE  Arrives(req[r], req'[r])
  <2> DEFINE q == [NoReq EXCEPT !.pc = "create", !.org = o, !.skip = b.skip,
                     !.note = b.note, !.items = <<[in |-> b.in, out |-> b.out]>>]
  <2>1. DOMAIN q = DOMAIN NoReq /\ q.pc = "create"
    BY DEF NoReq
  <2>2. Arrive(r, "create", a, q)
    BY <1>3 DEF CallCreate
  <2> HIDE DEF q
  <2> QED
    BY <1>1, <2>1, <2>2 DEF Arrives
<1>4. ASSUME NEW a \in Accounts, NEW id \in DOMAIN logs, CallRemove(r, a, id)
      PROVE  Arrives(req[r], req'[r])
  <2> DEFINE q == [NoReq EXCEPT !.pc = "remove", !.id = id]
  <2>1. DOMAIN q = DOMAIN NoReq /\ q.pc = "remove"
    BY DEF NoReq
  <2>2. Arrive(r, "remove", a, q)
    BY <1>4 DEF CallRemove
  <2> HIDE DEF q
  <2> QED
    BY <1>1, <2>1, <2>2 DEF Arrives
<1>5. ASSUME NEW a \in Accounts, NEW id \in DOMAIN logs, NEW b \in UpdateBodies,
             CallUpdate(r, a, id, b)
      PROVE  Arrives(req[r], req'[r])
  <2> DEFINE q == [NoReq EXCEPT !.pc = "update", !.id = id, !.items = b.items,
                                !.skip = b.skip, !.note = b.note]
  <2>1. /\ DOMAIN q = DOMAIN NoReq /\ q.pc = "update"
        /\ q.items = b.items /\ q.skip = b.skip
    BY DEF NoReq
  <2>2. Arrive(r, "update", a, q)
    BY <1>5 DEF CallUpdate
  <2> HIDE DEF q
  <2> QED
    BY <1>1, <2>1, <2>2 DEF Arrives
<1> QED
  BY <1>2, <1>3, <1>4, <1>5 DEF CallStep

LEMMA CallSlot ==
  ASSUME NEW r \in Reqs, CallStep(r), NEW p \in Reqs, p # r, DOMAIN req = Reqs
  PROVE  req'[p] = req[p]
  BY DEF CallStep, CallCheckIn, CallCheckOut, CallCreate, CallRemove, CallUpdate,
         Arrive

LEMMA HandlerSlot ==
  ASSUME NEW r \in Reqs, HandlerStep(r), NEW p \in Reqs, p # r,
         DOMAIN req = Reqs
  PROVE  req'[p] = req[p]
  BY DEF HandlerStep, Finish, CheckInFindLog, CheckOutFindLog, CreateReadOrg,
     CreateFindExisting, CreateInsert, SetLastOrganization, UpdateFindLog,
     UpdateReadOrg, UpdateWrite, RemoveFindLog, RemoveDelete

LEMMA HandlerMoves ==
  ASSUME StateOK, NEW r \in Reqs, HandlerStep(r)
  PROVE  Moves(req[r], req'[r])
<1> DEFINE q == req[r]
<1>0. DOMAIN q = DOMAIN NoReq /\ DOMAIN req = Reqs
  BY ReqType DEF ReqOK, StateOK, ReqsOK
<1>1. Finish(r) => Moves(q, req'[r])
  BY <1>0 DEF Finish, Moves
<1>2. ASSUME NEW p, req' = [req EXCEPT ![r] = p] PROVE req'[r] = p
  BY <1>0, <1>2
<1>3. CASE CheckInFindLog(r)
  <2> DEFINE new == [q EXCEPT !.pc = "create", !.skip = FALSE, !.items = <<Opening>>]
             old(id) == [q EXCEPT !.pc = "update", !.id = id,
                                  !.items = Append(logs[id].items, Opening)]
  <2>1. q.pc = "checkIn"
    BY <1>3 DEF CheckInFindLog
  <2>2. Moves(q, new)
    BY <1>0, <2>1 DEF Moves, AsksClock, NoReq
  <2>3. ASSUME NEW id \in LogsOf(q.acct, q.org, q.day),
               logs[id].items = <<>> \/ Closed(Last(logs[id].items))
        PROVE  Moves(q, old(id))
    BY <1>0, <2>1, <2>3 DEF Moves, AsksClock, NoReq
  <2>4. \/ Finish(r) \/ req' = [req EXCEPT ![r] = new]
        \/ \E id \in LogsOf(q.acct, q.org, q.day) :
             /\ logs[id].items = <<>> \/ Closed(Last(logs[id].items))
             /\ req' = [req EXCEPT ![r] = old(id)]
    BY <1>3 DEF CheckInFindLog, Opening
  <2> HIDE DEF q, new, old
  <2> QED
    BY <1>1, <1>2, <2>2, <2>3, <2>4 DEF q
<1>4. CASE CheckOutFindLog(r)
  <2> DEFINE old(id) == [q EXCEPT !.pc = "update", !.id = id,
                                  !.items = EndLast(logs[id].items, now)]
  <2>1. q.pc = "checkOut"
    BY <1>4 DEF CheckOutFindLog
  <2>2. ASSUME NEW id \in LogsOf(q.acct, q.org, q.day),
               logs[id].items # <<>>, ~Closed(Last(logs[id].items))
        PROVE  Moves(q, old(id))
    BY <1>0, <2>1, <2>2 DEF Moves, AsksClock, NoReq
  <2>3. \/ Finish(r)
        \/ \E id \in LogsOf(q.acct, q.org, q.day) :
             /\ logs[id].items # <<>> /\ ~Closed(Last(logs[id].items))
             /\ req' = [req EXCEPT ![r] = old(id)]
    BY <1>4 DEF CheckOutFindLog
  <2> HIDE DEF q, old
  <2> QED
    BY <1>1, <1>2, <2>2, <2>3 DEF q
<1>5. CASE CreateReadOrg(r)
  <2> DEFINE p == [q EXCEPT !.pc = "existing", !.lunch = orgs[q.org].schedule.lunch]
  <2>1. Moves(q, p)
    BY <1>0, <1>5 DEF CreateReadOrg, Moves, Creates, NoReq
  <2>2. Finish(r) \/ req' = [req EXCEPT ![r] = p]
    BY <1>5 DEF CreateReadOrg
  <2> QED
    BY <1>1, <1>2, <2>1, <2>2
<1>6. CASE CreateFindExisting(r)
  <2> DEFINE p == [q EXCEPT !.pc = "insert",
                            !.hours = WorkedHoursByDay(q.items, q.lunch, q.skip)]
  <2>1. Moves(q, p)
    BY <1>0, <1>6 DEF CreateFindExisting, Moves, Creates, NoReq
  <2>2. Finish(r) \/ req' = [req EXCEPT ![r] = p]
    BY <1>6 DEF CreateFindExisting
  <2> QED
    BY <1>1, <1>2, <2>1, <2>2
<1>7. CASE CreateInsert(r)
  <2> DEFINE p == [q EXCEPT !.pc = "setLast"]
  <2>1. Moves(q, p)
    BY <1>0, <1>7 DEF CreateInsert, Moves, Creates, NoReq
  <2>2. Finish(r) \/ req' = [req EXCEPT ![r] = p]
    BY <1>7 DEF CreateInsert
  <2> QED
    BY <1>1, <1>2, <2>1, <2>2
<1>8. CASE SetLastOrganization(r) \/ UpdateWrite(r) \/ RemoveDelete(r)
  BY <1>1, <1>8 DEF SetLastOrganization, UpdateWrite, RemoveDelete
<1>9. CASE UpdateFindLog(r)
  <2> DEFINE p == [q EXCEPT !.pc = "updateOrg", !.org = logs[q.id].org,
                     !.skip = IF q.skip = None THEN logs[q.id].skip ELSE q.skip]
  <2>1. OwnLog(q) => Moves(q, p)
    BY <1>0, <1>9 DEF UpdateFindLog, Moves, Updates, NoReq
  <2>2. Finish(r) \/ (OwnLog(q) /\ req' = [req EXCEPT ![r] = p])
    BY <1>9 DEF UpdateFindLog, OwnLog
  <2> QED
    BY <1>1, <1>2, <2>1, <2>2
<1>10. CASE UpdateReadOrg(r)
  <2> DEFINE p == [q EXCEPT !.pc = "write",
                     !.hours = WorkedHoursByDay(q.items,
                                 orgs[q.org].schedule.lunch, q.skip)]
  <2>1. Moves(q, p)
    BY <1>0, <1>10 DEF UpdateReadOrg, Moves, Updates, NoReq
  <2>2. Finish(r) \/ req' = [req EXCEPT ![r] = p]
    BY <1>10 DEF UpdateReadOrg
  <2> QED
    BY <1>1, <1>2, <2>1, <2>2
<1>11. CASE RemoveFindLog(r)
  <2> DEFINE p == [q EXCEPT !.pc = "delete"]
  <2>1. OwnLog(q) => Moves(q, p)
    BY <1>0, <1>11 DEF RemoveFindLog, Moves, Updates, NoReq
  <2>2. Finish(r) \/ (OwnLog(q) /\ req' = [req EXCEPT ![r] = p])
    BY <1>11 DEF RemoveFindLog, OwnLog
  <2> QED
    BY <1>1, <1>2, <2>1, <2>2
<1> QED
  BY <1>3, <1>4, <1>5, <1>6, <1>7, <1>8, <1>9, <1>10, <1>11 DEF HandlerStep

(* Every step moves at most one slot, and by one of these moves.           *)
LEMMA SlotsMove ==
  ASSUME StateOK, [Next]_vars, NEW r \in Reqs
  PROVE  /\ Moves(req[r], req'[r])
         /\ req'[r] # req[r] => CallStep(r) \/ HandlerStep(r)
<1>0. DOMAIN req = Reqs
  BY DEF StateOK, ReqsOK
<1>1. ASSUME NEW p \in Reqs, CallStep(p) \/ HandlerStep(p), p # r
      PROVE  req'[r] = req[r]
  <2>1. CASE CallStep(p)
    BY <1>0, <1>1, <2>1, CallSlot
  <2>2. CASE HandlerStep(p)
    BY <1>0, <1>1, <2>2, HandlerSlot
  <2> QED
    BY <1>1, <2>1, <2>2
<1>2. CASE CallStep(r) \/ HandlerStep(r)
  BY <1>0, <1>2, ArriveMoves, HandlerMoves DEF Moves
<1>3. CASE CronStep \/ OrgStep \/ Tick \/ UNCHANGED vars
  <2>1. req' = req
    BY <1>3 DEF CronStep, CronFind, CronReadOrg, CronSave, OrgStep, SetSchedule,
       AddMember, RemoveMember, RemoveOrg, ChangeOrg, Tick, vars
  <2> QED
    BY <2>1 DEF Moves
<1> QED
  BY <1>1, <1>2, <1>3 DEF Next, Moves

(* What a document becomes.                                                *)
SameKey(l, m) == l.acct = m.acct /\ l.org = m.org /\ l.day = m.day

InsertedBy(q, l) ==
  /\ q.pc = "insert"
  /\ l.acct = q.acct /\ l.org = q.org /\ l.day = DateOfLog(q)
  /\ l.items = q.items /\ l.hours = q.hours /\ l.skip = q.skip

WrittenBy(q, l) ==
  q.pc = "write" /\ l.items = q.items /\ l.hours = q.hours /\ l.skip = q.skip

ClosedByJob(log, l) ==
  /\ l.items = AutoClose(log.items, cron.schedule, log.skip)
  /\ l.hours = WorkedHoursByDay(l.items, cron.schedule.lunch, log.skip)

LEMMA LogsMove ==
  ASSUME StateOK, [Next]_vars, NEW id \in DOMAIN logs'
  PROVE  \/ id \in DOMAIN logs /\ logs'[id] = logs[id]
         \/ id = nextId /\ \E r \in Reqs : InsertedBy(req[r], logs'[id])
         \/ /\ id \in DOMAIN logs /\ SameKey(logs'[id], logs[id])
            /\ \/ \E r \in Reqs : id = req[r].id /\ WrittenBy(req[r], logs'[id])
               \/ /\ cron.pc = "save" /\ id = cron.id
                  /\ logs'[id].skip = logs[id].skip
                  /\ ClosedByJob(cron.todo[id], logs'[id])
<1>1. ASSUME NEW r \in Reqs, CreateInsert(r), logs' # logs
      PROVE  \/ id \in DOMAIN logs /\ logs'[id] = logs[id]
             \/ id = nextId /\ InsertedBy(req[r], logs'[id])
  <2> DEFINE q == req[r]
             doc == Document(q.acct, q.org, DateOfLog(q), q.items, q.hours, q.skip,
                             IF q.note = None THEN <<>> ELSE q.note)
  <2>1. logs' = Inserted(doc) /\ q.pc = "insert"
    BY <1>1 DEF CreateInsert
  <2>2. InsertedBy(q, doc)
    BY <2>1 DEF InsertedBy, Document
  <2> HIDE DEF doc
  <2> QED
    BY <2>1, <2>2 DEF Inserted
<1>2. ASSUME NEW r \in Reqs, UpdateWrite(r)
      PROVE  \/ id \in DOMAIN logs /\ logs'[id] = logs[id]
             \/ /\ id \in DOMAIN logs /\ SameKey(logs'[id], logs[id])
                /\ id = req[r].id /\ WrittenBy(req[r], logs'[id])
  BY <1>2 DEF UpdateWrite, Updated, Document, SameKey, WrittenBy
<1>3. ASSUME NEW r \in Reqs, RemoveDelete(r)
      PROVE  id \in DOMAIN logs /\ logs'[id] = logs[id]
  BY <1>3 DEF RemoveDelete
<1>4. ASSUME CronSave
      PROVE  \/ id \in DOMAIN logs /\ logs'[id] = logs[id]
             \/ /\ id \in DOMAIN logs /\ SameKey(logs'[id], logs[id])
                /\ cron.pc = "save" /\ id = cron.id
                /\ logs'[id].skip = logs[id].skip
                /\ ClosedByJob(cron.todo[id], logs'[id])
  BY <1>4 DEF CronSave, Document, SameKey, ClosedByJob
<1> QED
  BY <1>1, <1>2, <1>3, <1>4, Writes

(* Ids are not reused: a handler that knows an id meets the log it found,  *)
(* or none.                                                                *)
LEMMA KeyKept ==
  ASSUME StateOK, [Next]_vars, NEW id \in Ids \cup {0}, id \in DOMAIN logs'
  PROVE  id \in DOMAIN logs /\ SameKey(logs'[id], logs[id])
<1>1. id # nextId
  BY DEF StateOK, Ids
<1> QED
  BY <1>1, LogsMove DEF SameKey

(* The nightly job holds the documents as it found them.                   *)
LEMMA TodoMoves ==
  ASSUME StateOK, [Next]_vars, NEW id \in DOMAIN cron'.todo
  PROVE  \/ /\ id \in DOMAIN cron.todo /\ cron'.todo[id] = cron.todo[id]
            /\ cron'.since = cron.since
         \/ /\ id \in DOMAIN logs /\ cron'.todo[id] = logs[id] /\ logs' = logs
            /\ Missed(logs[id].day) /\ CronDue /\ cron'.since = now
            /\ now' = now /\ req' = req
<1>1. CASE UNCHANGED cron
  BY <1>1
<1>2. CASE CronFind
  <2> DEFINE found == {i \in DOMAIN logs : Missed(logs[i].day) /\ HasOpen(logs[i].items)}
  <2>1. /\ logs' = logs /\ cron'.todo = [i \in found |-> logs[i]]
        /\ cron'.since = now /\ CronDue /\ now' = now /\ req' = req
    BY <1>2 DEF CronFind, NoCron
  <2> QED
    BY <2>1
<1>3. ASSUME NEW i \in DOMAIN cron.todo, CronReadOrg(i)
      PROVE  /\ id \in DOMAIN cron.todo /\ cron'.todo[id] = cron.todo[id]
             /\ cron'.since = cron.since
  BY <1>3 DEF CronReadOrg, StateOK, CronOK, NoCron
<1>4. CASE CronSave
  <2> DEFINE left == DOMAIN cron.todo \ {cron.id}
  <2>1. cron'.todo = [i \in left |-> cron.todo[i]] /\ cron'.since = cron.since
    BY <1>4 DEF CronSave, NoCron
  <2> QED
    BY <2>1
<1>5. ASSUME NEW r \in Reqs, CallStep(r) PROVE UNCHANGED cron
  BY <1>5 DEF CallStep, CallCheckIn, CallCheckOut, CallCreate, CallRemove,
              CallUpdate, Arrive
<1>6. ASSUME NEW r \in Reqs, HandlerStep(r) PROVE UNCHANGED cron
  BY <1>6 DEF HandlerStep, CheckInFindLog, CheckOutFindLog, CreateReadOrg,
     CreateFindExisting, CreateInsert, SetLastOrganization, UpdateFindLog,
     UpdateReadOrg, UpdateWrite, RemoveFindLog, RemoveDelete
<1>7. CASE OrgStep \/ Tick \/ UNCHANGED vars
  BY <1>1, <1>7 DEF OrgStep, SetSchedule, AddMember, RemoveMember, RemoveOrg,
                    ChangeOrg, Tick, vars
<1> QED
  BY <1>1, <1>2, <1>3, <1>4, <1>5, <1>6, <1>7 DEF Next, CronStep

-----------------------------------------------------------------------------
(* Whose log a handler writes.                                             *)

(* Past its check, a handler holds the id of a log of its own account, or  *)
(* of a log that has been removed since.                                   *)
OwnerHeld(q, docs) ==
  q.pc \in {"updateOrg", "write", "delete"} /\ q.id \in DOMAIN docs
    => docs[q.id].acct = q.acct
OwnersInv == \A r \in Reqs : OwnerHeld(req[r], logs)

LEMMA OwnersStep == StateOK /\ OwnersInv /\ [Next]_vars => OwnersInv'
<1> SUFFICES ASSUME StateOK, OwnersInv, [Next]_vars, NEW r \in Reqs
             PROVE  OwnerHeld(req'[r], logs')
  BY DEF OwnersInv
<1> DEFINE q == req[r]
           p == req'[r]
<1>1. Moves(q, p) /\ OwnerHeld(q, logs) /\ q.id \in Ids \cup {0}
  BY SlotsMove, ReqType DEF OwnersInv
<1>2. q.id \in DOMAIN logs' => q.id \in DOMAIN logs /\ logs'[q.id].acct = logs[q.id].acct
  BY <1>1, KeyKept DEF SameKey
<1> HIDE DEF q, p
<1>3. p = q => OwnerHeld(p, logs')
  BY <1>1, <1>2 DEF OwnerHeld
<1>4. p.pc \notin {"updateOrg", "write", "delete"} => OwnerHeld(p, logs')
  BY DEF OwnerHeld
<1>5. Updates(q, p) /\ p.acct = q.acct => OwnerHeld(p, logs')
  BY <1>1, <1>2 DEF Updates, OwnLog, OwnerHeld
<1> QED
  BY <1>1, <1>3, <1>4, <1>5 DEF Moves, Arrives, AsksClock, Creates, NoReq, q, p

(* A handler changes or deletes only logs of the account it serves: the    *)
(* check of the owner lies up to two awaits before the write, but neither  *)
(* the owner of a log nor the meaning of an id changes.                    *)
THEOREM OwnersOnly == Spec => OnlyOwnersWrite
<1> DEFINE A == \A r \in Reqs : \A id \in DOMAIN logs :
                  /\ req'[r] # req[r]
                  /\ id \in DOMAIN logs' => logs'[id] # logs[id]
                  => logs[id].acct = req[r].acct
<1>1. Init => OwnersInv
  BY DEF Init, OwnersInv, OwnerHeld, NoReq
<1>2. StateOK /\ OwnersInv /\ [Next]_vars => A
  <2> SUFFICES ASSUME StateOK, OwnersInv, [Next]_vars,
                      NEW r \in Reqs, NEW id \in DOMAIN logs, req'[r] # req[r],
                      id \in DOMAIN logs' => logs'[id] # logs[id]
               PROVE  logs[id].acct = req[r].acct
    OBVIOUS
  <2>1. OwnerHeld(req[r], logs)
    BY DEF OwnersInv
  <2>2. CallStep(r) \/ HandlerStep(r)
    BY SlotsMove
  <2>3. UpdateWrite(r) \/ RemoveDelete(r)
    <3>1. CallStep(r) => logs' = logs
      BY DEF CallStep, CallCheckIn, CallCheckOut, CallCreate, CallRemove,
             CallUpdate, Arrive
    <3>2. CreateInsert(r) => id \in DOMAIN logs' /\ logs'[id] = logs[id]
      BY DEF CreateInsert, Inserted, StateOK, LogsOK, Ids
    <3> QED
      BY <2>2, <3>1, <3>2 DEF HandlerStep, CheckInFindLog, CheckOutFindLog,
         CreateReadOrg, CreateFindExisting, SetLastOrganization, UpdateFindLog,
         UpdateReadOrg, RemoveFindLog
  <2>4. req[r].pc \in {"write", "delete"} /\ id = req[r].id
    BY <2>3 DEF UpdateWrite, Updated, RemoveDelete
  <2> QED
    BY <2>1, <2>4 DEF OwnerHeld
<1>3. Spec => [](StateOK /\ OwnersInv)
  BY <1>1, StateCorrect, OwnersStep, PTL DEF Spec
<1>4. Spec => [][A]_vars
  BY <1>2, <1>3, PTL DEF Spec
<1> QED
  BY <1>4 DEF OnlyOwnersWrite

-----------------------------------------------------------------------------
(* Hours.                                                                  *)

(* Clients leave the flag out of a PATCH.  One that changes it while the   *)
(* nightly job runs makes the job store hours computed under the old flag. *)
FlagsAreKept == \A b \in UpdateBodies : b.skip = None

HoursOf(hours, items, skip) ==
  \E s \in Schedules \cup {DefaultSchedule} :
    hours = WorkedHoursByDay(items, s.lunch, skip)

HoursHeld(q, docs) ==
  /\ q.pc \in {"checkIn", "checkOut", "update"} => q.skip = None
  /\ q.pc = "existing" => \E s \in Schedules : q.lunch = s.lunch
  /\ q.pc \in {"insert", "write"} => HoursOf(q.hours, q.items, q.skip)
  /\ q.pc \in {"updateOrg", "write"} /\ q.id \in DOMAIN docs
       => q.skip = docs[q.id].skip

HoursInv ==
  /\ HoursMatchItems
  /\ \A r \in Reqs : HoursHeld(req[r], logs)
  /\ \A id \in DOMAIN cron.todo \cap DOMAIN logs :
       cron.todo[id].skip = logs[id].skip

LEMMA FlagKept ==
  ASSUME StateOK, HoursInv, [Next]_vars, NEW id \in Ids \cup {0},
         id \in DOMAIN logs'
  PROVE  id \in DOMAIN logs /\ logs'[id].skip = logs[id].skip
<1>1. id # nextId
  BY DEF StateOK, Ids
<1>2. ASSUME NEW r \in Reqs, id \in DOMAIN logs, id = req[r].id,
             WrittenBy(req[r], logs'[id])
      PROVE  logs'[id].skip = logs[id].skip
  BY <1>2 DEF HoursInv, HoursHeld, WrittenBy
<1> QED
  BY <1>1, <1>2, LogsMove

LEMMA HoursSlot ==
  ASSUME StateOK, HoursInv, FlagsAreKept, [Next]_vars, NEW r \in Reqs
  PROVE  HoursHeld(req'[r], logs')
<1> DEFINE q == req[r]
           p == req'[r]
<1>1. Moves(q, p) /\ HoursHeld(q, logs) /\ q.id \in Ids \cup {0} /\ ReqOK(q)
  BY SlotsMove, ReqType DEF HoursInv
<1>2. q.id \in DOMAIN logs' => q.id \in DOMAIN logs /\ logs'[q.id].skip = logs[q.id].skip
  BY <1>1, FlagKept
<1> HIDE DEF q, p
<1>3. p = q => HoursHeld(p, logs')
  BY <1>1, <1>2 DEF HoursHeld
<1>4. p = NoReq => HoursHeld(p, logs')
  BY DEF HoursHeld, NoReq
<1>5. Arrives(q, p) => HoursHeld(p, logs')
  BY DEF Arrives, FlagsAreKept, HoursHeld
<1>6. AsksClock(q, p) => HoursHeld(p, logs')
  BY <1>1 DEF AsksClock, HoursHeld
<1>7. Creates(q, p) => HoursHeld(p, logs')
  <2>1. q.org \in Orgs /\ q.pc = "create" => orgs[q.org].schedule \in Schedules
    BY DEF StateOK, OrgsOK
  <2>2. q.pc = "create" => q.org \in Orgs
    BY <1>1 DEF ReqOK
  <2> QED
    BY <1>1, <2>1, <2>2 DEF Creates, HoursHeld, HoursOf
<1>8. Updates(q, p) => HoursHeld(p, logs')
  <2>1. q.org \in Orgs /\ q.pc = "updateOrg" => orgs[q.org].schedule \in Schedules
    BY DEF StateOK, OrgsOK
  <2>2. q.pc = "updateOrg" => q.org \in Orgs
    BY <1>1 DEF ReqOK
  <2> QED
    BY <1>1, <1>2, <2>1, <2>2 DEF Updates, OwnLog, HoursHeld, HoursOf
<1> QED
  BY <1>1, <1>3, <1>4, <1>5, <1>6, <1>7, <1>8 DEF Moves, q, p

LEMMA HoursStep ==
  ASSUME FlagsAreKept
  PROVE  StateOK /\ HoursInv /\ [Next]_vars => HoursInv'
<1> SUFFICES ASSUME StateOK, HoursInv, [Next]_vars PROVE HoursInv'
  OBVIOUS
<1>1. HoursMatchItems'
  <2> SUFFICES ASSUME NEW id \in DOMAIN logs'
               PROVE  HoursMatch(logs'[id])
    BY DEF HoursMatchItems, HoursMatch
  <2>1. id \in DOMAIN logs => HoursMatch(logs[id])
    BY DEF HoursInv, HoursMatchItems
  <2>2. ASSUME NEW r \in Reqs,
               InsertedBy(req[r], logs'[id]) \/ WrittenBy(req[r], logs'[id])
        PROVE  HoursMatch(logs'[id])
    BY <2>2 DEF HoursInv, HoursHeld, HoursOf, HoursMatch, InsertedBy, WrittenBy
  <2>3. ASSUME cron.pc = "save", id = cron.id, id \in DOMAIN logs,
               logs'[id].skip = logs[id].skip, ClosedByJob(cron.todo[id], logs'[id])
        PROVE  HoursMatch(logs'[id])
    <3>1. id \in DOMAIN cron.todo /\ cron.schedule \in Schedules \cup {DefaultSchedule}
      BY <2>3 DEF StateOK, CronOK
    <3>2. cron.todo[id].skip = logs'[id].skip
      BY <2>3, <3>1 DEF HoursInv
    <3> QED
      BY <2>3, <3>1, <3>2 DEF ClosedByJob, HoursMatch
  <2> QED
    BY <2>1, <2>2, <2>3, LogsMove
<1>2. \A r \in Reqs : HoursHeld(req'[r], logs')
  BY HoursSlot
<1>3. ASSUME NEW id \in DOMAIN cron'.todo, id \in DOMAIN logs'
      PROVE  cron'.todo[id].skip = logs'[id].skip
  <2>1. CASE id \in DOMAIN cron.todo /\ cron'.todo[id] = cron.todo[id]
    <3>1. id \in Ids
      BY <2>1 DEF StateOK, CronOK
    <3> QED
      BY <1>3, <2>1, <3>1, FlagKept DEF HoursInv
  <2> QED
    BY <1>3, <2>1, TodoMoves
<1> QED
  BY <1>1, <1>2, <1>3 DEF HoursInv

(* The hours of a log are those of the items and the flag stored beside    *)
(* them, although a handler computes them an await before it writes them   *)
(* and the nightly job from a document it read long before.                *)
THEOREM HoursCorrect ==
  ASSUME FlagsAreKept
  PROVE  Spec => []HoursMatchItems
<1>1. Init => HoursInv
  BY NoCronTodo DEF Init, HoursInv, HoursMatchItems, HoursHeld, NoReq
<1>2. StateOK /\ HoursInv /\ [Next]_vars => HoursInv'
  BY HoursStep
<1>3. HoursInv => HoursMatchItems
  BY DEF HoursInv
<1> QED
  BY <1>1, <1>2, <1>3, StateCorrect, PTL DEF Spec

-----------------------------------------------------------------------------
(* Dates.                                                                  *)

(* A PATCH of the items may move the first check-in to any day, and leaves *)
(* the date as it is.                                                      *)
NoSheets == "update" \notin Calls

Dated(l) == l.items # <<>> /\ l.day = Day(l.items[1].in)

DatedHeld(q, docs) ==
  q.pc \in {"update", "updateOrg", "write"}
    => /\ q.items # <<>>
       /\ q.id \in DOMAIN docs => docs[q.id].day = Day(q.items[1].in)

DatedInv ==
  /\ \A id \in DOMAIN logs : Dated(logs[id])
  /\ \A r \in Reqs : DatedHeld(req[r], logs)
  /\ \A id \in DOMAIN cron.todo :
       /\ Dated(cron.todo[id])
       /\ id \in DOMAIN logs => logs[id].day = cron.todo[id].day

(* The first check-in stays when a session is added or the last one ends.  *)
LEMMA FirstKept ==
  ASSUME NEW items \in Seq(Session), items # <<>>
  PROVE  /\ \A s \in Session : /\ Append(items, s) # <<>>
                               /\ Append(items, s)[1] = items[1]
         /\ \A t \in Int : /\ EndLast(items, t) # <<>>
                           /\ EndLast(items, t)[1].in = items[1].in
<1>1. Len(items) \in Nat /\ Len(items) >= 1
  OBVIOUS
<1>2. \A s \in Session : Append(items, s) # <<>> /\ Append(items, s)[1] = items[1]
  BY <1>1
<1>3. ASSUME NEW t \in Int
      PROVE  EndLast(items, t) # <<>> /\ EndLast(items, t)[1].in = items[1].in
  <2>0. 1 \in 1 .. Len(items)
    BY <1>1
  <2>1. /\ Len(EndLast(items, t)) = Len(items)
        /\ \A k \in 1 .. Len(items) :
             EndLast(items, t)[k] = IF k = Len(items) THEN [in |-> items[k].in, out |-> t]
                                    ELSE items[k]
    BY EndLastType
  <2> HIDE DEF EndLast
  <2>2. EndLast(items, t) # <<>>
    BY <1>1, <2>1
  <2>3. EndLast(items, t)[1] = [in |-> items[1].in, out |-> t]
          \/ EndLast(items, t)[1] = items[1]
    BY <2>0, <2>1, Zenon
  <2> QED
    BY <2>2, <2>3
<1> QED
  BY <1>2, <1>3

LEMMA DatedSlot ==
  ASSUME StateOK, DatedInv, NoSheets, [Next]_vars, NEW r \in Reqs
  PROVE  DatedHeld(req'[r], logs')
<1> DEFINE q == req[r]
           p == req'[r]
<1>1. Moves(q, p) /\ DatedHeld(q, logs) /\ q.id \in Ids \cup {0}
  BY SlotsMove, ReqType DEF DatedInv
<1>2. \A id \in DOMAIN logs : /\ Dated(logs[id]) /\ id \in Ids
                              /\ logs[id].items \in Seq(Session)
  BY LogType DEF DatedInv, LogOK
<1>3. \A id \in Ids \cup {0} :
        id \in DOMAIN logs' => id \in DOMAIN logs /\ logs'[id].day = logs[id].day
  BY KeyKept DEF SameKey
<1>4. now \in Int /\ Opening \in Session
  BY DEF StateOK, Opening, Session
<1> HIDE DEF q, p
<1>5. p = q => DatedHeld(p, logs')
  BY <1>1, <1>3 DEF DatedHeld
<1>6. p.pc \notin {"update", "updateOrg", "write"} => DatedHeld(p, logs')
  BY DEF DatedHeld
<1>7. AsksClock(q, p) => DatedHeld(p, logs')
  <2> SUFFICES ASSUME AsksClock(q, p), p.pc = "update"
               PROVE  DatedHeld(p, logs')
    BY <1>6 DEF AsksClock
  <2>1. p.id \in DOMAIN logs
    BY DEF AsksClock, LogsOf
  <2> DEFINE items == logs[p.id].items
  <2>2. items \in Seq(Session) /\ items # <<>> /\ logs[p.id].day = Day(items[1].in)
    BY <1>2, <2>1 DEF Dated
  <2>3. p.items = Append(items, Opening) \/ p.items = EndLast(items, now)
    BY DEF AsksClock
  <2> HIDE DEF items
  <2>4. p.items # <<>> /\ p.items[1].in = items[1].in
    BY <1>4, <2>2, <2>3, FirstKept
  <2> QED
    BY <1>2, <1>3, <2>1, <2>2, <2>4 DEF DatedHeld
<1>8. Updates(q, p) => DatedHeld(p, logs')
  BY <1>1, <1>3 DEF Updates, DatedHeld
<1> QED
  BY <1>1, <1>5, <1>6, <1>7, <1>8 DEF Moves, Arrives, NoSheets, Creates, NoReq, q, p

LEMMA DatedStep ==
  ASSUME NoSheets
  PROVE  StateOK /\ DatedInv /\ [Next]_vars => DatedInv'
<1> SUFFICES ASSUME StateOK, DatedInv, [Next]_vars PROVE DatedInv'
  OBVIOUS
<1>1. ASSUME NEW id \in DOMAIN logs' PROVE Dated(logs'[id])
  <2>1. id \in DOMAIN logs => Dated(logs[id])
    BY DEF DatedInv
  <2>2. ASSUME NEW r \in Reqs, InsertedBy(req[r], logs'[id])
        PROVE  Dated(logs'[id])
    <3>1. req[r].items \in Seq(Session) /\ Len(req[r].items) = 1
      BY <2>2, ReqType DEF InsertedBy, ReqOK
    <3> QED
      BY <2>2, <3>1 DEF InsertedBy, DateOfLog, Dated
  <2>3. ASSUME NEW r \in Reqs, id \in DOMAIN logs, SameKey(logs'[id], logs[id]),
               id = req[r].id, WrittenBy(req[r], logs'[id])
        PROVE  Dated(logs'[id])
    BY <2>3 DEF DatedInv, DatedHeld, WrittenBy, SameKey, Dated
  <2>4. ASSUME cron.pc = "save", id = cron.id, id \in DOMAIN logs,
               SameKey(logs'[id], logs[id]), ClosedByJob(cron.todo[id], logs'[id])
        PROVE  Dated(logs'[id])
    <3> DEFINE log == cron.todo[id]
               t == AutoCheckOut(Last(log.items).in, cron.schedule, log.skip)
    <3>1. /\ id \in DOMAIN cron.todo /\ LogOK(log) /\ HasOpen(log.items)
          /\ cron.schedule \in Schedules \cup {DefaultSchedule}
      BY <2>4 DEF StateOK, CronOK
    <3>2. log.items \in Seq(Session) /\ log.items # <<>> /\ t \in Int
      BY <3>1, AutoCloseType DEF LogOK
    <3>3. logs'[id].items = EndLast(log.items, t)
      BY <2>4 DEF ClosedByJob, AutoClose
    <3>4. log.day = Day(log.items[1].in) /\ logs[id].day = log.day
      BY <2>4, <3>1 DEF DatedInv, Dated
    <3> HIDE DEF log, t
    <3>5. logs'[id].items # <<>> /\ logs'[id].items[1].in = log.items[1].in
      BY <3>2, <3>3, FirstKept
    <3> QED
      BY <2>4, <3>4, <3>5 DEF SameKey, Dated
  <2> QED
    BY <2>1, <2>2, <2>3, <2>4, LogsMove
<1>2. \A r \in Reqs : DatedHeld(req'[r], logs')
  BY DatedSlot
<1>3. ASSUME NEW id \in DOMAIN cron'.todo
      PROVE  /\ Dated(cron'.todo[id])
             /\ id \in DOMAIN logs' => logs'[id].day = cron'.todo[id].day
  <2>1. CASE id \in DOMAIN cron.todo /\ cron'.todo[id] = cron.todo[id]
    <3>1. id \in Ids
      BY <2>1 DEF StateOK, CronOK
    <3> QED
      BY <2>1, <3>1, KeyKept DEF DatedInv, SameKey
  <2>2. CASE id \in DOMAIN logs /\ cron'.todo[id] = logs[id] /\ logs' = logs
    BY <2>2 DEF DatedInv
  <2> QED
    BY <2>1, <2>2, TodoMoves
<1> QED
  BY <1>1, <1>2, <1>3 DEF DatedInv

(* A log carries the date of its first check-in, although the date is      *)
(* taken from the check-in of the request and the items of a log from      *)
(* whoever wrote them last: as long as nobody edits sheets.                *)
THEOREM DatesCorrect ==
  ASSUME NoSheets
  PROVE  Spec => []DatedByFirstCheckIn
<1>1. Init => DatedInv
  BY NoCronTodo DEF Init, DatedInv, DatedHeld, NoReq
<1>2. StateOK /\ DatedInv /\ [Next]_vars => DatedInv'
  BY DatedStep
<1>3. DatedInv => DatedByFirstCheckIn
  BY DEF DatedInv, Dated, DatedByFirstCheckIn
<1> QED
  BY <1>1, <1>2, <1>3, StateCorrect, PTL DEF Spec

-----------------------------------------------------------------------------
(* Sessions of the clock.                                                  *)

(* Only check-ins and check-outs write items, and each is through within   *)
(* the hour between midnight and the nightly job.                          *)
ClockOnly == "create" \notin Calls /\ "update" \notin Calls
ShortFlights == MaxFlight < 3600

Past(items, t) == \A k \in DOMAIN items : Closed(items[k]) => items[k].out <= t

(* The nightly job of the night after this day has started.                *)
Late(day, t) == t >= (day + 1) * DaySeconds + 3600

(* A check-in finds the sessions of its day closed in the past: what the   *)
(* job writes, it writes to logs of a day that is late.                    *)
TimedLog(l, t) == Ordered(l.items) /\ (~Late(l.day, t) => Past(l.items, t))

(* A handler that writes items holds sessions in order which have ended by *)
(* now, and while it runs its day is not late.                             *)
TimedHeld(q, t) ==
  /\ q.pc # "idle" => q.since <= t /\ t - q.since <= MaxFlight
  /\ q.pc \in {"checkIn", "checkOut"} => q.day = Day(q.since)
  /\ q.pc \in {"create", "existing", "insert"} => ~Closed(q.items[1])
  /\ q.pc \in {"update", "updateOrg", "write"}
       => Ordered(q.items) /\ Past(q.items, t)

TimedTodo(todo, docs, t) ==
  \A id \in DOMAIN todo :
    /\ Ordered(todo[id].items) /\ Late(todo[id].day, t)
    /\ id \in DOMAIN docs => docs[id].day = todo[id].day

TimedInv ==
  /\ \A id \in DOMAIN logs : TimedLog(logs[id], now)
  /\ \A r \in Reqs : TimedHeld(req[r], now)
  /\ TimedTodo(cron.todo, logs, now)

LEMMA LateLater ==
  ASSUME NEW d \in Nat, NEW t \in Nat, NEW u \in Nat, t <= u
  PROVE  Late(d, t) => Late(d, u)
  BY DEF Late, DaySeconds

LEMMA NotLate ==
  ASSUME ShortFlights, NEW s \in Nat, NEW t \in Nat, t - s <= MaxFlight
  PROVE  ~Late(Day(s), t)
<1>1. MaxFlight \in Nat
  BY WorkLogAssumption
<1>2. s < (Day(s) + 1) * DaySeconds /\ Day(s) \in Nat
  BY DEF Day, DaySeconds
<1>3. (Day(s) + 1) * DaySeconds \in Nat
  BY <1>2 DEF DaySeconds
<1> QED
  BY <1>1, <1>2, <1>3 DEF Late, ShortFlights

LEMMA JobIsLate ==
  ASSUME NEW t \in Nat, CronTime(t), NEW d \in Nat, d = Day(t) - 1
  PROVE  Late(d, t)
  BY DEF CronTime, Late, Day, DaySeconds

LEMMA PastLater ==
  ASSUME NEW items \in Seq(Session), NEW t \in Nat, NEW u \in Nat, t <= u,
         Past(items, t)
  PROVE  Past(items, u)
<1> SUFFICES ASSUME NEW k \in DOMAIN items, Closed(items[k])
             PROVE  items[k].out <= u
  BY DEF Past
<1>1. items[k] \in Session
  OBVIOUS
<1>2. items[k].out \in Int /\ items[k].out <= t
  BY <1>1 DEF Past, Session, Closed
<1> QED
  BY <1>2

(* A new session starts when the others have ended.                        *)
LEMMA AppendTimed ==
  ASSUME NEW items \in Seq(Session), Ordered(items), NEW t \in Nat, Past(items, t),
         items = <<>> \/ Closed(Last(items)),
         NEW s \in Session, s.in = t, ~Closed(s)
  PROVE  Ordered(Append(items, s)) /\ Past(Append(items, s), t)
<1> DEFINE n == Len(items)
           longer == Append(items, s)
<1>1. /\ n \in Nat /\ DOMAIN items = 1 .. n /\ DOMAIN longer = 1 .. n + 1
      /\ longer[n + 1] = s
      /\ \A k \in 1 .. n : longer[k] = items[k]
  OBVIOUS
<1>0. n >= 1 => Closed(items[n])
  BY DEF Last
<1> HIDE DEF longer, n
<1>2. ASSUME NEW k \in 1 .. n PROVE Closed(items[k]) /\ items[k].out <= t
  <2>1. CASE k = n
    BY <1>0, <1>1, <2>1 DEF Past
  <2>2. CASE k # n
    <3>1. k \in DOMAIN items /\ n \in DOMAIN items /\ k < n
      BY <1>1, <2>2
    <3>2. Closed(items[k])
      BY <3>1 DEF Ordered
    <3> QED
      BY <3>1, <3>2 DEF Past
  <2> QED
    BY <2>1, <2>2
<1>3. Past(longer, t)
  <2> SUFFICES ASSUME NEW k \in 1 .. n + 1, Closed(longer[k])
               PROVE  longer[k].out <= t
    BY <1>1 DEF Past
  <2>1. k \in 1 .. n
    BY <1>1
  <2> QED
    BY <1>1, <1>2, <2>1
<1>4. Ordered(longer)
  <2> SUFFICES ASSUME NEW j \in 1 .. n + 1, NEW k \in 1 .. n + 1, j < k
               PROVE  Closed(longer[j]) /\ longer[j].out <= longer[k].in
    BY <1>1 DEF Ordered
  <2>1. j \in 1 .. n
    BY <1>1
  <2>2. CASE k = n + 1
    BY <1>1, <1>2, <2>1, <2>2
  <2>3. CASE k # n + 1
    <3>1. k \in 1 .. n
      BY <1>1, <2>3
    <3> QED
      BY <1>1, <2>1, <3>1 DEF Ordered
  <2> QED
    BY <2>2, <2>3
<1> QED
  BY <1>3, <1>4 DEF longer

LEMMA EndLastFields ==
  ASSUME NEW items \in Seq(Session), items # <<>>, NEW t \in Int
  PROVE  /\ DOMAIN EndLast(items, t) = 1 .. Len(items)
         /\ \A k \in 1 .. Len(items) :
              /\ EndLast(items, t)[k].in = items[k].in
              /\ EndLast(items, t)[k].out = IF k = Len(items) THEN t ELSE items[k].out
<1> DEFINE n == Len(items)
           ended == EndLast(items, t)
<1>1. ended \in Seq(Session) /\ Len(ended) = n
  BY EndLastType
<1>2. \A k \in 1 .. n : ended[k] = IF k = n THEN [in |-> items[k].in, out |-> t]
                                   ELSE items[k]
  BY EndLastType
<1>3. DOMAIN ended = 1 .. n
  BY <1>1
<1> HIDE DEF ended
<1>4. ASSUME NEW k \in 1 .. n
      PROVE  ended[k].in = items[k].in /\ ended[k].out = IF k = n THEN t ELSE items[k].out
  <2>1. CASE k = n
    <3>1. ended[k] = [in |-> items[k].in, out |-> t]
      BY <1>2, <2>1, Zenon
    <3> QED
      BY <2>1, <3>1
  <2>2. CASE k # n
    <3>1. ended[k] = items[k]
      BY <1>2, <2>2, Zenon
    <3> QED
      BY <2>2, <3>1
  <2> QED
    BY <2>1, <2>2
<1> QED
  BY <1>3, <1>4 DEF ended

(* The last session may end at any time.                                   *)
LEMMA EndLastOrdered ==
  ASSUME NEW items \in Seq(Session), items # <<>>, Ordered(items), NEW t \in Int
  PROVE  Ordered(EndLast(items, t))
<1> DEFINE n == Len(items)
           ended == EndLast(items, t)
<1>1. n \in Nat /\ DOMAIN items = 1 .. n /\ DOMAIN ended = 1 .. n
  BY EndLastFields
<1>2. \A k \in 1 .. n : /\ ended[k].in = items[k].in
                        /\ k # n => ended[k].out = items[k].out
  BY EndLastFields
<1> HIDE DEF ended, n
<1> SUFFICES ASSUME NEW j \in 1 .. n, NEW k \in 1 .. n, j < k
             PROVE  Closed(ended[j]) /\ ended[j].out <= ended[k].in
  BY <1>1 DEF Ordered, ended
<1>3. j # n
  BY <1>1
<1>4. Closed(items[j]) /\ items[j].out <= items[k].in
  BY <1>1 DEF Ordered
<1> QED
  BY <1>2, <1>3, <1>4 DEF Closed

LEMMA EndLastPast ==
  ASSUME NEW items \in Seq(Session), items # <<>>, NEW t \in Nat, Past(items, t)
  PROVE  Past(EndLast(items, t), t)
<1> DEFINE n == Len(items)
           ended == EndLast(items, t)
<1>1. n \in Nat /\ DOMAIN items = 1 .. n /\ DOMAIN ended = 1 .. n
  BY EndLastFields
<1>2. \A k \in 1 .. n : ended[k].out = IF k = n THEN t ELSE items[k].out
  BY EndLastFields
<1> HIDE DEF ended, n
<1> QED
  BY <1>1, <1>2 DEF Past, Closed, ended

LEMMA NowMoves ==
  ASSUME StateOK, [Next]_vars
  PROVE  \/ now' = now
         \/ /\ UNCHANGED <<logs, req, cron>> /\ now' \in Nat /\ now < now'
            /\ \A r \in Reqs : Idle(r) \/ now' - req[r].since <= MaxFlight
<1>1. ASSUME NEW r \in Reqs, CallStep(r) PROVE UNCHANGED now
  BY <1>1 DEF CallStep, CallCheckIn, CallCheckOut, CallCreate, CallRemove,
              CallUpdate, Arrive
<1>2. ASSUME NEW r \in Reqs, HandlerStep(r) PROVE UNCHANGED now
  BY <1>2 DEF HandlerStep, CheckInFindLog, CheckOutFindLog, CreateReadOrg,
     CreateFindExisting, CreateInsert, SetLastOrganization, UpdateFindLog,
     UpdateReadOrg, UpdateWrite, RemoveFindLog, RemoveDelete
<1>3. CASE CronStep \/ OrgStep \/ UNCHANGED vars
  BY <1>3 DEF CronStep, CronFind, CronReadOrg, CronSave, OrgStep, SetSchedule,
     AddMember, RemoveMember, RemoveOrg, ChangeOrg, vars
<1>4. CASE Tick
  BY <1>4, WorkLogAssumption DEF Tick, StateOK
<1> QED
  BY <1>1, <1>2, <1>3, <1>4 DEF Next

LEMMA TimedSlot ==
  ASSUME StateOK, TimedInv, ClockOnly, ShortFlights, [Next]_vars, now' = now,
         NEW r \in Reqs
  PROVE  TimedHeld(req'[r], now)
<1> DEFINE q == req[r]
           p == req'[r]
<1>1. Moves(q, p) /\ TimedHeld(q, now) /\ ReqOK(q)
  BY SlotsMove, ReqType DEF TimedInv
<1>2. now \in Nat /\ Opening \in Session /\ ~Closed(Opening) /\ Opening.in = now
  BY DEF StateOK, Opening, Session, Closed
<1>3. MaxFlight \in Nat
  BY WorkLogAssumption
<1>4. \A id \in DOMAIN logs : TimedLog(logs[id], now) /\ logs[id].items \in Seq(Session)
  BY LogType DEF TimedInv, LogOK
<1> HIDE DEF q, p
<1>5. p = q => TimedHeld(p, now)
  BY <1>1
<1>6. p = NoReq => TimedHeld(p, now)
  BY DEF TimedHeld, NoReq
<1>7. Arrives(q, p) => TimedHeld(p, now)
  BY <1>2, <1>3 DEF Arrives, ClockOnly, TimedHeld
<1> SUFFICES ASSUME p.since = q.since, p.day = q.day,
                    AsksClock(q, p) \/ Creates(q, p) \/ Updates(q, p)
             PROVE  TimedHeld(p, now)
  BY <1>1, <1>5, <1>6, <1>7 DEF Moves, q, p
<1>8. q.pc # "idle" /\ p.since <= now /\ now - p.since <= MaxFlight
  BY <1>1 DEF TimedHeld, AsksClock, Creates, Updates
<1>9. CASE AsksClock(q, p) /\ p.pc = "create"
  BY <1>2, <1>8, <1>9 DEF AsksClock, TimedHeld
<1>10. CASE AsksClock(q, p) /\ p.pc = "update"
  <2>1. p.id \in DOMAIN logs /\ logs[p.id].day = q.day
    BY <1>10 DEF AsksClock, LogsOf
  <2>2. q.day = Day(q.since) /\ q.since \in Nat
    BY <1>1, <1>10 DEF AsksClock, TimedHeld, ReqOK
  <2> DEFINE items == logs[p.id].items
  <2>3. ~Late(q.day, now)
    BY <1>2, <1>8, <2>2, NotLate
  <2>4. items \in Seq(Session) /\ Ordered(items) /\ Past(items, now)
    BY <1>4, <2>1, <2>3 DEF TimedLog
  <2>5. \/ /\ items = <<>> \/ Closed(Last(items))
           /\ p.items = Append(items, Opening)
        \/ items # <<>> /\ p.items = EndLast(items, now)
    BY <1>10 DEF AsksClock
  <2> HIDE DEF items
  <2>6. Ordered(p.items) /\ Past(p.items, now)
    <3>1. CASE (items = <<>> \/ Closed(Last(items))) /\ p.items = Append(items, Opening)
      BY <1>2, <2>4, <3>1, AppendTimed
    <3>2. CASE items # <<>> /\ p.items = EndLast(items, now)
      BY <1>2, <2>4, <3>2, EndLastOrdered, EndLastPast
    <3> QED
      BY <2>5, <3>1, <3>2
  <2> QED
    BY <1>8, <1>10, <2>6 DEF TimedHeld
<1>11. CASE Creates(q, p)
  BY <1>1, <1>8, <1>11 DEF Creates, TimedHeld
<1>12. CASE Updates(q, p)
  BY <1>1, <1>8, <1>12 DEF Updates, TimedHeld
<1> QED
  BY <1>9, <1>10, <1>11, <1>12 DEF AsksClock

LEMMA TimedStep ==
  ASSUME ClockOnly, ShortFlights
  PROVE  StateOK /\ TimedInv /\ [Next]_vars => TimedInv'
<1> SUFFICES ASSUME StateOK, TimedInv, [Next]_vars PROVE TimedInv'
  OBVIOUS
<1>0. now \in Nat
  BY DEF StateOK
<1>1. ASSUME now' = now, NEW id \in DOMAIN logs' PROVE TimedLog(logs'[id], now)
  <2>1. id \in DOMAIN logs => TimedLog(logs[id], now)
    BY DEF TimedInv
  <2>2. ASSUME NEW r \in Reqs, InsertedBy(req[r], logs'[id])
        PROVE  TimedLog(logs'[id], now)
    <3>1. /\ req[r].items \in Seq(Session) /\ Len(req[r].items) = 1
          /\ ~Closed(req[r].items[1])
      BY <2>2, ReqType DEF InsertedBy, ReqOK, TimedInv, TimedHeld
    <3>2. \A k \in DOMAIN req[r].items : k = 1
      BY <3>1
    <3> QED
      BY <2>2, <3>1, <3>2 DEF InsertedBy, TimedLog, Ordered, Past
  <2>3. ASSUME NEW r \in Reqs, WrittenBy(req[r], logs'[id])
        PROVE  TimedLog(logs'[id], now)
    BY <2>3 DEF TimedInv, TimedHeld, WrittenBy, TimedLog
  <2>4. ASSUME cron.pc = "save", id = cron.id, id \in DOMAIN logs,
               SameKey(logs'[id], logs[id]), ClosedByJob(cron.todo[id], logs'[id])
        PROVE  TimedLog(logs'[id], now)
    <3> DEFINE log == cron.todo[id]
               t == AutoCheckOut(Last(log.items).in, cron.schedule, log.skip)
    <3>1. /\ id \in DOMAIN cron.todo /\ LogOK(log) /\ HasOpen(log.items)
          /\ cron.schedule \in Schedules \cup {DefaultSchedule}
      BY <2>4 DEF StateOK, CronOK
    <3>2. log.items \in Seq(Session) /\ log.items # <<>> /\ t \in Int
      BY <3>1, AutoCloseType DEF LogOK
    <3>3. logs'[id].items = EndLast(log.items, t)
      BY <2>4 DEF ClosedByJob, AutoClose
    <3>4. Ordered(log.items) /\ Late(log.day, now) /\ logs[id].day = log.day
      BY <2>4, <3>1 DEF TimedInv, TimedTodo
    <3> HIDE DEF log, t
    <3> QED
      BY <2>4, <3>2, <3>3, <3>4, EndLastOrdered DEF SameKey, TimedLog
  <2> QED
    BY <2>1, <2>2, <2>3, <2>4, LogsMove
<1>2. ASSUME now' = now PROVE TimedTodo(cron'.todo, logs', now)
  <2> SUFFICES ASSUME NEW id \in DOMAIN cron'.todo
               PROVE  /\ Ordered(cron'.todo[id].items) /\ Late(cron'.todo[id].day, now)
                      /\ id \in DOMAIN logs' => logs'[id].day = cron'.todo[id].day
    BY DEF TimedTodo
  <2>1. CASE id \in DOMAIN cron.todo /\ cron'.todo[id] = cron.todo[id]
    <3>1. id \in Ids
      BY <2>1 DEF StateOK, CronOK
    <3> QED
      BY <2>1, <3>1, KeyKept DEF TimedInv, TimedTodo, SameKey
  <2>2. CASE /\ id \in DOMAIN logs /\ cron'.todo[id] = logs[id] /\ logs' = logs
             /\ Missed(logs[id].day) /\ CronDue
    <3>1. logs[id].day \in Nat
      BY <2>2, LogType DEF LogOK
    <3>2. Late(logs[id].day, now)
      BY <1>0, <2>2, <3>1, JobIsLate DEF CronDue, Missed
    <3> QED
      BY <2>2, <3>2 DEF TimedInv, TimedLog
  <2> QED
    BY <2>1, <2>2, TodoMoves
<1>3. CASE now' = now
  BY <1>1, <1>2, <1>3, TimedSlot DEF TimedInv
<1>4. CASE /\ UNCHANGED <<logs, req, cron>> /\ now' \in Nat /\ now < now'
           /\ \A r \in Reqs : Idle(r) \/ now' - req[r].since <= MaxFlight
  <2>0. now <= now'
    BY <1>0, <1>4
  <2>1. ASSUME NEW id \in DOMAIN logs PROVE TimedLog(logs[id], now')
    <3>1. TimedLog(logs[id], now) /\ logs[id].day \in Nat /\ logs[id].items \in Seq(Session)
      BY LogType DEF TimedInv, LogOK
    <3> QED
      BY <1>0, <1>4, <2>0, <3>1, LateLater, PastLater DEF TimedLog
  <2>2. ASSUME NEW r \in Reqs PROVE TimedHeld(req[r], now')
    <3>1. /\ TimedHeld(req[r], now) /\ req[r].since \in Nat
          /\ req[r].items \in Seq(Session)
      BY ReqType DEF TimedInv, ReqOK
    <3>2. Past(req[r].items, now) => Past(req[r].items, now')
      BY <1>0, <1>4, <2>0, <3>1, PastLater
    <3> QED
      BY <1>0, <1>4, <2>0, <3>1, <3>2 DEF TimedHeld, Idle
  <2>3. TimedTodo(cron.todo, logs, now')
    <3>1. \A id \in DOMAIN cron.todo : cron.todo[id].day \in Nat
      BY DEF StateOK, CronOK, LogOK
    <3> QED
      BY <1>0, <1>4, <2>0, <3>1, LateLater DEF TimedInv, TimedTodo
  <2> QED
    BY <1>4, <2>1, <2>2, <2>3 DEF TimedInv
<1> QED
  BY <1>3, <1>4, NowMoves

(* The sessions the clock stores follow one another, although a check-in   *)
(* and a check-out write items they read three awaits before: a session    *)
(* starts after those it was appended to had ended, and what the nightly   *)
(* job ends in the future belongs to a day no check-in looks at any more.  *)
THEOREM SessionsFollow ==
  ASSUME ClockOnly, ShortFlights
  PROVE  Spec => []SessionsDoNotOverlap
<1>1. Init => TimedInv
  BY NoCronTodo DEF Init, TimedInv, TimedTodo, TimedHeld, NoReq
<1>2. StateOK /\ TimedInv /\ [Next]_vars => TimedInv'
  BY TimedStep
<1>3. TimedInv => SessionsDoNotOverlap
  BY DEF TimedInv, TimedLog, SessionsDoNotOverlap
<1> QED
  BY <1>1, <1>2, <1>3, StateCorrect, PTL DEF Spec

=============================================================================
