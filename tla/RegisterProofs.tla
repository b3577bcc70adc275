---------------------------- MODULE RegisterProofs ----------------------------
(***************************************************************************)
(* The collection of work logs implements the register of Attendance, step *)
(* by step, for any number of accounts, organizations, handlers in flight  *)
(* and instants, when employees use the clock and wait for its answers.    *)
(***************************************************************************)
EXTENDS WorkLogRegister, WorkLogWrites, FiniteSetTheorems

(* An employee sends no request before the last one was answered.          *)
AwaitsAnswers == Unanswered = 1 /\ IsFiniteSet(Reqs)

-----------------------------------------------------------------------------
(* The pages of the register.                                              *)

(* The ids, and the sessions, that documents have for a key.               *)
IdsFor(docs, k) ==
  {id \in DOMAIN docs : docs[id].acct = k[1] /\ docs[id].org = k[2] /\ docs[id].day = k[3]}

Page(docs, k) ==
  IF IdsFor(docs, k) = {} THEN <<>> ELSE docs[CHOOSE id \in IdsFor(docs, k) : TRUE].items

KeyOf(l) == <<l.acct, l.org, l.day>>

OneEach(docs) ==
  \A i, j \in DOMAIN docs :
    /\ docs[i].acct = docs[j].acct
    /\ docs[i].org = docs[j].org
    /\ docs[i].day = docs[j].day
    => i = j

LEMMA BookPages ==
  /\ Book = [k \in Keys |-> Page(logs, k)]
  /\ Book' = [k \in Keys |-> Page(logs', k)]
  BY DEF Book, Page, IdsFor, LogsOf

LEMMA PageHas ==
  ASSUME NEW docs, OneEach(docs), NEW id \in DOMAIN docs
  PROVE  Page(docs, KeyOf(docs[id])) = docs[id].items
<1>1. IdsFor(docs, KeyOf(docs[id])) = {id}
  BY DEF IdsFor, KeyOf, OneEach
<1> QED
  BY <1>1 DEF Page

(* Pages are the same when their documents are.                            *)
LEMMA PageSame ==
  ASSUME NEW docs, NEW more, NEW k \in Keys,
         IdsFor(more, k) = IdsFor(docs, k),
         \A id \in IdsFor(docs, k) : more[id].items = docs[id].items
  PROVE  Page(more, k) = Page(docs, k)
<1>1. CASE IdsFor(docs, k) = {}
  BY <1>1 DEF Page
<1>2. CASE IdsFor(docs, k) # {}
  <2>1. (CHOOSE id \in IdsFor(docs, k) : TRUE) \in IdsFor(docs, k)
    BY <1>2
  <2> QED
    BY <1>2, <2>1 DEF Page
<1> QED
  BY <1>1, <1>2

(* A key is a triple.                                                      *)
LEMMA KeyFields ==
  \A k \in Keys : k = <<k[1], k[2], k[3]>>
  BY DEF Keys

LEMMA KeyOfDoc ==
  ASSUME NEW docs, NEW id \in DOMAIN docs, NEW k \in Keys
  PROVE  id \in IdsFor(docs, k) <=> KeyOf(docs[id]) = k
  BY KeyFields DEF IdsFor, KeyOf

(* Sessions of one log are written.                                        *)
LEMMA PageWritten ==
  ASSUME OneEach(logs), OneEach(logs'), NEW id \in DOMAIN logs, KeyOf(logs[id]) \in Keys,
         DOMAIN logs' = DOMAIN logs,
         \A i \in DOMAIN logs : SameKey(logs'[i], logs[i]),
         \A i \in DOMAIN logs : i # id => logs'[i].items = logs[i].items
  PROVE  /\ Book[KeyOf(logs[id])] = logs[id].items
         /\ Book' = [Book EXCEPT ![KeyOf(logs[id])] = logs'[id].items]
<1> DEFINE k == KeyOf(logs[id])
<1>1. Page(logs, k) = logs[id].items
  BY PageHas
<1>2. KeyOf(logs'[id]) = k
  BY DEF SameKey, KeyOf
<1>3. Page(logs', k) = logs'[id].items
  BY <1>2, PageHas
<1>4. ASSUME NEW m \in Keys, m # k
      PROVE  Page(logs', m) = Page(logs, m)
  <2>1. IdsFor(logs', m) = IdsFor(logs, m)
    BY DEF IdsFor, SameKey
  <2>2. id \notin IdsFor(logs, m)
    BY <1>4, KeyOfDoc
  <2>3. \A i \in IdsFor(logs, m) : logs'[i].items = logs[i].items
    BY <2>2 DEF IdsFor
  <2> QED
    BY <2>1, <2>3, PageSame
<1> HIDE DEF k
<1>5. \A m \in Keys : Page(logs', m) = IF m = k THEN logs'[id].items ELSE Page(logs, m)
  BY <1>3, <1>4
<1> QED
  BY <1>1, <1>5, BookPages DEF k

(* A log is added.                                                         *)
LEMMA PageAdded ==
  ASSUME OneEach(logs'), NEW id, id \notin DOMAIN logs, NEW k \in Keys,
         IdsFor(logs, k) = {}, DOMAIN logs' = DOMAIN logs \cup {id}, KeyOf(logs'[id]) = k,
         \A i \in DOMAIN logs : logs'[i] = logs[i]
  PROVE  Book[k] = <<>> /\ Book' = [Book EXCEPT ![k] = logs'[id].items]
<1>1. Page(logs, k) = <<>>
  BY DEF Page
<1>2. Page(logs', k) = logs'[id].items
  BY PageHas
<1>3. ASSUME NEW m \in Keys, m # k
      PROVE  Page(logs', m) = Page(logs, m)
  <2>1. id \notin IdsFor(logs', m)
    BY <1>3, KeyOfDoc
  <2>2. IdsFor(logs', m) = IdsFor(logs, m)
    BY <2>1 DEF IdsFor
  <2>3. \A i \in IdsFor(logs, m) : logs'[i].items = logs[i].items
    BY DEF IdsFor
  <2> QED
    BY <2>2, <2>3, PageSame
<1>4. \A m \in Keys : Page(logs', m) = IF m = k THEN logs'[id].items ELSE Page(logs, m)
  BY <1>2, <1>3
<1> QED
  BY <1>1, <1>4, BookPages

(* A log is deleted.                                                       *)
LEMMA PageErased ==
  ASSUME OneEach(logs), NEW id \in DOMAIN logs, KeyOf(logs[id]) \in Keys,
         DOMAIN logs' = DOMAIN logs \ {id},
         \A i \in DOMAIN logs' : logs'[i] = logs[i]
  PROVE  Book' = [Book EXCEPT ![KeyOf(logs[id])] = <<>>]
<1> DEFINE k == KeyOf(logs[id])
<1>1. Page(logs', k) = <<>>
  <2>1. IdsFor(logs', k) = {}
    BY DEF IdsFor, OneEach, KeyOf
  <2> QED
    BY <2>1 DEF Page
<1>2. ASSUME NEW m \in Keys, m # k
      PROVE  Page(logs', m) = Page(logs, m)
  <2>1. id \notin IdsFor(logs, m)
    BY <1>2, KeyOfDoc
  <2>2. IdsFor(logs', m) = IdsFor(logs, m)
    BY <2>1 DEF IdsFor
  <2>3. \A i \in IdsFor(logs, m) : logs'[i].items = logs[i].items
    BY <2>2 DEF IdsFor
  <2> QED
    BY <2>2, <2>3, PageSame
<1> HIDE DEF k
<1>3. \A m \in Keys : Page(logs', m) = IF m = k THEN <<>> ELSE Page(logs, m)
  BY <1>1, <1>2
<1> QED
  BY <1>3, BookPages DEF k

-----------------------------------------------------------------------------
(* What the nightly job holds.                                             *)

Stores(q) == q.pc \in {"update", "updateOrg", "write"}

(* A handler of the clock writes a log of the day on which it started, so  *)
(* that what the job took from the day before it stays as the job found it.*)
DayHeld(q, docs) ==
  Stores(q) /\ q.id \in DOMAIN docs => docs[q.id].day = Day(q.since)

JobInv ==
  /\ \A r \in Reqs : DayHeld(req[r], logs)
  /\ \A id \in DOMAIN cron.todo :
       /\ cron.todo[id].day = Day(cron.since) - 1
       /\ id \in DOMAIN logs => logs[id].items = cron.todo[id].items

(* Who changes a stored log.                                               *)
LEMMA LogChanges ==
  ASSUME StateOK, [Next]_vars, NEW id \in DOMAIN logs, id \in DOMAIN logs',
         logs'[id] # logs[id]
  PROVE  \/ \E s \in Reqs : UpdateWrite(s) /\ id = req[s].id
         \/ CronSave /\ id = cron.id
<1>1. ASSUME NEW s \in Reqs, CreateInsert(s) PROVE FALSE
  BY <1>1 DEF CreateInsert, Inserted, StateOK, LogsOK, Ids
<1>2. ASSUME NEW s \in Reqs, UpdateWrite(s) PROVE id = req[s].id
  BY <1>2 DEF UpdateWrite, Updated
<1>3. ASSUME NEW s \in Reqs, RemoveDelete(s) PROVE FALSE
  BY <1>3 DEF RemoveDelete
<1>4. CronSave => id = cron.id
  BY DEF CronSave
<1> QED
  BY <1>1, <1>2, <1>3, <1>4, Writes

(* A log that is written during the day is not in the hands of the job.    *)
LEMMA NotWithJob ==
  ASSUME StateOK, TimedInv, JobInv, ShortFlights, NEW r \in Reqs,
         Stores(req[r]), req[r].id \in DOMAIN logs
  PROVE  req[r].id \notin DOMAIN cron.todo
<1> DEFINE q == req[r]
<1>1. /\ q.since \in Nat /\ now \in Nat /\ now - q.since <= MaxFlight
      /\ logs[q.id].day = Day(q.since)
  BY ReqType DEF StateOK, ReqOK, TimedInv, TimedHeld, JobInv, DayHeld, Stores
<1>2. ~Late(Day(q.since), now)
  BY <1>1, NotLate
<1> QED
  BY <1>1, <1>2 DEF TimedInv, TimedTodo

LEMMA DaySlot ==
  ASSUME StateOK, TimedInv, JobInv, ClockOnly, [Next]_vars, NEW r \in Reqs
  PROVE  DayHeld(req'[r], logs')
<1> DEFINE q == req[r]
           p == req'[r]
<1>1. Moves(q, p) /\ DayHeld(q, logs) /\ TimedHeld(q, now) /\ q.id \in Ids \cup {0}
  BY SlotsMove, ReqType DEF JobInv, TimedInv
<1>2. ASSUME NEW id \in Ids \cup {0}, id \in DOMAIN logs'
      PROVE  id \in DOMAIN logs /\ logs'[id].day = logs[id].day
  BY <1>2, KeyKept DEF SameKey
<1> HIDE DEF q, p
<1>3. p.id = q.id /\ p.since = q.since /\ Stores(q) => DayHeld(p, logs')
  BY <1>1, <1>2 DEF DayHeld
<1>4. ASSUME AsksClock(q, p), p.pc = "update", p.since = q.since
      PROVE  DayHeld(p, logs')
  <2>1. p.id \in DOMAIN logs /\ logs[p.id].day = Day(q.since)
    BY <1>1, <1>4 DEF AsksClock, LogsOf, TimedHeld
  <2>2. p.id \in Ids
    BY <2>1 DEF StateOK, LogsOK
  <2> QED
    BY <1>2, <1>4, <2>1, <2>2 DEF DayHeld
<1>5. CASE ~Stores(p)
  <2>1. DayHeld(p, logs')
    BY <1>5 DEF DayHeld
  <2> QED
    BY <2>1 DEF p
<1>6. Stores(p) => p # NoReq /\ ~Arrives(q, p) /\ ~Creates(q, p)
  BY DEF Stores, NoReq, Arrives, Creates, ClockOnly
<1>7. Updates(q, p) /\ Stores(p) => Stores(q) /\ p.id = q.id
  BY DEF Updates, Stores
<1>8. AsksClock(q, p) /\ Stores(p) => p.pc = "update"
  BY DEF AsksClock, Stores
<1>9. CASE Stores(p)
  <2>1. DayHeld(p, logs')
    BY <1>1, <1>3, <1>4, <1>6, <1>7, <1>8, <1>9 DEF Moves
  <2> QED
    BY <2>1 DEF p
<1> QED
  BY <1>5, <1>9

LEMMA JobStep ==
  ASSUME ClockOnly, ShortFlights
  PROVE  StateOK /\ TimedInv /\ JobInv /\ [Next]_vars => JobInv'
<1> SUFFICES ASSUME StateOK, TimedInv, JobInv, [Next]_vars PROVE JobInv'
  OBVIOUS
<1>1. ASSUME NEW id \in DOMAIN cron'.todo
      PROVE  /\ cron'.todo[id].day = Day(cron'.since) - 1
             /\ id \in DOMAIN logs' => logs'[id].items = cron'.todo[id].items
  <2>1. CASE /\ id \in DOMAIN cron.todo /\ cron'.todo[id] = cron.todo[id]
             /\ cron'.since = cron.since
    <3>1. id \in Ids
      BY <2>1 DEF StateOK, CronOK
    <3>2. ASSUME id \in DOMAIN logs' PROVE id \in DOMAIN logs /\ logs'[id] = logs[id]
      <4>1. id \in DOMAIN logs
        BY <3>1, <3>2, KeyKept
      <4>2. ASSUME NEW s \in Reqs, UpdateWrite(s) PROVE id # req[s].id
        BY <2>1, <4>1, <4>2, NotWithJob DEF UpdateWrite, Stores
      <4>3. CronSave => id # cron.id
        BY DEF CronSave, NoCron
      <4> QED
        BY <3>2, <4>1, <4>2, <4>3, LogChanges
    <3> QED
      BY <2>1, <3>2 DEF JobInv
  <2>2. CASE /\ id \in DOMAIN logs /\ cron'.todo[id] = logs[id] /\ logs' = logs
             /\ Missed(logs[id].day) /\ cron'.since = now
    BY <2>2 DEF Missed
  <2> QED
    BY <2>1, <2>2, TodoMoves
<1> QED
  BY <1>1, DaySlot DEF JobInv

(* The last session of what the job took is open.                          *)
LEMMA LastIsOpen ==
  ASSUME NEW items \in Seq(Session), HasOpen(items), Ordered(items)
  PROVE  items # <<>> /\ ~Closed(Last(items)) /\ Last(items) \in Session
<1>1. PICK n \in DOMAIN items : ~Closed(items[n])
  BY DEF HasOpen
<1>2. n = Len(items)
  BY <1>1 DEF Ordered
<1> QED
  BY <1>1, <1>2 DEF Last

LEMMA JobInit == Init => JobInv
<1>1. DayHeld(NoReq, logs)
  BY DEF DayHeld, Stores, NoReq
<1> QED
  BY <1>1, NoCronTodo DEF Init, JobInv

(* The job ends the open session of a log of the day before and touches    *)
(* nothing else, although it stores items that it read at the start of its *)
(* run: with the clock alone as a client, and handlers faster than the     *)
(* hour between midnight and the job.                                      *)
THEOREM JobKeepsWork ==
  ASSUME ClockOnly, ShortFlights
  PROVE  Spec => AutoCheckoutKeepsWork
<1> DEFINE A == CronSave => \A id \in DOMAIN logs : logs'[id] # logs[id] => AutoCheckout(id)
<1>1. StateOK /\ TimedInv /\ JobInv /\ [Next]_vars => A
  <2> SUFFICES ASSUME StateOK, TimedInv, JobInv, CronSave,
                      NEW id \in DOMAIN logs, logs'[id] # logs[id]
               PROVE  AutoCheckout(id)
    OBVIOUS
  <2> DEFINE log == cron.todo[id]
             items == logs[id].items
             t == AutoCheckOut(Last(log.items).in, cron.schedule, log.skip)
  <2>1. id = cron.id /\ id \in DOMAIN cron.todo
    BY DEF CronSave, StateOK, CronOK
  <2>2. /\ LogOK(log) /\ HasOpen(log.items) /\ Ordered(log.items)
        /\ cron.schedule \in Schedules \cup {DefaultSchedule}
        /\ log.day = Day(cron.since) - 1 /\ logs[id].day = log.day /\ items = log.items
    BY <2>1 DEF StateOK, CronOK, TimedInv, TimedTodo, JobInv
  <2>3. items \in Seq(Session) /\ items # <<>> /\ ~Closed(Last(items))
    BY <2>2, LastIsOpen DEF LogOK
  <2>4. t \in Int
    BY <2>2, AutoCloseType DEF LogOK
  <2>5. logs'[id].items = EndLast(items, t)
    BY <2>1, <2>2 DEF CronSave, Document, AutoClose
  <2> HIDE DEF t, items, log
  <2>6. EndLast(items, t) \in Seq(Session) /\ Len(EndLast(items, t)) = Len(items)
    BY <2>3, <2>4, EndLastType
  <2>7. Last(EndLast(items, t)).out = t
    BY <2>3, <2>4, <2>6, EndLastFields DEF Last
  <2> QED
    BY <2>2, <2>3, <2>5, <2>7 DEF AutoCheckout, EndLast, items
<1>2. Init => TimedInv
  BY NoCronTodo DEF Init, TimedInv, TimedTodo, TimedHeld, NoReq
<1>3. Spec => []TimedInv
  BY <1>2, TimedStep, StateCorrect, PTL DEF Spec
<1>4. Spec => []JobInv
  BY <1>3, JobInit, JobStep, StateCorrect, PTL DEF Spec
<1>5. Spec => [][A]_vars
  BY <1>1, <1>3, <1>4, StateCorrect, PTL DEF Spec
<1> QED
  BY <1>5 DEF AutoCheckoutKeepsWork

-----------------------------------------------------------------------------
(* What a handler is about to store continues what is stored.              *)

(* The items b are the items a, and a check-in or a check-out.             *)
Continues(a, b) ==
  \E t \in Instants :
    \/ /\ a = <<>> \/ (Closed(Last(a)) /\ Last(a).out <= t)
       /\ b = Append(a, [in |-> t, out |-> None])
    \/ a # <<>> /\ ~Closed(Last(a)) /\ b = EndLast(a, t)

RegHeld(q, docs) ==
  /\ q.pc \in {"checkIn", "checkOut"} => q.skip = None
  /\ q.pc \in {"create", "existing", "insert"}
       => q.skip = FALSE /\ \E t \in Instants : q.items = <<[in |-> t, out |-> None]>>
  /\ Stores(q)
       => /\ q.skip \in {None, FALSE} /\ (q.pc # "update" => q.skip = FALSE)
          /\ q.id \in DOMAIN docs
               => docs[q.id].acct = q.acct /\ Continues(docs[q.id].items, q.items)
  /\ q.pc \in {"remove", "delete"} => "remove" \in Calls

Busy(q) == q.pc \notin {"idle", "setLast"}

(* A log that a handler is about to write is not written by anybody else:  *)
(* its owner waits, and the job works on logs of a day that is late.       *)
RegisterInv ==
  /\ now \in Instants
  /\ \A id \in DOMAIN logs : logs[id].skip = FALSE /\ logs[id].day \in Days
  /\ \A r \in Reqs : RegHeld(req[r], logs)
  /\ \A r, s \in Reqs : Busy(req[r]) /\ Busy(req[s]) /\ req[r].acct = req[s].acct => r = s
  /\ \A id \in DOMAIN cron.todo : cron.todo[id].skip = FALSE

(* What a handler is about to write stays as it found it.                  *)
LEMMA FoundKept ==
  ASSUME StateOK, TimedInv, JobInv, RegisterInv, ShortFlights, [Next]_vars, NEW r \in Reqs,
         Stores(req'[r]), req'[r] = req[r], req[r].id \in DOMAIN logs'
  PROVE  /\ req[r].id \in DOMAIN logs
         /\ SameKey(logs'[req[r].id], logs[req[r].id])
         /\ logs'[req[r].id].items = logs[req[r].id].items
<1> DEFINE q == req[r]
<1>1. q.id \in Ids \cup {0} /\ DOMAIN req = Reqs
  BY ReqType DEF StateOK, ReqsOK
<1>2. q.id \in DOMAIN logs /\ SameKey(logs'[q.id], logs[q.id])
  BY <1>1, KeyKept
<1>3. q.id \notin DOMAIN cron.todo
  BY <1>2, NotWithJob
<1>4. ASSUME NEW s \in Reqs, UpdateWrite(s), q.id = req[s].id PROVE FALSE
  <2>1. s # r
    BY <1>1, <1>4 DEF UpdateWrite, Finish, NoReq, Stores
  <2>2. Stores(req[s]) /\ Busy(req[s]) /\ Busy(q)
    BY <1>4 DEF UpdateWrite, Stores, Busy
  <2>3. req[s].acct = logs[q.id].acct /\ q.acct = logs[q.id].acct
    BY <1>2, <1>4, <2>2 DEF RegisterInv, RegHeld
  <2> QED
    BY <2>1, <2>2, <2>3 DEF RegisterInv
<1>5. CronSave => q.id # cron.id
  BY <1>3 DEF CronSave, StateOK, CronOK
<1> QED
  BY <1>2, <1>4, <1>5, LogChanges

(* A slot keeps what it must, against the collection as it was.            *)
LEMMA RegMove ==
  ASSUME StateOK, TimedInv, RegisterInv, ClockOnly, ShortFlights, [Next]_vars,
         NEW r \in Reqs
  PROVE  RegHeld(req'[r], logs)
<1> DEFINE q == req[r]
           p == req'[r]
<1>1. Moves(q, p) /\ RegHeld(q, logs) /\ TimedHeld(q, now) /\ ReqOK(q)
  BY SlotsMove, ReqType DEF RegisterInv, TimedInv
<1>2. now \in Instants /\ now \in Nat
  BY DEF RegisterInv, StateOK
<1>3. \A id \in DOMAIN logs :
        TimedLog(logs[id], now) /\ logs[id].items \in Seq(Session) /\ logs[id].skip = FALSE
  BY LogType DEF TimedInv, LogOK, RegisterInv
<1> HIDE DEF q, p
<1>4. p = q => RegHeld(p, logs)
  BY <1>1
<1>5. p = NoReq => RegHeld(p, logs)
  BY DEF RegHeld, NoReq, Stores
<1>6. Arrives(q, p) => RegHeld(p, logs)
  BY DEF Arrives, ClockOnly, RegHeld, Stores
<1> SUFFICES ASSUME p.acct = q.acct, p.since = q.since, p.day = q.day,
                    AsksClock(q, p) \/ Creates(q, p) \/ Updates(q, p)
             PROVE  RegHeld(p, logs)
  BY <1>1, <1>4, <1>5, <1>6 DEF Moves, q, p
<1>7. CASE AsksClock(q, p) /\ p.pc = "create"
  BY <1>2, <1>7 DEF AsksClock, RegHeld, Opening, Stores
<1>8. CASE AsksClock(q, p) /\ p.pc = "update"
  <2> DEFINE items == logs[p.id].items
  <2>1. /\ p.id \in DOMAIN logs /\ logs[p.id].acct = p.acct /\ logs[p.id].day = q.day
        /\ p.skip = None
    BY <1>1, <1>8 DEF AsksClock, LogsOf, RegHeld
  <2>2. q.day = Day(q.since) /\ q.since \in Nat /\ now - q.since <= MaxFlight
    BY <1>1, <1>8 DEF AsksClock, TimedHeld, ReqOK
  <2>3. Past(items, now) /\ items \in Seq(Session)
    BY <1>2, <1>3, <2>1, <2>2, NotLate DEF TimedLog
  <2>4. \/ /\ items = <<>> \/ Closed(Last(items))
           /\ p.items = Append(items, Opening)
        \/ items # <<>> /\ ~Closed(Last(items)) /\ p.items = EndLast(items, now)
    BY <1>8 DEF AsksClock
  <2> HIDE DEF items
  <2>5. items # <<>> /\ Closed(Last(items)) => Last(items).out <= now
    BY <2>3 DEF Past, Last
  <2>6. Continues(items, p.items)
    BY <1>2, <2>4, <2>5 DEF Continues, Opening
  <2> QED
    BY <1>8, <2>1, <2>2, <2>6 DEF RegHeld, items
<1>9. CASE Creates(q, p)
  BY <1>1, <1>9 DEF Creates, RegHeld, Stores
<1>10. CASE Updates(q, p)
  BY <1>1, <1>3, <1>10 DEF Updates, OwnLog, RegHeld, Stores
<1> QED
  BY <1>7, <1>8, <1>9, <1>10 DEF AsksClock

LEMMA RegSlot ==
  ASSUME StateOK, TimedInv, JobInv, RegisterInv, ClockOnly, ShortFlights, [Next]_vars,
         NEW r \in Reqs
  PROVE  RegHeld(req'[r], logs')
<1> DEFINE q == req[r]
           p == req'[r]
<1>1. RegHeld(p, logs)
  BY RegMove
<1>2. CASE ~Stores(p)
  BY <1>1, <1>2 DEF RegHeld
<1>3. ASSUME Stores(p),
             p.id \in DOMAIN logs'
               => /\ p.id \in DOMAIN logs /\ SameKey(logs'[p.id], logs[p.id])
                  /\ logs'[p.id].items = logs[p.id].items
      PROVE  RegHeld(p, logs')
  BY <1>1, <1>3 DEF RegHeld, SameKey
<1>4. CASE Stores(p) /\ p = q
  BY <1>3, <1>4, FoundKept
<1>5. CASE Stores(p) /\ p # q
  <2>1. (CallStep(r) \/ HandlerStep(r)) /\ Moves(q, p)
    BY <1>5, SlotsMove
  <2>2. q.pc \notin {"write", "delete", "insert"}
    BY <1>5, <2>1 DEF Moves, Arrives, AsksClock, Creates, Updates, Stores, NoReq
  <2>3. logs' = logs
    <3>1. CASE CallStep(r)
      BY <3>1 DEF CallStep, CallCheckIn, CallCheckOut, CallCreate, CallRemove,
                  CallUpdate, Arrive
    <3>2. CASE HandlerStep(r)
      BY <2>2, <3>2 DEF HandlerStep, CheckInFindLog, CheckOutFindLog, CreateReadOrg,
         CreateFindExisting, CreateInsert, SetLastOrganization, UpdateFindLog,
         UpdateReadOrg, UpdateWrite, RemoveFindLog, RemoveDelete
    <3> QED
      BY <2>1, <3>1, <3>2
  <2> QED
    BY <1>1, <2>3
<1> QED
  BY <1>2, <1>4, <1>5

(* An employee who waits has one request at a time.                        *)
LEMMA NobodyWaiting ==
  ASSUME AwaitsAnswers, NEW a, Cardinality(Waiting(a)) < Unanswered
  PROVE  Waiting(a) = {}
<1>1. IsFiniteSet(Waiting(a))
  BY FS_Subset DEF Waiting, AwaitsAnswers
<1>2. Cardinality(Waiting(a)) \in Nat
  BY <1>1, FS_CardinalityType
<1>3. Cardinality(Waiting(a)) = 0
  BY <1>2 DEF AwaitsAnswers
<1> QED
  BY <1>1, <1>3, FS_EmptySet

LEMMA CallsAlone ==
  ASSUME StateOK, AwaitsAnswers, NEW r \in Reqs, CallStep(r)
  PROVE  Waiting(req'[r].acct) = {} /\ req[r].pc = "idle"
<1>1. Arrives(req[r], req'[r])
  BY ArriveMoves DEF StateOK, ReqsOK
<1> QED
  BY <1>1, NobodyWaiting DEF Arrives

LEMMA BusyBefore ==
  ASSUME StateOK, [Next]_vars, NEW r \in Reqs, Busy(req'[r])
  PROVE  \/ CallStep(r)
         \/ Busy(req[r]) /\ req'[r].acct = req[r].acct
<1> DEFINE q == req[r]
           p == req'[r]
<1>1. Moves(q, p) /\ (p # q => CallStep(r) \/ HandlerStep(r))
  BY SlotsMove
<1>2. HandlerStep(r) => q.pc # "idle"
  BY DEF HandlerStep, CheckInFindLog, CheckOutFindLog, CreateReadOrg,
     CreateFindExisting, CreateInsert, SetLastOrganization, UpdateFindLog,
     UpdateReadOrg, UpdateWrite, RemoveFindLog, RemoveDelete
<1> HIDE DEF q, p
<1>3. CASE p = q
  BY <1>3 DEF p, q
<1>4. CASE HandlerStep(r)
  <2>1. p # NoReq /\ ~Arrives(q, p)
    BY <1>2, <1>4 DEF Busy, NoReq, Arrives, p
  <2> QED
    BY <1>1, <1>2, <1>4, <2>1 DEF Moves, AsksClock, Creates, Updates, Busy, p, q
<1> QED
  BY <1>1, <1>3, <1>4

LEMMA OneAtATime ==
  ASSUME StateOK, RegisterInv, AwaitsAnswers, [Next]_vars, NEW r \in Reqs, NEW s \in Reqs,
         Busy(req'[r]), Busy(req'[s]), req'[r].acct = req'[s].acct
  PROVE  r = s
<1>1. ASSUME NEW x \in Reqs, NEW y \in Reqs, x # y, CallStep(x), Busy(req'[y]),
             req'[x].acct = req'[y].acct
      PROVE  FALSE
  <2>1. req'[y] = req[y]
    BY <1>1, CallSlot DEF StateOK, ReqsOK
  <2>2. y \in Waiting(req'[x].acct)
    BY <1>1, <2>1 DEF Waiting, Busy
  <2> QED
    BY <1>1, <2>2, CallsAlone
<1>2. CASE ~CallStep(r) /\ ~CallStep(s)
  BY <1>2, BusyBefore DEF RegisterInv
<1> QED
  BY <1>1, <1>2

LEMMA RegisterStep ==
  ASSUME ClockOnly, ShortFlights, AwaitsAnswers
  PROVE  StateOK /\ TimedInv /\ JobInv /\ RegisterInv /\ [Next]_vars => RegisterInv'
<1> SUFFICES ASSUME StateOK, TimedInv, JobInv, RegisterInv, [Next]_vars PROVE RegisterInv'
  OBVIOUS
<1>1. now' \in Instants
  <2>1. ASSUME ~Tick PROVE now' = now
    <3>1. ASSUME NEW r \in Reqs, CallStep(r) PROVE UNCHANGED now
      BY <3>1 DEF CallStep, CallCheckIn, CallCheckOut, CallCreate, CallRemove,
                  CallUpdate, Arrive
    <3>2. ASSUME NEW r \in Reqs, HandlerStep(r) PROVE UNCHANGED now
      BY <3>2 DEF HandlerStep, CheckInFindLog, CheckOutFindLog, CreateReadOrg,
         CreateFindExisting, CreateInsert, SetLastOrganization, UpdateFindLog,
         UpdateReadOrg, UpdateWrite, RemoveFindLog, RemoveDelete
    <3>3. CASE CronStep \/ OrgStep \/ UNCHANGED vars
      BY <3>3 DEF CronStep, CronFind, CronReadOrg, CronSave, OrgStep, SetSchedule,
         AddMember, RemoveMember, RemoveOrg, ChangeOrg, vars
    <3> QED
      BY <2>1, <3>1, <3>2, <3>3 DEF Next
  <2> QED
    BY <2>1 DEF Tick, RegisterInv
<1>2. ASSUME NEW id \in DOMAIN logs' PROVE logs'[id].skip = FALSE /\ logs'[id].day \in Days
  <2>1. id \in DOMAIN logs => logs[id].skip = FALSE /\ logs[id].day \in Days
    BY DEF RegisterInv
  <2>2. ASSUME NEW r \in Reqs, InsertedBy(req[r], logs'[id])
        PROVE  logs'[id].skip = FALSE /\ logs'[id].day \in Days
    <3>1. req[r].skip = FALSE
      BY <2>2 DEF RegisterInv, RegHeld, InsertedBy
    <3>2. PICK t \in Instants : req[r].items = <<[in |-> t, out |-> None]>>
      BY <2>2 DEF RegisterInv, RegHeld, InsertedBy
    <3>3. logs'[id].day = Day(t)
      BY <2>2, <3>2 DEF InsertedBy, DateOfLog
    <3> QED
      BY <2>2, <3>1, <3>3 DEF InsertedBy, Days
  <2>3. ASSUME NEW r \in Reqs, WrittenBy(req[r], logs'[id])
        PROVE  logs'[id].skip = FALSE
    BY <2>3 DEF RegisterInv, RegHeld, WrittenBy, Stores
  <2> QED
    BY <2>1, <2>2, <2>3, LogsMove DEF SameKey
<1>3. \A r \in Reqs : RegHeld(req'[r], logs')
  BY RegSlot
<1>4. \A r, s \in Reqs : Busy(req'[r]) /\ Busy(req'[s]) /\ req'[r].acct = req'[s].acct => r = s
  BY OneAtATime
<1>5. ASSUME NEW id \in DOMAIN cron'.todo PROVE cron'.todo[id].skip = FALSE
  BY TodoMoves DEF RegisterInv
<1> QED
  BY <1>1, <1>2, <1>3, <1>4, <1>5 DEF RegisterInv

-----------------------------------------------------------------------------
(* Every step of the service is a step of the register, or none.           *)

RegInv == TimedInv /\ JobInv /\ SessionsInv /\ UniqueLogPerDay /\ RegisterInv

LEMMA RegisterClockIn ==
  ASSUME NEW k \in Keys, NEW t \in Instants, NEW a, Book[k] = a,
         a = <<>> \/ (Closed(Last(a)) /\ Last(a).out <= t),
         Book' = [Book EXCEPT ![k] = Append(a, [in |-> t, out |-> None])]
  PROVE  Register!Next
<1>1. Register!ClockIn(k, t)
  BY DEF Register!ClockIn, Register!AllClosed, Register!Closed, Register!Last, Closed, Last
<1> QED
  BY <1>1 DEF Register!Next

LEMMA RegisterEnd ==
  ASSUME NEW k \in Keys, NEW t \in Int, NEW a, Book[k] = a,
         a # <<>>, ~Closed(Last(a)), t > Last(a).in,
         Book' = [Book EXCEPT ![k] = EndLast(a, t)]
  PROVE  Register!EndSession(k, t)
  BY DEF Register!EndSession, Register!AllClosed, Register!Closed, Register!Last,
         EndLast, Last, Closed

LEMMA DocKey ==
  ASSUME StateOK, RegisterInv, NEW id \in DOMAIN logs
  PROVE  KeyOf(logs[id]) \in Keys
  BY LogType DEF RegisterInv, LogOK, KeyOf, Keys

LEMMA SameBook ==
  ASSUME DOMAIN logs' = DOMAIN logs, \A id \in DOMAIN logs : logs'[id] = logs[id]
  PROVE  Book' = Book
<1>1. ASSUME NEW k \in Keys PROVE Page(logs', k) = Page(logs, k)
  <2>1. IdsFor(logs', k) = IdsFor(logs, k)
    BY DEF IdsFor
  <2>2. \A id \in IdsFor(logs, k) : logs'[id].items = logs[id].items
    BY DEF IdsFor
  <2> QED
    BY <2>1, <2>2, PageSame
<1> QED
  BY <1>1, BookPages

LEMMA InsertRegisters ==
  ASSUME StateOK, RegInv, RegInv', NEW r \in Reqs, CreateInsert(r)
  PROVE  Book' = Book \/ Register!Next
<1> DEFINE q == req[r]
           doc == Document(q.acct, q.org, DateOfLog(q), q.items, q.hours, q.skip,
                           IF q.note = None THEN <<>> ELSE q.note)
<1>1. CASE KeyTaken(doc.acct, doc.org, doc.day)
  BY <1>1, SameBook DEF CreateInsert
<1>2. CASE ~KeyTaken(doc.acct, doc.org, doc.day)
  <2>1. logs' = Inserted(doc) /\ q.pc = "insert"
    BY <1>2 DEF CreateInsert
  <2>2. PICK t \in Instants : q.items = <<[in |-> t, out |-> None]>>
    BY <2>1 DEF RegInv, RegisterInv, RegHeld
  <2> DEFINE k == KeyOf(doc)
  <2>3. k = <<q.acct, q.org, Day(t)>> /\ doc.items = q.items
    BY <2>2 DEF KeyOf, Document, DateOfLog
  <2>4. k \in Keys
    BY <2>1, <2>3, ReqType DEF ReqOK, Keys, Days
  <2>5. IdsFor(logs, k) = {}
    BY <1>2 DEF IdsFor, KeyTaken, LogsOf, KeyOf
  <2>6. nextId \notin DOMAIN logs
    BY DEF StateOK, LogsOK, Ids
  <2> HIDE DEF doc
  <2>7. /\ DOMAIN logs' = DOMAIN logs \cup {nextId} /\ logs'[nextId] = doc
        /\ \A i \in DOMAIN logs : logs'[i] = logs[i]
    BY <2>1, <2>6 DEF Inserted
  <2>8. OneEach(logs')
    BY DEF RegInv, UniqueLogPerDay, OneEach
  <2> HIDE DEF k
  <2>9. Book[k] = <<>> /\ Book' = [Book EXCEPT ![k] = doc.items]
    BY <2>4, <2>5, <2>6, <2>7, <2>8, PageAdded DEF k
  <2>10. doc.items = Append(<<>>, [in |-> t, out |-> None])
    BY <2>2, <2>3
  <2> QED
    BY <2>4, <2>9, <2>10, RegisterClockIn
<1> QED
  BY <1>1, <1>2

LEMMA WriteRegisters ==
  ASSUME StateOK, RegInv, RegInv', NEW r \in Reqs, UpdateWrite(r)
  PROVE  Book' = Book \/ Register!Next
<1> DEFINE q == req[r]
           id == q.id
           k == KeyOf(logs[id])
           items == logs[id].items
<1>1. CASE id \notin DOMAIN logs
  BY <1>1, SameBook DEF UpdateWrite, Updated
<1>2. CASE id \in DOMAIN logs
  <2>1. /\ DOMAIN logs' = DOMAIN logs /\ logs'[id].items = q.items
        /\ \A i \in DOMAIN logs : SameKey(logs'[i], logs[i])
        /\ \A i \in DOMAIN logs : i # id => logs'[i].items = logs[i].items
    BY <1>2 DEF UpdateWrite, Updated, Document, SameKey
  <2>2. OneEach(logs) /\ OneEach(logs')
    BY DEF RegInv, UniqueLogPerDay, OneEach
  <2>3. k \in Keys
    BY <1>2, DocKey DEF RegInv
  <2>4. Book[k] = items /\ Book' = [Book EXCEPT ![k] = q.items]
    BY <1>2, <2>1, <2>2, <2>3, PageWritten
  <2>5. Continues(items, q.items)
    BY <1>2 DEF UpdateWrite, RegInv, RegisterInv, RegHeld, Stores
  <2>6. EndAfterStart(q.items)
    BY DEF UpdateWrite, RegInv, SessionsInv, SlotSound, WellFormed
  <2>7. items \in Seq(Session)
    BY <1>2, LogType DEF LogOK
  <2> HIDE DEF k, items, id
  <2>8. ASSUME NEW t \in Instants, items # <<>>, ~Closed(Last(items)),
               q.items = EndLast(items, t)
        PROVE  Register!Next
    <3>1. t \in Int /\ Closed([in |-> 0, out |-> t])
      BY WorkLogAssumption, NoneAssumption DEF Closed
    <3>2. /\ Len(items) \in DOMAIN q.items
          /\ q.items[Len(items)].in = Last(items).in /\ q.items[Len(items)].out = t
      BY <2>7, <2>8, <3>1, EndLastFields DEF Last
    <3>3. t > Last(items).in
      BY <2>6, <3>1, <3>2 DEF EndAfterStart, Closed
    <3>4. Register!EndSession(k, t)
      BY <2>3, <2>4, <2>8, <3>1, <3>3, RegisterEnd
    <3> QED
      BY <2>3, <3>4 DEF Register!Next
  <2>9. ASSUME NEW t \in Instants, items = <<>> \/ (Closed(Last(items)) /\ Last(items).out <= t),
               q.items = Append(items, [in |-> t, out |-> None])
        PROVE  Register!Next
    BY <2>3, <2>4, <2>9, RegisterClockIn
  <2> QED
    BY <2>5, <2>8, <2>9 DEF Continues
<1> QED
  BY <1>1, <1>2

LEMMA DeleteRegisters ==
  ASSUME StateOK, RegInv, RegInv', NEW r \in Reqs, RemoveDelete(r)
  PROVE  Book' = Book \/ Register!Next
<1> DEFINE id == req[r].id
           k == KeyOf(logs[id])
<1>1. CASE id \notin DOMAIN logs
  BY <1>1, SameBook DEF RemoveDelete
<1>2. CASE id \in DOMAIN logs
  <2>1. k \in Keys
    BY <1>2, DocKey DEF RegInv
  <2>2. Book' = [Book EXCEPT ![k] = <<>>]
    BY <1>2, <2>1, PageErased DEF RemoveDelete, RegInv, UniqueLogPerDay, OneEach
  <2>3. "remove" \in Calls
    BY DEF RemoveDelete, RegInv, RegisterInv, RegHeld
  <2>4. Register!Erase(k)
    BY <2>2, <2>3 DEF Register!Erase
  <2> QED
    BY <2>1, <2>4 DEF Register!Next
<1> QED
  BY <1>1, <1>2

LEMMA JobRegisters ==
  ASSUME StateOK, RegInv, RegInv', DaySchedules, CronSave
  PROVE  Book' = Book \/ Register!Next
<1> DEFINE id == cron.id
           log == cron.todo[id]
           k == KeyOf(logs[id])
           in == Last(log.items).in
           t == AutoCheckOut(in, cron.schedule, FALSE)
<1>1. CASE id \notin DOMAIN logs
  BY <1>1, SameBook DEF CronSave
<1>2. CASE id \in DOMAIN logs
  <2>1. /\ id \in DOMAIN cron.todo /\ LogOK(log) /\ HasOpen(log.items)
        /\ WellFormed(log.items) /\ cron.schedule \in Schedules \cup {DefaultSchedule}
        /\ log.skip = FALSE /\ logs[id].items = log.items /\ Ordered(log.items)
    BY <1>2 DEF CronSave, StateOK, CronOK, RegInv, SessionsInv, JobInv, TimedInv, TimedTodo,
       RegisterInv
  <2>2. log.items # <<>> /\ ~Closed(Last(log.items)) /\ in \in Nat
    BY <2>1, LastIsOpen DEF LogOK, Session
  <2>3. t \in Int /\ t > in /\ t \in StandardEnds(in)
    <3>1. t \in StandardEnds(in)
      <4>1. cron.schedule \in Schedules \cup {DefaultSchedule}
        BY <2>1
      <4> QED
        BY <4>1, Zenon DEF StandardEnds
    <3>2. t \in Int
      BY <2>1, AutoCloseType DEF LogOK
    <3> QED
      BY <2>1, <2>2, <3>1, <3>2, StandardDayEnds
  <2>4. /\ DOMAIN logs' = DOMAIN logs /\ logs'[id].items = EndLast(log.items, t)
        /\ \A i \in DOMAIN logs : SameKey(logs'[i], logs[i])
        /\ \A i \in DOMAIN logs : i # id => logs'[i].items = logs[i].items
    BY <1>2, <2>1 DEF CronSave, Document, SameKey, AutoClose
  <2>5. OneEach(logs) /\ OneEach(logs')
    BY DEF RegInv, UniqueLogPerDay, OneEach
  <2>6. k \in Keys
    BY <1>2, DocKey DEF RegInv
  <2>7. Book[k] = log.items /\ Book' = [Book EXCEPT ![k] = EndLast(log.items, t)]
    BY <1>2, <2>1, <2>4, <2>5, <2>6, PageWritten
  <2> HIDE DEF t, log, k
  <2>8. Register!EndSession(k, t)
    BY <2>2, <2>3, <2>6, <2>7, RegisterEnd
  <2>9. Register!EndOfDay(k)
    BY <2>2, <2>3, <2>7, <2>8 DEF Register!EndOfDay, Register!AllClosed, Register!Closed,
       Register!Last, Last, Closed
  <2> QED
    BY <2>6, <2>9 DEF Register!Next
<1> QED
  BY <1>1, <1>2

LEMMA StepRegisters ==
  ASSUME StateOK, RegInv, RegInv', DaySchedules, [Next]_vars
  PROVE  [Register!Next]_Book
<1>1. CASE UNCHANGED logs
  BY <1>1, SameBook
<1> QED
  BY <1>1, Writes, InsertRegisters, WriteRegisters, DeleteRegisters, JobRegisters

(* The collection of work logs implements the register of Attendance: no   *)
(* recorded session is changed or lost, each is added when the others have *)
(* ended, and only the open one gets its end, although check-in, check-out *)
(* and the nightly job write back a whole array read several awaits before.*)
(* With day schedules, the clock alone as a client, handlers faster than   *)
(* the hour between midnight and the job, and employees who wait.          *)
THEOREM RegisterImplemented ==
  ASSUME ClockOnly, ShortFlights, DaySchedules, AwaitsAnswers
  PROVE  Spec => ImplementsRegister
<1>1. SheetsOpenLast
  BY DEF ClockOnly, SheetsOpenLast
<1>2. Init => RegInv
  <2> SUFFICES ASSUME Init PROVE RegInv
    OBVIOUS
  <2>1. /\ now \in Instants /\ DOMAIN logs = {} /\ cron = NoCron
        /\ \A r \in Reqs : req[r] = NoReq
    BY DEF Init
  <2>2. TimedInv
    BY <2>1, NoCronTodo DEF TimedInv, TimedTodo, TimedHeld, NoReq
  <2>3. SessionsInv
    BY <2>1, NoReqSound, NoCronTodo DEF SessionsInv, OnlyLastSessionOpen
  <2>4. RegisterInv
    <3>0. RegHeld(NoReq, logs) /\ ~Busy(NoReq)
      BY DEF RegHeld, Stores, Busy, NoReq
    <3>1. \A r \in Reqs : RegHeld(req[r], logs) /\ ~Busy(req[r])
      BY <2>1, <3>0
    <3>2. DOMAIN cron.todo = {}
      BY <2>1, NoCronTodo
    <3> QED
      BY <2>1, <3>1, <3>2 DEF RegisterInv
  <2> QED
    BY <2>1, <2>2, <2>3, <2>4, JobInit DEF RegInv, UniqueLogPerDay
<1>3. StateOK /\ RegInv /\ [Next]_vars => RegInv'
  BY <1>1, TimedStep, JobStep, SessionsStep, UniqueStep, RegisterStep DEF RegInv
<1>4. Init => Register!Init
  BY DEF Init, Register!Init, Book, LogsOf
<1>5. StateOK /\ RegInv /\ RegInv' /\ [Next]_vars => [Register!Next]_Book
  BY StepRegisters
<1> QED
  BY <1>2, <1>3, <1>4, <1>5, StateCorrect, PTL DEF Spec, ImplementsRegister, Register!Spec
=============================================================================
