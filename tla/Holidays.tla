------------------------------- MODULE Holidays -------------------------------
(***************************************************************************)
(* HolidayService and the cache of HTTP answers in front of GET /holidays. *)
(* The cache is in the memory of the process: reading and writing it takes *)
(* no turn of the event loop, queries do.                                  *)
(***************************************************************************)
EXTENDS Integers, FiniteSets

CONSTANTS Dates,         \* dates holidays are set on
          YearOf,        \* their years
          Fetches,       \* slots for list requests in flight
          Editors,       \* slots for changes in flight
          Ttl,           \* how long an answer is cached
          Flight,        \* bound on how long a list request takes
          MaxTime,       \* bound on the clock
          HolidaySeed,   \* the holidays there are at the start
          NewDays,       \* bodies of POST /holidays
          DayPatches,    \* bodies of PUT: functions from some of the fields
          MaxHolidays,   \* bound on the holidays ever created
          SkipCached     \* handlers marked @SkipCache

Types == {"Off", "Workday"}
Holiday == [date : Dates, type : Types]
HolidayIds == 1 .. MaxHolidays

(* The URLs of the list: '/holidays' and '/holidays?year=YYYY'.            *)
All == <<"list", 0>>
ListUrl(year) == <<"list", year>>
Urls == {All} \cup {ListUrl(YearOf[d]) : d \in Dates}

ASSUME HolidaysAssumption ==
  /\ Ttl \in Nat /\ Flight \in Nat /\ MaxTime \in Nat /\ MaxHolidays \in Nat
  /\ DOMAIN HolidaySeed \subseteq HolidayIds
  /\ \A h \in DOMAIN HolidaySeed : HolidaySeed[h] \in Holiday
  /\ NewDays \subseteq Holiday
  /\ \A p \in DayPatches :
       /\ DOMAIN p \subseteq {"date", "type"}
       /\ "date" \in DOMAIN p => p.date \in Dates
       /\ "type" \in DOMAIN p => p.type \in Types
  /\ \A g, h \in DOMAIN HolidaySeed : HolidaySeed[g].date = HolidaySeed[h].date => g = h
  /\ \A d \in Dates : YearOf[d] \in Nat \ {0}

VARIABLES holidays,   \* the collection, by id
          daysMade,   \* ids given out
          cache,      \* cached answers by key
          fetch,      \* list requests in flight
          change,     \* changes in flight
          now,
          quiet,      \* history: the last change overlapped nothing
          oldest      \* history: the age of the oldest list answered

holidayVars == <<holidays, daysMade, cache, fetch, change, now, quiet, oldest>>

NoFetch == [pc |-> "idle", url |-> All, since |-> 0, list |-> {}, asOf |-> 0]
NoChange == [pc |-> "idle", id |-> 0, patch |-> <<>>]

HolidayInit ==
  /\ holidays = HolidaySeed
  /\ daysMade = DOMAIN HolidaySeed
  /\ cache = <<>>
  /\ fetch = [f \in Fetches |-> NoFetch]
  /\ change = [c \in Editors |-> NoChange]
  /\ now = 0
  /\ quiet = TRUE
  /\ oldest = 0

HolidayDocs == {holidays[h] : h \in DOMAIN holidays}

(* What list finds for a URL.                                              *)
Listed(url) == {h \in HolidayDocs : url \in {All, ListUrl(YearOf[h.date])}}

DateTaken(d, id) == \E h \in DOMAIN holidays \ {id} : holidays[h].date = d

(* Variant: every answer is cached.                                        *)
TrackAll(handler, url) == {url}

(* The key the interceptor uses for a request of somebody who is not       *)
(* signed in: none when the handler is skipped.                            *)
TrackBy(handler, url) == IF handler \in SkipCached THEN {} ELSE {url}

Hit(handler, url) ==
  TrackBy(handler, url) # {} /\ url \in DOMAIN cache /\ now < cache[url].till

(* What is cached when a handler has answered.                             *)
Filled(handler, url, value, asOf) ==
  LET keys == TrackBy(handler, url)
  IN  [u \in DOMAIN cache \cup keys |->
         IF u \in keys THEN [value |-> value, asOf |-> asOf, till |-> now + Ttl]
                       ELSE cache[u]]

Older(age) == oldest' = IF age > oldest THEN age ELSE oldest
-----------------------------------------------------------------------------
(* Variant: a hit makes the entry last longer.                             *)
SlidingList(f, url) ==
  /\ fetch[f] = NoFetch
  /\ \/ /\ Hit("list", url)
        /\ Older(now - cache[url].asOf)
        /\ cache' = [cache EXCEPT ![url].till = now + Ttl]
        /\ UNCHANGED fetch
     \/ /\ ~Hit("list", url)
        /\ fetch' = [fetch EXCEPT ![f] =
             [NoFetch EXCEPT !.pc = "query", !.url = url, !.since = now]]
        /\ UNCHANGED <<cache, oldest>>
  /\ UNCHANGED <<holidays, daysMade, change, now, quiet>>

(* GET /holidays: the interceptor answers from the cache or lets the       *)
(* handler send its query.                                                 *)
ListArrive(f, url) ==
  /\ fetch[f] = NoFetch
  /\ \/ /\ Hit("list", url)
        /\ Older(now - cache[url].asOf)
        /\ UNCHANGED fetch
     \/ /\ ~Hit("list", url)
        /\ fetch' = [fetch EXCEPT ![f] =
             [NoFetch EXCEPT !.pc = "query", !.url = url, !.since = now]]
        /\ UNCHANGED oldest
  /\ UNCHANGED <<holidays, daysMade, cache, change, now, quiet>>

(* The database answers.                                                   *)
ListQuery(f) ==
  /\ fetch[f].pc = "query"
  /\ fetch' = [fetch EXCEPT ![f].pc = "fill", ![f].list = Listed(fetch[f].url),
                            ![f].asOf = now]
  /\ UNCHANGED <<holidays, daysMade, cache, change, now, quiet, oldest>>

(* tap(): the answer is cached on its way out.                             *)
ListFill(f) ==
  LET q == fetch[f]
  IN  /\ q.pc = "fill"
      /\ cache' = Filled("list", q.url, q.list, q.asOf)
      /\ Older(now - q.asOf)
      /\ fetch' = [fetch EXCEPT ![f] = NoFetch]
      /\ UNCHANGED <<holidays, daysMade, change, now, quiet>>

(* POST /holidays: no holiday on this date yet.                            *)
CreateHoliday(c, day) ==
  /\ change[c] = NoChange
  /\ ~DateTaken(day.date, 0)
  /\ change' = [change EXCEPT ![c] = [pc |-> "insert", id |-> 0, patch |-> day]]
  /\ UNCHANGED <<holidays, daysMade, cache, fetch, now, quiet, oldest>>

(* After a write the change goes on to the cache.                          *)
Written(c) ==
  /\ change' = [change EXCEPT ![c] = [NoChange EXCEPT !.pc = "clear"]]
  /\ quiet' = FALSE

Refused(c) ==
  /\ change' = [change EXCEPT ![c] = NoChange]
  /\ UNCHANGED <<holidays, daysMade, quiet>>

(* Variant: without the unique index.                                      *)
HolidayInsertAnyway(c) ==
  LET q == change[c]
      id == Cardinality(daysMade) + 1
  IN  /\ q.pc = "insert"
      /\ id \in HolidayIds
      /\ daysMade' = daysMade \cup {id}
      /\ holidays' = [h \in DOMAIN holidays \cup {id} |->
           IF h = id THEN q.patch ELSE holidays[h]]
      /\ Written(c)
      /\ UNCHANGED <<cache, fetch, now, oldest>>

HolidayInsert(c) ==
  LET q == change[c]
      id == Cardinality(daysMade) + 1
  IN  /\ q.pc = "insert"
      /\ \/ DateTaken(q.patch.date, 0) /\ Refused(c)
         \/ /\ ~DateTaken(q.patch.date, 0)
            /\ id \in HolidayIds
            /\ daysMade' = daysMade \cup {id}
            /\ holidays' = [h \in DOMAIN holidays \cup {id} |->
                 IF h = id THEN q.patch ELSE holidays[h]]
            /\ Written(c)
      /\ UNCHANGED <<cache, fetch, now, oldest>>

(* PUT /holidays/:id: nobody else has the new date, if there is one.       *)
UpdateHoliday(c, id, patch) ==
  /\ change[c] = NoChange
  /\ "date" \in DOMAIN patch => ~DateTaken(patch.date, id)
  /\ change' = [change EXCEPT ![c] = [pc |-> "update", id |-> id, patch |-> patch]]
  /\ UNCHANGED <<holidays, daysMade, cache, fetch, now, quiet, oldest>>

HolidayUpdate(c) ==
  LET q == change[c]
      clash == "date" \in DOMAIN q.patch /\ DateTaken(q.patch.date, q.id)
      day == [k \in {"date", "type"} |->
                IF k \in DOMAIN q.patch THEN q.patch[k] ELSE holidays[q.id][k]]
  IN  /\ q.pc = "update"
      /\ \/ (q.id \notin DOMAIN holidays \/ clash) /\ Refused(c)
         \/ /\ q.id \in DOMAIN holidays /\ ~clash
            /\ holidays' = [holidays EXCEPT ![q.id] = day]
            /\ Written(c)
            /\ UNCHANGED daysMade
      /\ UNCHANGED <<cache, fetch, now, oldest>>

(* DELETE /holidays/:id                                                    *)
RemoveHoliday(c, id) ==
  /\ change[c] = NoChange
  /\ holidays' = [h \in DOMAIN holidays \ {id} |-> holidays[h]]
  /\ Written(c)
  /\ UNCHANGED <<daysMade, cache, fetch, now, oldest>>

(* Nothing that could still bring back an older list.                      *)
NothingElse(c) ==
  /\ \A f \in Fetches : fetch[f].pc # "fill"
  /\ \A d \in Editors \ {c} : change[d].pc # "clear"

(* Variant: one key.                                                       *)
ClearOneKey(c) ==
  /\ change[c].pc = "clear"
  /\ cache' = [u \in DOMAIN cache \ {All} |-> cache[u]]
  /\ change' = [change EXCEPT ![c] = NoChange]
  /\ quiet' = NothingElse(c)
  /\ UNCHANGED <<holidays, daysMade, fetch, now, oldest>>

(* Every key that starts with '/holidays'; the caller is answered.         *)
ClearListCache(c) ==
  /\ change[c].pc = "clear"
  /\ cache' = [u \in DOMAIN cache \ Urls |-> cache[u]]
  /\ change' = [change EXCEPT ![c] = NoChange]
  /\ quiet' = NothingElse(c)
  /\ UNCHANGED <<holidays, daysMade, fetch, now, oldest>>

(* GET /clear-caching                                                      *)
ClearCache ==
  /\ cache' = <<>>
  /\ UNCHANGED <<holidays, daysMade, fetch, change, now, quiet, oldest>>

(* The cache holds 100 answers and drops the ones used least.              *)
Evict(url) ==
  /\ cache' = [u \in DOMAIN cache \ {url} |-> cache[u]]
  /\ UNCHANGED <<holidays, daysMade, fetch, change, now, quiet, oldest>>

HolidayTick ==
  /\ now < MaxTime
  /\ \A f \in Fetches : fetch[f] # NoFetch => now - fetch[f].since < Flight
  /\ now' = now + 1
  /\ UNCHANGED <<holidays, daysMade, cache, fetch, change, quiet, oldest>>

Listing ==
  \/ \E f \in Fetches : ListQuery(f) \/ ListFill(f) \/ \E url \in Urls : ListArrive(f, url)
  \/ \E url \in DOMAIN cache : Evict(url)
  \/ ClearCache

Clearing ==
  \E c \in Editors :
    ClearListCache(c) \/ \E id \in DOMAIN holidays : RemoveHoliday(c, id)

Editing ==
  \E c \in Editors :
    \/ HolidayInsert(c) \/ HolidayUpdate(c)
    \/ \E day \in NewDays : CreateHoliday(c, day)
    \/ \E id \in DOMAIN holidays, patch \in DayPatches : UpdateHoliday(c, id, patch)

HolidayNext == Listing \/ Clearing \/ Editing \/ HolidayTick

HolidaySpec == HolidayInit /\ [][HolidayNext]_holidayVars
-----------------------------------------------------------------------------
(* exists and the write are apart; the index keeps a date from having two  *)
(* holidays, of two types perhaps.                                         *)
OneHolidayPerDate ==
  \A g, h \in DOMAIN holidays : holidays[g].date = holidays[h].date => g = h

(* A change that overlapped no list request between its query and its      *)
(* answer, nor another change, leaves no old list in the cache, under any  *)
(* of the keys, until the next change.                                     *)
FreshAfterQuietChange ==
  quiet => \A url \in DOMAIN cache \cap Urls : cache[url].value = Listed(url)

(* A list that was filled in after its change cleared the cache is served  *)
(* again and again, but nobody is answered one that is older than the life *)
(* of a cached answer and the request that filled it.                      *)
ListAgeBounded == oldest <= Ttl + Flight
=============================================================================
