------------------------------ MODULE ShareLinks ------------------------------
(***************************************************************************)
(* Links under which anybody sees the monthly report of an account, beside *)
(* the organizations, holidays and cached answers such a report depends    *)
(* on.  The token of a link is modelled by its id.                         *)
(***************************************************************************)
EXTENDS Organizations, Holidays, Reports

CONSTANTS Month,       \* the dates of the month reported
          Makers,      \* slots for requests that create or revoke links
          Viewers,     \* slots for requests that look at a report
          Expiries,    \* expiresAt of new links
          MaxShares,   \* bound on the links ever created
          Scenarios    \* the parts of the system used in one behaviour

ASSUME ShareAssumption ==
  /\ MaxShares \in Nat /\ Expiries \subseteq Nat \cup {None}
  /\ IsFiniteSet(Month)
  /\ \A l \in WorkLogs : l.account \in People /\ l.hours \in Nat

VARIABLES shares,      \* the work_log_shares collection, by id
          sharesMade,
          making,      \* creations and revocations in flight
          viewing,     \* views in flight
          answer,      \* the last report answered
          open

shareVars == <<shares, sharesMade, making, viewing, answer>>
deskVars == <<orgVars, holidayVars, shareVars, open>>

ShareIds == 1 .. MaxShares
Share == [account : People, org : OrgIds \cup {None}, expiresAt : Nat \cup {None}]

NoMaking == [pc |-> "idle", id |-> 0, share |-> <<>>]

(* live: the link was there and not expired when the request arrived.      *)
NoView == [pc |-> "idle", id |-> 0, live |-> FALSE, share |-> <<>>, scope |-> None,
           schedule |-> DefaultSchedule]
NoAnswer == [id |-> 0, live |-> TRUE, org |-> None, logs |-> {}, figures |-> <<>>]

ShareInit ==
  /\ shares = <<>>
  /\ sharesMade = 0
  /\ making = [r \in Makers |-> NoMaking]
  /\ viewing = [v \in Viewers |-> NoView]
  /\ answer = NoAnswer

(* POST /work-log/share: when it names an organization, a member asks.     *)
CreateShareLink(r, a, org, expiry) ==
  /\ making[r] = NoMaking
  /\ a \in people
  /\ org # None => /\ org \in DOMAIN orgs
                   /\ a \in orgs[org].members \cup {orgs[org].owner}
  /\ making' = [making EXCEPT ![r] =
       [pc |-> "insert", id |-> 0,
        share |-> [account |-> a, org |-> org, expiresAt |-> expiry]]]
  /\ UNCHANGED <<shares, sharesMade, viewing, answer>>

ShareInsert(r) ==
  /\ making[r].pc = "insert"
  /\ sharesMade < MaxShares
  /\ sharesMade' = sharesMade + 1
  /\ shares' = [s \in DOMAIN shares \cup {sharesMade + 1} |->
       IF s = sharesMade + 1 THEN making[r].share ELSE shares[s]]
  /\ making' = [making EXCEPT ![r] = NoMaking]
  /\ UNCHANGED <<viewing, answer>>

(* DELETE /work-log/share/:id/delete: the account of the link asks.        *)
RevokeShareLink(r, s) ==
  /\ making[r] = NoMaking
  /\ shares[s].account \in people
  /\ making' = [making EXCEPT ![r] = [NoMaking EXCEPT !.pc = "delete", !.id = s]]
  /\ UNCHANGED <<shares, sharesMade, viewing, answer>>

ShareDelete(r) ==
  /\ making[r].pc = "delete"
  /\ shares' = [s \in DOMAIN shares \ {making[r].id} |-> shares[s]]
  /\ making' = [making EXCEPT ![r] = NoMaking]
  /\ UNCHANGED <<sharesMade, viewing, answer>>

Expired(share) == share.expiresAt # None /\ now > share.expiresAt
Valid(s) == s \in DOMAIN shares /\ ~Expired(shares[s])
ViewUrl(s) == <<"view", s>>

(* GET /work-log/share/:token/view goes through the interceptor.           *)
ViewArrive(v, s) ==
  LET hit == Hit("view", ViewUrl(s))
  IN  /\ viewing[v] = NoView
      /\ answer' = IF hit THEN [cache[ViewUrl(s)].value EXCEPT !.live = Valid(s)]
                          ELSE answer
      /\ viewing' = IF hit THEN viewing
                    ELSE [viewing EXCEPT ![v] =
                            [NoView EXCEPT !.pc = "find", !.id = s, !.live = Valid(s)]]
      /\ UNCHANGED <<shares, sharesMade, making>>

(* findOne: 404 when the link is gone, 410 when it has expired.            *)
ViewFind(v) ==
  LET s == viewing[v].id
  IN  /\ viewing[v].pc = "find"
      /\ viewing' = [viewing EXCEPT ![v] =
           IF Valid(s)
           THEN [@ EXCEPT !.pc = "populate", !.share = shares[s]] ELSE NoView]
      /\ UNCHANGED <<shares, sharesMade, making, answer>>

(* populate: null for what is gone.  Without its account the handler       *)
(* fails; without its organization it goes on as if none had been named.   *)
ViewPopulate(v) ==
  LET share == viewing[v].share
  IN  /\ viewing[v].pc = "populate"
      /\ \/ /\ share.account \notin people
            /\ viewing' = [viewing EXCEPT ![v] = NoView]
         \/ /\ share.account \in people
            /\ share.org \in DOMAIN orgs
            /\ viewing' = [viewing EXCEPT ![v].pc = "report", ![v].scope = share.org,
                             ![v].schedule = orgs[share.org].workSchedule]
         \/ /\ share.account \in people
            /\ share.org \notin DOMAIN orgs
            /\ \E schedule \in OwnSchedules(share.account, orgs) :
                 viewing' = [viewing EXCEPT ![v].pc = "report",
                                            ![v].schedule = schedule]
      /\ UNCHANGED <<shares, sharesMade, making, answer>>

(* Logs and holidays are read, and the report is answered.                 *)
ViewReport(v) ==
  LET q == viewing[v]
      logs == LogsFor(q.share.account, q.scope, Month)
      report == [id |-> q.id, live |-> q.live, org |-> q.share.org, logs |-> logs,
                 figures |-> Figures(logs, q.schedule,
                                     StandardWorkingDays(Month, HolidayDocs))]
  IN  /\ q.pc = "report"
      /\ answer' = report
      /\ cache' = Filled("view", ViewUrl(q.id), report, now)
      /\ viewing' = [viewing EXCEPT ![v] = NoView]
      /\ UNCHANGED <<shares, sharesMade, making>>

ShareStep ==
  \/ \E r \in Makers :
       \/ ShareInsert(r) \/ ShareDelete(r)
       \/ \E s \in DOMAIN shares : RevokeShareLink(r, s)
       \/ \E a \in people, org \in DOMAIN orgs \cup {None}, expiry \in Expiries :
            CreateShareLink(r, a, org, expiry)
  \/ \E v \in Viewers :
       \/ ViewFind(v) \/ ViewPopulate(v)
       \/ \E s \in 1 .. sharesMade : ViewArrive(v, s)

(* What of the other parts may happen beside the links.                    *)
Beside ==
  \/ HolidayTick /\ UNCHANGED <<orgVars, shareVars>>
  \/ /\ \/ \E a \in people : AccountGone(a)
        \/ \E r \in Callers : DeleteWrite(r)
        \/ \E r \in Callers, o \in DOMAIN orgs : RemoveOrganization(r, orgs[o].owner, o)
     /\ UNCHANGED <<holidayVars, shareVars>>

(* A behaviour keeps to one part of the system: every operation of it, but *)
(* holidays are edited in behaviours in which no time passes.              *)
DeskInit == OrgInit /\ HolidayInit /\ ShareInit /\ open \in Scenarios

DeskNext ==
  /\ UNCHANGED open
  /\ \/ open = "organizations" /\ OrgNext /\ UNCHANGED <<holidayVars, shareVars>>
     \/ /\ \/ open = "holidays" /\ (Listing \/ Clearing \/ Editing)
           \/ open = "lists" /\ (Listing \/ Clearing \/ HolidayTick)
        /\ UNCHANGED <<orgVars, shareVars>>
     \/ open = "shares" /\ Beside
     \/ open = "shares" /\ ShareStep /\ UNCHANGED <<orgVars, holidayVars>>
     \/ /\ open = "shares"
        /\ \E v \in Viewers : ViewReport(v)
        /\ UNCHANGED <<orgVars, holidays, daysMade, fetch, change, now, quiet, oldest>>

DeskSpec == DeskInit /\ [][DeskNext]_deskVars
-----------------------------------------------------------------------------
(* Links and requests have the shape of the code, and a report is answered *)
(* for a link that was given out.                                          *)
ShareTypeOK ==
  /\ OrgTypeOK
  /\ sharesMade \in 0 .. MaxShares
  /\ DOMAIN shares \subseteq 1 .. sharesMade
  /\ \A s \in DOMAIN shares : shares[s] \in Share
  /\ \A r \in Makers : making[r].pc \in {"idle", "insert", "delete"}
  /\ \A v \in Viewers : viewing[v].id \in 0 .. sharesMade
  /\ answer.id \in 0 .. sharesMade

(* Nobody who comes after a link was revoked or has expired is answered a  *)
(* report, although the reports of others may be on their way or cached.   *)
RevokedLinkShowsNothing == answer.live

(* Each stored holiday moves the standard days of the month by one: a day  *)
(* off on a weekday, or a make-up day on a weekend.  That needs one        *)
(* holiday per date, since the code looks days up in two sets of dates.    *)
StandardDaysFollowHolidays ==
  LET weekdays == {d \in Month : ~IsWeekend(d)}
      off == {h \in DOMAIN holidays :
                holidays[h].type = "Off" /\ holidays[h].date \in weekdays}
      makeUp == {h \in DOMAIN holidays : holidays[h].type = "Workday"
                   /\ holidays[h].date \in Month \ weekdays}
  IN  StandardWorkingDays(Month, HolidayDocs)
        = Cardinality(weekdays) - Cardinality(off) + Cardinality(makeUp)

(* What schemas/work-log-share.ts says of the organization of a link: the  *)
(* report is restricted to it.                                             *)
ReportStaysInOrganization ==
  answer.org # None => \A l \in answer.logs : l.org = answer.org
=============================================================================
