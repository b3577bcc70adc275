# A TLA+ model of the work-time tracker

The repository is the back end of a work-time tracker: a NestJS application on
MongoDB (Mongoose). Employees check in and out, edit their work logs and read
reports; organizations have a work schedule; Git commits are added to the notes
of the logs; nightly and periodic jobs, Telegram messages, notices and QR login
surround that. There is next to no test in the repository (`app.controller.spec.ts`
and an end-to-end test check "Hello World"), so the code itself is the reference.

## Inventory

The program is one Node process: handlers, timers and jobs run in one thread and
interleave at every `await`. A database operation on one document is atomic; no
transaction is used anywhere. What is hard in this code therefore sits between
two awaits of a handler.

| Component (source) | State | Operations | What must hold |
|---|---|---|---|
| Work logs (`modules/work-log`) | `work_logs` | create, update, remove, autoCheckoutMissed (01:00), migrateToItems, search, reports | one log per account, organization and day; sessions in order, only the last one open; hours fit the sessions; owners only; no day stays open |
| Clock (`modules/clock`) | none: reads and writes `work_logs` through WorkLogService | checkIn, checkOut, today, recentLogs | what is recorded is not lost or changed |
| Work-hour arithmetic (`work-log.service.ts`) | none | getStandardHoursPerDay, getWorkedHoursByDay | rounding stays within its bound, later check-outs never cost hours |
| Organizations (`modules/organization`) | `organizations` | create, update, remove, addMember, removeMember, updateWorkSchedule, search | the owner stays a member; changes in flight do not undo one another |
| User references (`modules/user-ref`) | `user_refs` | field-wise upserts | independent fields do not overwrite each other |
| Reports and working days (`work-log.service.ts`) | reads | getStandardWorkingDays, monthlyReport, byOrganization | days agree with the calendar |
| Share links (`work-log.service.ts`, `work-log-share.controller.ts`) | `work_log_shares` | create, list, revoke, view | a link shows what it was made for, and nothing after it is revoked |
| Git integration (`modules/git-integration`) | `git_integrations`, notes of `work_logs` | OAuth connect, poll (job), webhooks, appendCommitsToWorkLogs | every commit once, none lost |
| Holidays (`modules/holiday`, `HttpCache.interceptor.ts`) | `holidays`, HTTP cache | create, update, remove, list | one holiday per date; a list is not stale after a change, or not for long |
| Accounts (`modules/auth`, `modules/account`) | `accounts` | register, login, verify, one-time codes, passwords, profile, metadata | one account per email; a code is accepted in time only; codes that were given out are kept |
| QR login (`auth.service.ts`) | `qr_sessions` | generate, status, confirm | a device gets a token in time, of an account that confirmed; a confirmation is not lost |
| Notices (`modules/notice`) | `notices`, sockets | create, send, mark, clear | a notice reaches its owner |
| Telegram (`modules/telegram`), alerts (`global-exception.filter.ts`) | timers and maps in memory | debounced sends, bot polling, error alerts with a cooldown | no text twice within the debounce, none withheld longer; every update handled |
| Mail, guards, pagination, shell | none | | (stateless or pure I/O) |

Interactions: the clock calls `WorkLogService.create` and `update`; both read
the organization, and create writes the user reference in a promise nobody
awaits. The Git jobs write the notes of work logs. Reports read holidays and
organizations, and share links answer reports to anybody. Deleting an account
deletes its notices and leaves its organizations, links, logs and QR sessions as
they are. The exception filter, notices and the bot send through Telegram; the
answer to a request that failed waits until its alert was posted.

`PROJECT.json` lists each component with its status, and under `hazards` each
place where a test would hardly reach.

## Modules

| Module | What it is |
|---|---|
| `WorkHours` | the arithmetic: sessions, schedules, rounded hours, the nightly check-out |
| `MCWorkHours` | a sheet that grows by sessions over a grid of instants, and the properties of the arithmetic |
| `WorkLog` | the `work_logs` collection, the handlers of WorkLogService and ClockService, the nightly job, the writes of OrganizationService they observe, and their safety properties |
| `Attendance` | the abstract specification: a register that collects sessions one at a time |
| `WorkLogRegister` | the refinement mapping from `WorkLog` to `Attendance`, fairness, liveness, and what the check-out of the job must not undo |
| `GitIngest` | extends `WorkLog` with the linked Git accounts and the jobs that write commits into notes |
| `Accounts` | the `accounts` collection and every handler of AuthService that writes it in two round trips, or after its answer |
| `QrLogin` | extends `Accounts` with QR sessions, polling devices and confirmations in flight |
| `Organizations` | OrganizationService: each operation is a read with the check of the owner, and a write |
| `Holidays` | HolidayService and the cache of HTTP answers in front of its list |
| `Reports` | operators: standard working days, schedule and figures of a monthly report |
| `ShareLinks` | extends the three above with share links and the public report they show |
| `Alerts` | server errors on their way to the administrators: cooldown, debounce, posts |
| `TelegramBot` | messages to the bot, by polling and by webhook |
| `Notices` | notices, the jobs that store and push them, sockets and lists of the tabs |
| `Messages` | the three above in one process, which may end at any time |
| `MCWorkLog`, `MCWorkLogRegister`, `MCGitIngest`, `MCAccounts`, `MCShareLinks`, `MCMessages` | values for TLC; `MCShareLinks` also evaluates the sheets of `MCWorkHours`, as a part of its own |
| `WorkHoursProofs` | theorems about the arithmetic, for sheets of any length |
| `WorkLogProofs` | theorems about `WorkLog`: types, the unique index, the shape of stored sessions |
| `WorkLogWrites` | theorems about what handlers write back: owners, hours, dates, the order of sessions |
| `RegisterProofs` | the refinement of `Attendance`, and what the nightly job leaves alone |
| `GitProofs` | theorems about `GitIngest` |
| `AuthProofs` | theorems about `Accounts` and `QrLogin` |
| `DeskProofs` | theorems about `Organizations`, `Holidays`, `Reports` and `ShareLinks` |
| `MessagesProofs` | theorems about `Alerts`, `TelegramBot` and `Notices` |

Parts that share no state are put side by side in one specification (`AuthSpec`,
`DeskSpec`, `MessagesSpec`), which picks at the start which part a behaviour
follows (`open`, `part`). Their interleavings would only multiply states: what a
part does depends on none of the variables of the others. Where state is shared
the parts do run together: an account is deleted while a QR session is confirmed,
an organization is deleted while a link to it is viewed, a request for a report
and one for a list use the same cache.

### Correspondence

A handler is a slot of `req`: its `pc` says which database operation comes next,
the other fields are its local variables. One action is one database operation
with the JavaScript that runs on its result, up to the next `await`. That merge
is sound because the code between two awaits touches only the handler's own
variables and the clock; a clock reading taken after a query is the value of
`now` at the action, and the value of `now` when the handler began is kept in
the slot where the code keeps it (`day`, from `getTodayBounds`).

* `CallCheckIn`, `CheckInFindLog`: `ClockService.checkIn`; it continues as
  `create` (pc `create`) or `update` (pc `update`), as the code calls them.
* `CallCheckOut`, `CheckOutFindLog`: `ClockService.checkOut`.
* `CallCreate`, `CreateReadOrg`, `CreateFindExisting`, `CreateInsert`,
  `SetLastOrganization`: `WorkLogService.create`, the unique index, and the
  promise that is not awaited.
* `CallUpdate`, `UpdateFindLog`, `UpdateReadOrg`, `UpdateWrite`:
  `WorkLogService.update`; the log is read again, for its owner and its flag.
* `CallRemove`, `RemoveFindLog`, `RemoveDelete`: `WorkLogService.remove`.
* `CronFind`, `CronReadOrg`, `CronSave`: `autoCheckoutMissed`, one log at a time
  in any order (the query names none).
* `SetSchedule`, `AddMember`, `RemoveMember`, `RemoveOrg`: the writes of
  OrganizationService. Their handlers check an owner that never changes and then
  write one document, so one action is their effect. The owner is an account
  outside `Accounts`, which keeps no logs.
* `GitIngest`: a job is a slot of `job`. `StartPoll` (the scheduler), `StartSync`
  (the sync endpoint), `ListIntegrations`, `AskProvider`, `FetchCommits` and
  `Mark` are `pollAllIntegrations` and what it calls for each integration;
  `Deliver` is a webhook. `ReadLastOrg`, `FindPreferred`, `FindAny`, `FindOrg`,
  `InsertLog` and `SaveNote` are `appendCommitsToWorkLogs`. The first call of a
  provider may fail, which the loop of the poll catches (`NextIntegration`); an
  error of the database does the same in the middle of a batch (`Abort`). A sync
  looks back any of `SyncDays`, which a client may set to 1 to 90. GitLab is asked
  for events `after` the UTC day of `since` (`UtcDay`, `AfterDay`): whether the
  events of that day itself are in the answer is up to GitLab, so both happen.
  `Push` is the world outside: a commit gets the time it was made and the time it
  was pushed. `taken` and `excused` are history variables: the commits that need
  no further step, and those that `lastPolledAt` passed although no call of the
  poll could show them (`asked` and `left` of a job collect what it was shown).
  `GitNext` lets all of `WorkLog` run beside the jobs.
* An answer with an error and an answer with success both leave the slot idle.
* `Accounts`: `Call` is the arrival of a request, with the account that the JWT
  strategy loads and the first query of the handler; `Continue` is the write.
  `StorePassword` is the callback of `bcrypt.hash`, after the answer; errors of
  `genSalt`, `hash` or the write reach nobody and end the process, as anything
  else may: `ProcessEnds` drops every handler. A hash is the password it was made
  of. `PATCH /auth/update-metadata` writes any key and any value (`Patch`): codes,
  expiry dates and texts of the client's own (`ClientText`) among them. `otpAge`
  and `patched` are history variables, the latter the keys that clients wrote.
* `QrLogin`: a device is a client that generates a session, polls it, keeps the
  token or starts over. `Live` is the test the handlers make because the TTL
  index (`RemoveExpired`) is late. `ConfirmRead` and `ConfirmWrite` are the two
  round trips of `confirmQrSession`, whose write asks nothing.
* `Organizations`: `OwnerReads` is the `findById` and the comparison with the
  owner that all four operations begin with, `PatchWrite`, `AddWrite`, `PullWrite`
  and `DeleteWrite` are their writes. The id of a member comes as a text in one of
  `Spellings`: it is compared as it is written with what `toString` gives, in
  lower case, and `$addToSet` and `$pull` use the id it stands for. `selfPulled`
  is a history variable, the organizations whose owner got past that comparison. `AccountGone` is the deletion of an account,
  which tells no organization.
* `Holidays`: `ListArrive`, `ListQuery` and `ListFill` are the interceptor before
  the handler, the query, and the `tap` that caches the answer. `Written` and
  `ClearListCache` are a change after its write, and the loop over the keys.
  `Evict` is the limit of 100 answers. The cache is in memory, so using it takes
  no turn of the event loop. `quiet` and `oldest` are history variables.
* `ShareLinks`: `ViewArrive`, `ViewFind`, `ViewPopulate` and `ViewReport` are the
  interceptor, the query of the link, `populate`, and the queries of logs and
  holidays with the answer. `live` remembers whether the link was valid when the
  request came. Logs do not change in this module.
* `Alerts`: `CatchError` is the filter up to its first query, `SendToRecipients`
  the loop that debounces and starts the posts, `PostEnds` a post that ends,
  `MarkAndAnswer` the entry in `sentErrors` and the answer. `lastPost`,
  `tooSoon` and `failed` (the administrators could not be looked up) are history
  variables; the end of the process takes the memory of
  the debounce, so that `SameTextOncePerMinute` is about one life of the process.
* `TelegramBot`: `GetUpdates` is a request of the polling loop with its answer,
  `AnswerLost` one whose answer does not arrive, `TakeUpdate` the line that moves
  `lastUpdateId` with the start of the handler, `Handled` its end.
* `Notices`: `Send` is the query for the users and the start of a
  `createAndSend` for each, which is a member of `jobs`: `NoticeInsert`, then
  `NoticeFind` with the push. `Rejected` says who deals with a failure:
  `allSettled` and the handler of `noticeToUser` do, and for `noticeToSomeUsers`
  nobody, so that it may end the process with everybody's jobs. `failed` are the
  notices whose own job was rejected, `ended` those whose job died with the process.

Abstractions. Time is in whole seconds in `WorkLog` and `GitIngest`, in units of
their lifetimes elsewhere; local time has no daylight saving, so a
day is 86400 seconds. Hours are hundredths, as the code rounds them; sums of
such doubles are taken as exact (`WorkHours` says why). Notes are sequences of
lines; a commit is one line. In `GitIngest` pages do not overflow, and a push
has one commit (an event of GitLab names the last one of its push only). Every
log has `items`: logs of
before `migrateToItems` are not modelled. `log.save()` compares the version key;
no other operation of the code changes it (`findByIdAndUpdate` does not), so the
comparison always succeeds while one job runs at a time, and is left out.

## Runs

| Run | Configuration | What it shows |
|---|---|---|
| `work_hours_standard` | violation (`WorkHoursStandard.cfg`) | the nightly check-out is said to give a day the standard hours of its schedule; a hundredth or two may be missing |
| `work_log_clock` | `WorkLogClock.cfg` | two requests of one account in flight at once over a working day and midnight: one log per day (`UniqueLogPerDay`), sessions in order and without overlap (`OnlyLastSessionOpen`, `SessionsDoNotOverlap`), dated by the first check-in (`DatedByFirstCheckIn`) |
| `work_log_edits` | `WorkLogEdits.cfg` | two accounts create and edit by hand while the job runs and the organization changes: only the last session open (`OnlyLastSessionOpen`), hours that fit (`HoursMatchItems`), only owners write (`OnlyOwnersWrite`) |
| `work_log_register` | `WorkLogRegister.cfg` | one request at a time: check-in, check-out and the job implement `Attendance` (`ImplementsRegister`); a day before a night at which the job runs does not stay open (`NoDayStaysOpen`); the job closes only what is open, of the day before (`AutoCheckoutKeepsWork`) |
| `git` | `Git.cfg` | two jobs beside a check-in or of every kind, across midnight, and one job at a time with batches while an integration comes or goes, logs and organizations disappear and jobs fail half way; commits pushed at any time, repositories that fail, both readings of `after`: a commit is in a log of its day (`CommitInItsLog`), in none twice (`CommitOncePerLog`), and `lastPolledAt` passes no commit that the calls of the poll showed before it was dealt with (`NoCommitIsMissed`) |
| `work_log_stale_job` | violation (`WorkLogStaleJob.cfg`) | a check-out the owner enters while the job is between its find and its save is replaced by the job's |
| `accounts` | `Accounts.cfg` | two requests at a time over every endpoint that writes an account, in sets of endpoints that meet on the same fields, with PATCHes of any kind of key and ends of the process: one account per email, and for accounts whose clients did not write the key themselves codes accepted in time (`CodeAcceptedInTime`) and invitation codes kept (`InvitationCodeKept`); and QR sessions with an account that is deleted: a token in time and of an account that confirmed (`TokenWithinPromise`), and no confirmation is lost (`ConfirmationReachesDevice`) |
| `desk` | `Desk.cfg` | five parts: organizations whose owner acts twice at a time (`OwnerStaysMember`, `MembershipStepByStep`); two editors of holidays beside a cached list (`OneHolidayPerDate`, `FreshAfterQuietChange`); lists over time (`ListAgeBounded`); links that are viewed while they are revoked, expire, or lose account or organization (`RevokedLinkShowsNothing`). Standard days follow the holidays in every state (`StandardDaysFollowHolidays`). The fifth part is every sheet of up to three sessions: hours stay within a third of a hundredth per rounding of the worked minutes (`HoursTrackMinutes`); leaving later never costs hours (`LeavingLaterNeverCostsHours`); the nightly check-out stores the standard hours when the minutes of schedule and lunch break are multiples of 3 and loses at most 0.02 h otherwise (`AutoCheckoutRestoresStandard`) |
| `messages` | `Messages.cfg` | alerts, bot and notices across one end of the process: no text twice within the debounce (`SameTextOncePerMinute`), and an error is marked as sent only when each administrator that was looked up had a text with its beginning posted (`AdministratorsWereTold`); no update is forgotten before it was handled and each is handled some time (`ForgottenWasHandled`, `EveryUpdateHandled`); a tab that connects and lists misses no notice (`OpenTabMissesNothing`), and each notice is stored unless its own job was rejected or the process ended (`NoticeIsStored`) |
| `git_since_leak` | violation (`GitSinceLeak.cfg`) | scheduled polls are said to use each integration's `lastPolledAt`; the first poll of one that has none takes over that of another integration and loses the day before (`FirstPollReachesADay`) |
| `owner_spelling` | violation (`OwnerSpelling.cfg`) | an owner is said not to be able to remove himself; with his id in upper case he is (`OwnerCannotLeave`) |
| `shared_report_scope` | violation (`SharedReportScope.cfg`) | a link that names an organization shows the logs of all organizations of the account once that organization is deleted |

Bounds and why they are enough:

* `Reqs`: two slots. Every race of this code is between two handlers, or a
  handler and the job; a third handler repeats one of the two.
* `Unanswered`: requests of one account in flight together. 2 in the clock and
  edit runs (two devices, an impatient client), 1 for the register: with two,
  the array one handler writes back can drop the session another one wrote, as
  each sends back all items. `Attendance` is a promise to a client that waits.
* `MaxFlight` (30 minutes, 10 in the Git runs): the time a handler or a job takes. It is far
  above what a request takes and only keeps a handler from spanning days; the
  gap between 23:59:50 and 00:00:10 lies inside it.
* `MaxLogs`: removals are asked for until so many logs were inserted, which
  bounds the ids.
* `Instants`: readings of the clock on both sides of what the code decides on:
  the lunch break, midnight, 01:00. An instant with odd seconds makes the
  truncation to minutes visible.
* Git (`MCGitInit`, `Within`): two jobs and one commit that both bring, one job and batches
  of two commits and a merge, one job and commits of days before, and polls while
  a second integration is linked. Syncs look back 1 or 7 days, which is on this
  and on the other side of the oldest of the `Instants`; local time is UTC, which
  the theorem does not assume. An overlap of polls (`MaxFlight` lets one run
  until the next begins), of a poll with a webhook, and a redelivery are all
  pairs. Two instants across midnight are enough to confuse days; a third one
  lies between two polls.
* `NoCommitIsMissed` has no condition on the world: commits are pushed at any
  time, repositories fail, integrations are linked and unlinked. It counts as
  `excused` what no call of that poll could show, which are the losses named in
  the observations below (the `since` that leaks among them, which has a run of
  its own); everything that was shown, and everything an earlier
  poll of this integration was to deal with, must be dealt with.
* Accounts: two slots for requests, an account from before there were codes, one
  with a code that is an administrator, and one id for a new account; three
  emails, two passwords, two minutes of a clock and a code that lives for one.
  The sets of endpoints in `ScenariosDef` are those that read what the others
  write; an endpoint is in at least one of them. A PATCH of the metadata asks for
  a login to be confirmed, moves the expiry of a code, or replaces the invitation
  code: one key of each kind the code reads again. Clients write two of these at
  most. The process may end at any time.
* QR: one device, two confirmations in flight, two sessions, one minute of life.
  Devices do not see each other's sessions, and the theorem is for any number.
* Organizations: an account is deleted or an organization is created (which share
  nothing: only an account that exists creates one), with the default schedule;
  ids come in lower or in upper case.
* Organizations and holidays: two requests in flight, two editors and one list
  request, two dates (a Friday and a Saturday), a cached answer that lives 2 and a
  request that takes at most 1. Holidays are edited in behaviours in which no
  time passes; in those with time they are only removed, which is enough to make
  a cached list old.
* Links: one link, one maker, one viewer; revoking and expiring meet a view
  between any two of its steps. The theorem has any number of each.
* Alerts: two errors of one route, which the debounce cannot tell apart, two
  chats, and a filter that remembers one error, so that its limit is met.
  Bot: three updates and one end of the process. Notices: two users, two tabs of
  one of them, one request to send and one end of the process: a second request
  has its own notices (but see `id` in the observations), whose jobs read and
  write nothing of the first.
* Sheets: six instants, some with odd seconds, and schedules and lunch breaks
  whose minutes leave each remainder modulo 3.
* Symmetry is used in runs without temporal properties other than
  `OnlyOwnersWrite` and `MembershipStepByStep`, which speak of single steps and
  treat all accounts and slots alike; jobs are interchangeable, and so are commits
  that merge nothing.

Deadlock is not checked where the clock runs out of `Instants`, the sheet of
`MCWorkHours` is full, or ids, codes, updates and links are used up: those systems
stop by their bounds.

### Fairness

`LiveSpec` assumes weak fairness of each handler (the event loop runs a ready
callback, the database answers), weak fairness of the nightly job (`CronStep`),
and strong fairness of the clock: time passes, although the bound `MaxFlight`
disables it while a handler is under way. With `AlwaysUp` the clock does not
pass 01:00 without the job; without it (`work_log_edits`) the process may be
down and the job of that night never runs, which is why `NoDayStaysOpen` is
stated for `AlwaysUp`: the code looks at the day before only and never catches
up on a missed night.

`AuthFairness`: a device that shows a code keeps polling, which is its loop.
Nothing else is assumed: nobody has to confirm, handlers may stay where they are
or die with the process, and the TTL index may never run. `BotFairness`: Telegram can be reached now and then
and handlers end; it posts an update to the webhook again until it is answered.
The answer may get lost for ever: `EveryUpdateHandled` asks for one handling.
`NoticesFairness`: promises in flight go on. The end of the process is never
fair, and is bounded by `MaxCrashes`.

## Proofs

Every safety property that a passing run checks on a small instance is proved
for every value of the constants, and so is the refinement of `Attendance`; what
is left to TLC is liveness. A hypothesis of a theorem that is not an assumption
of a module is defined by name next to it, and is met by the run that checks the
property. They are needed: the text says what happens without each, and TLC finds
the property violated when the run is given values that break it (a `MaxFlight` of
more than an hour, two unanswered requests, a PATCH of `skipLunch`, a schedule
that ends before it starts). The theorems about Git polls, codes, organizations
and messages have none: what the code leaves open there is counted by a history
variable that the property names (`excused`, `patched`, `selfPulled`, `failed`). That `Reqs` and `Month` are finite is asked for by
the cardinalities in the model alone.

The arithmetic (`WorkHoursProofs`, of `MCWorkHours`), for any number of
sessions, instants, schedules and lunch breaks:

* Hours are a sum over the sessions of a sheet, by a fold of the community
  modules. `TwoSums` says that what holds of 0 and 0, and stays when the same
  element is added to both, holds of two sums over one set. It is proved without
  an induction rule: a set of numbers with a counterexample has a least one
  (`AllNumbers`), and a function that satisfies the equation of the sum exists on
  the subsets of a finite set (`SumsExist`).
* `HoursFollowMinutes`: one rounding is off by at most a third of a hundredth
  (`RoundNear`, `NetNear`), and the sum adds one per session (`SheetNear`).
* `LeavingLaterPays`: each of the roundings is monotone (`RoundMonotone`,
  `NetMonotone`), and so is their sum (`SheetMonotone`).
* `StandardDayRestored`: `CheckOutRounds` computes what is left of a check-out
  that was made of rounded hours and cut to minutes, by the remainder of the
  schedule's minutes modulo 3; `StandardRestored` does it for the lunch break.

Work logs, for any accounts, organizations, schedules, bodies, instants and
number of handlers (`WorkLogAssumption`). In `WorkLogProofs`:

* `TypeCorrect`: `TypeOK` is inductive. It says more than
  types: a handler past its first read holds an organization and a flag, ids
  were given out before they are used, every document in the job's list has an
  open session.
* `OneLogPerDay`: no step but an insert adds a key, an insert
  is refused when its key is taken, and no update changes a key. That needs only
  the fresh id of `TypeOK`. The check in `create` plays no part: the unique
  index carries the property alone.
* `SessionsWellFormed`: `OnlyLastSessionOpen` is not
  inductive, since what a handler stores was computed steps before. `SessionsInv`
  adds what is in flight: before its check a handler's items are open at most at
  the end, after it they are well formed, and so is every document in the job's
  list. Two assumptions are stated because the code does not check them:
  `DaySchedules` (a schedule ends after it starts, else the job writes a
  check-out before the check-in) and `SheetsOpenLast` (no PATCH leaves an
  earlier session open, where there are PATCHes at all).

In `WorkLogWrites`, by lemmas that say once who writes a log and what a step
does to a slot, to the job's list and to the clock (`Moves`, `TodoMoves`,
`NowMoves`):

* `OwnersOnly`: the owner is checked a round trip or two before the write.
  `OwnersInv` says that a slot past its check holds the id of a log of its own
  account, if that log is still there: owners do not change and ids are not
  given twice.
* `HoursCorrect`, with `FlagsAreKept` (no PATCH sets `skipLunch`): `HoursInv`
  says that hours in flight were computed of the items and the flag in flight,
  and that the flags of the job's documents are those stored. A PATCH of the flag
  between the job's query and its save breaks that, and `HoursMatchItems` with it.
* `DatesCorrect`, with `NoSheets` (no PATCH): `DatedInv` says that the items a
  handler or the job holds begin on the day of the log they will be written to.
  A PATCH may move the first check-in to another day, and the code keeps the date.
* `SessionsFollow`, with `ClockOnly` (no sheet is created or edited by hand:
  create and update compare sessions with nothing) and `ShortFlights` (a handler
  takes less than the hour between midnight and the job): `TimedInv` says that the
  sessions of a log, and those a handler is about to write, ended by now, unless
  the log is of a day for which one o'clock of the next has passed (`Late`), as
  are all logs in the job's list. The job writes check-outs that may lie in the
  future, but on days no check-in looks at any more.

In `RegisterProofs`:

* `JobKeepsWork`, with `ClockOnly` and `ShortFlights`: `JobInv` says that the
  items in the job's list are those stored, while the log is there, and of the
  day before the one the job started in; and that a handler writes a log of the
  day it started in. To write one of the job's it would have had to start before
  midnight and still run at one o'clock. Without `ClockOnly` it is the violation of
  `work_log_stale_job`.
* `RegisterImplemented`, with `AwaitsAnswers` (one request of an account at a
  time) and `DaySchedules` in addition: `RegInv` joins the invariants above with
  `RegisterInv`: an account has one busy handler, and what that one is about
  to store is what is stored, with one session added or ended (`Continues`).
  Nobody else writes that log: its owner waits, and the job's logs are late. Then a
  write maps to `ClockIn` or `EndSession` of the register, the job's save to
  `EndOfDay`, a removal to `Erase`, and everything else to a stutter.
  With two requests in flight the mapping fails, as each sends back all items.

Git (`GitProofs`, of `GitSpec`), for any integrations, commits, jobs and
everything of `WorkLog` beside them:

* `JobsCorrect`: `GitOK` is inductive. Besides types it says at which step a job
  has which field, and that its list is not empty inside the loops.
* `CommitsNotRepeated`, with `ClientsNameOnce` (no client writes the line of a
  commit twice itself): a job about to save holds a note without its commit,
  because it appends to the very note it has tested.
* `CommitsInTheirLog`, with `ClientsWriteNoCommits`: every commit a job holds was
  seen by the token of its account, and the id a job will write is of that
  account and that day (`PlacedIn`), whatever was deleted or linked meanwhile.
* `NothingIsMissed`: `PollsInv` says that of an integration's commits those of
  before its `lastPolledAt` are dealt with or excused, also for the `lastPolledAt`
  that a job read at its start and carries along (`Carried`); and that of the
  commits a provider knew when it was asked each is dealt with, left out of the
  answer or in the batch (`AskedBut`). Jobs of every kind may overlap, in any
  number, for commits pushed at any time, any failures and any `UtcOffset`.

For every value of the constants that satisfies `AccountsAssumption` and
`QrAssumption` (`AuthProofs`, of `AuthSpec`):

* `AccountsCorrect`: `AccountsTypeOK` and `OneAccountPerEmail` are inductive
  together. Only an insert and a profile write set an email, and the index
  refuses both when it is taken: the lookups before them play no part.
* `AccountsKeepShape` is the first half of it, on its own.
* `CodesExpire`: `CodesInv` says that metadata with a code expires no later than
  `OtpLife` after that code was made, wherever it is: in a document, and in what
  `updateTelegram` remembers and will write back, but for accounts whose client
  wrote one of the two keys (`OtpIn`). That is why a code that comes back is still
  not accepted late.
* `CodesAreKept`: `KeptInv` says that a login about to set a code is of an
  account without one, and that remembered metadata has the invitation code the
  account has now, where no client wrote that key (`Coded`). Ids are never reused, else a new account could be mistaken for
  the one a request in flight is about.
* `TokensKeepThePromise`: `QrInv` ties the promise of a device to the
  `expiresAt` of its session, and the token of a session to `accepted`.

For every value of the constants of `ShareLinks` that satisfies the assumptions
(`DeskProofs`, of `DeskSpec`):

* `OwnerIsMember`: inductive with `OrgTypeOK`, and with this: the member a removal
  in flight names is not the owner of that organization, unless his removal was
  let through by its spelling (`selfPulled`). The owner never changes and the id
  is never reused. `MembershipsStepByStep` follows
  from the same invariant: `$addToSet` and `$pull` are about one member.
* `HolidaysByDate`: the index again, not the lookup.
* `ListsFresh`: `FreshInv` adds that after such a change a list on its way into
  the cache is what the database has, like the lists in it.
* `ListsNotOlder`: `AgeInv` says that a request takes no longer than `Flight` and
  read its list on the way, and that a cached answer is used no later than
  `Flight + Ttl` after it was read.
* `RevokedLinksShowNothing`: under the condition that the route of the links is
  in `SkipCached`, as its decorator says. `ViewInv` says that a request whose
  link is valid now had a valid link when it came: ids are not reused and
  nothing moves `expiresAt`.
* `HolidaysCountOnce`: the reports count days by the dates of holidays, the
  property counts holidays. The two agree because the index keeps dates apart
  (`OneHolidayPerDate`), so that a holiday and its date are a bijection
  (`OnePerDate`). `Month` is assumed finite.
* `LinksAndReportsShaped`: `ShareTypeOK` with what is in flight and what is in
  the cache, and that organizations in links were given out.

For every value of the constants of `Messages` (`MessagesProofs`, of
`MessagesSpec`, across any number of ends of the process):

* `NoUpdateForgotten`: `BotInv` says that every update up to the offset that
  Telegram still keeps was handled or is being handled, and that the rest of an
  answer holds whatever Telegram keeps from before it. The loop asks again only
  when nothing is in its handler.
* `AlertsAreDebounced`: `AlertInv` says that the debounce forgets no stamp of the
  last `DEBOUNCE_TIME` (it keeps them for `KeepFor`, which is longer) and that a
  stamp is the time of the last post of that text.
* `AdministratorsTold`, by the same invariant: a text the debounce held back for
  a chat had one with the same beginning posted less than `DEBOUNCE_TIME` before,
  and all administrators are gone through unless their lookup failed.
* `TabsMissNothing`: the property is inductive with the shape of the records, as
  it counts a notice as on its way until its job has pushed it or failed.
* `PartsHold` carries the three invariants through the end of the process.

Only model-checked: liveness, which is out of the prover's reach
(`NoDayStaysOpen`, `ConfirmationReachesDevice`, `EveryUpdateHandled`,
`NoticeIsStored`). The five violations are found by TLC
only, as they should be.

## Observations

What the models made visible and no document speaks of:

* A log that a Git job creates opens a session at midnight. The first check-in
  of that day is then refused (check out first), and the check-out counts from
  midnight.
* A manual sync creates open logs of up to 90 days ago; the nightly job looks
  at the day before only and never closes them.
* `lastPolledAt` moves past commits that no poll has shown, and nothing asks for
  them again: those pushed while a poll runs (the time is stored after the
  fetch); commits that are pushed later than they were made (`since` of GitHub
  compares the latter); those of a repository whose call fails (a warning is
  logged); and, if `after` of GitLab leaves out the day it names, all pushes of the
  UTC day of `since`, which is nearly all that a poll every ten minutes asks for.
* A poll dates a commit of GitLab by its push, a webhook by when it was made:
  the same commit can be in the logs of two days.
* A check-in or an edit with a note replaces the commit lines of that log.
* Two jobs with different commits of a day can overwrite each other's line.
* A PATCH of `skipLunch` while the nightly job runs leaves hours that were
  computed under the old flag.
* A PATCH of the items may move them to another day; the date of the log stays.
* The nightly check-out is made of rounded hours: unless the minutes of the day
  and of the lunch break are multiples of 3, the day is one or two hundredths of an
  hour short (`work_hours_standard`).
* The nightly job gives more than the standard hours to a day with an earlier,
  closed session (comment at `work-log.service.ts:90-93`): it adds a full day to
  the last check-in.
* `clock.controller.ts:50` describes a second check-in of a day as an error; the
  code opens another session unless one is open.

Accounts and QR login:

* Login never starts the one-time code of an administrator, although
  `docs/ADMIN_OTP_AUTHENTICATION.md` and `API.md:146,172` describe it; codes are
  made by resend-otp only, for accounts with `pendingLoginIp`.
* Two logins at once of an account without an invitation code make two codes, of
  which the second one stays.
* `updateTelegram` writes back the metadata the request was let in with: a code
  that was used or replaced meanwhile can be there again, not past its expiry.
* change-password and reset-password answer before the hash is stored: a change
  that was answered yes is lost when an error (which reaches nobody) or the end of
  the process comes first, and of two changes answered one after the other the
  first may be the one that stays.
* `PATCH /auth/update-metadata` takes any key and any value. One of `otpExpiry`
  has a one-time code accepted as late as the client likes, one of `myCode`
  changes the invitation code. The properties about codes leave those accounts out.
* Two accounts can confirm one QR session, and both are answered yes, as is a
  confirmation whose session expired or was removed between its two steps
  (`docs/CLOCK_MOBILE_API.md:191` promises a refusal).

Organizations, reports and links:

* The reports of `monthlyReport` and of a link differ in a month without logs: the
  first one uses the default schedule for a named organization, the other one the
  schedule of the organization.
* The owner of an organization can be removed by writing his id in upper case
  (`owner_spelling`), and reports by organization then leave him out; a
  member whose id comes in upper case can be added again, which `$addToSet` ignores.
* A link whose account was deleted fails with an error of the server; a revoked
  one answers 404 (`API.md:1465` says 410).
* A list request that read before a change and answers after it puts the old
  list back into the cache for as long as an answer lives.
* The total that the search of work logs gives ignores the account filter when
  there is a keyword.

Messages:

* The first 100 characters of an alert are the route and the address: different
  errors of one route within a minute are one text for the debounce, and the
  second counts as sent for five minutes although nobody saw it. So does an error
  whose administrators could not be looked up (`telegram-admin.service.ts:32-35`),
  of which nobody is told at all; `AdministratorsWereTold` leaves it out.
* The map of the filter drops the key that was inserted first, also when it was
  sent again last (comment at `global-exception.filter.ts:150`), and line 81 asks
  for the mode `development`, which is called `dev` elsewhere.
* `getUpdates` answers errors with an empty list, so that the pause of the loop
  after an error never happens.
* `maskAsRead` does not ask whose notice it is. A request to delete an account
  deletes the notices first: one that is stored in between stays.
* A notice that is deleted before it is read again rejects a promise which, for
  `noticeToSomeUsers`, nobody handles: the process may end, and with it the jobs
  for the other users of that request.
* `NoticeToUserDto` carries the `id` of the user, which `create` passes on to the
  document, where it is a name of `_id`: a second notice to the same user may
  collide with the first one and fail. The model has that as a failure like any
  other (`CreateAndSendFails`).

## Not modelled

* Mail, guards, pagination, response shaping, the application shell: pure I/O or
  without state. What the JWT strategy loads is part of the handlers.
* `monthlyReport` and `byOrganization`, which read what the report of a link reads;
  the figures of both are those of `Reports`.
* `migrateToItems` (a migration of logs without items) and the searches, which
  only read.
* OAuth, signatures of webhooks, token refresh and pages of the Git providers:
  the protocol of a third party, of which `src/` holds one side only.
* The list of addresses, `updateLocation`, cookies and mails of the accounts:
  written and read by no other code, or sent away.
* What the commands of the bot answer: they read reports and write nothing.
* Mails and Telegram copies of a notice, and `noticeToAdmins`, which has no
  caller.

What could come next: the safety half of the arguments behind the liveness
properties (what a handler in flight may wait for), and a register that says what
two requests of one account at a time may still lose.
