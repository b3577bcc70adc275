------------------------------ MODULE GitIngest ------------------------------
(***************************************************************************)
(* GitIntegrationService: commits of linked GitHub and GitLab accounts are *)
(* polled, or pushed by webhooks, and appended to the note of the work log *)
(* of their day; a log is created when the day has none.  The jobs run     *)
(* beside the handlers and the nightly job of WorkLog.                     *)
(*                                                                         *)
(* A job is a slot of `job`; an action is one database operation or one    *)
(* call of a provider, with the code that runs on its result.  A commit is *)
(* a line of a note.                                                       *)
(***************************************************************************)
EXTENDS WorkLog

CONSTANTS
  Integrations,  \* documents of git_integrations: accounts at a provider
  OwnerOf,       \* [Integrations -> Accounts]
  Providers,     \* the providers an integration may be of
  Commits,
  RepoOf,        \* [Commits -> Integrations]: whose token sees the commit
  Merges,        \* commits whose message says that they merge something
  Jobs,          \* slots for polls, manual syncs and webhooks in flight
  GitCalls,      \* the operations that take place
  SyncDays,      \* the days a client asks a sync to look back
  RepoErrors,    \* whether the commits of a repository may fail to load
  UtcOffset      \* seconds by which local time is ahead of UTC

ASSUME GitAssumption ==
  /\ None \notin Integrations \cup Commits
  /\ OwnerOf \in [Integrations -> Accounts]
  /\ RepoOf \in [Commits -> Integrations] /\ Merges \subseteq Commits
  /\ Providers \subseteq {"GitHub", "GitLab"} /\ Providers # {}
  /\ GitCalls \subseteq {"poll", "sync", "hook", "link", "unlink"}
  /\ SyncDays \subseteq 1 .. 90 /\ RepoErrors \in BOOLEAN /\ UtcOffset \in Int
  /\ \A n \in Notes : n \in Seq(Range(n))

VARIABLES
  integ,   \* the git_integrations collection
  pushed,  \* the commits at the providers: when made, when pushed
  timer,   \* the last time at which the scheduler fired
  job,     \* the jobs in flight
  taken,   \* history: commits written to a note, or refused for want of an
           \* organization
  excused  \* history: commits that lastPolledAt has passed although no poll
           \* was shown them

gitVars == <<integ, pushed, timer, job, taken, excused>>
allVars == <<vars, gitVars>>

NoJob ==
  [pc |-> "idle", kind |-> "poll", acct |-> None, start |-> 0, since |-> 0,
   ints |-> <<>>, int |-> None, batch |-> {}, commit |-> None, org |-> None,
   id |-> 0, note |-> <<>>, target |-> None, polled |-> 0,
   asked |-> {}, left |-> {}]

GitInit ==
  /\ Init
  /\ \E s \in [Integrations -> {"linked"} \cup (IF "link" \in GitCalls THEN {"new"} ELSE {})],
        p \in [Integrations -> Providers] :
       integ = [i \in Integrations |->
                  [state |-> s[i], provider |-> p[i], lastPolled |-> None]]
  /\ pushed = <<>> /\ timer = None /\ taken = {} /\ excused = {}
  /\ job = [j \in Jobs |-> NoJob]

-----------------------------------------------------------------------------
(* The providers.                                                          *)

Seen(i) == {c \in DOMAIN pushed : RepoOf[c] = i}

(* A commit is made at any time, and pushed then or later.                 *)
Push(c) ==
  /\ c \notin DOMAIN pushed
  /\ \E t \in Instants :
       /\ t <= now
       /\ pushed' = [x \in DOMAIN pushed \cup {c} |->
            IF x = c THEN [made |-> t, pushed |-> now] ELSE pushed[x]]
  /\ UNCHANGED <<vars, integ, timer, job, taken, excused>>

(* cleanCommitsForWorkLog.                                                 *)
UncleanCommits(commits) == commits
Clean(commits) == commits \ Merges

(* upsertIntegration inserts a document, and only renews the tokens of one *)
(* that is there; deleteIntegration deletes it for good.                   *)
Linked(i) == integ[i].state = "linked"

Link(i) ==
  /\ "link" \in GitCalls /\ integ[i].state = "new"
  /\ integ' = [integ EXCEPT ![i].state = "linked"]
  /\ UNCHANGED <<vars, pushed, timer, job, taken, excused>>

Unlink(i) ==
  /\ "unlink" \in GitCalls /\ Linked(i)
  /\ integ' = [integ EXCEPT ![i].state = "deleted"]
  /\ UNCHANGED <<vars, pushed, timer, job, taken, excused>>

-----------------------------------------------------------------------------
(* Jobs.                                                                   *)

Move(j, q) ==
  /\ job' = [job EXCEPT ![j] = q]
  /\ UNCHANGED <<now, orgs, lastOrg, req, cron, pushed>>
Goto(j, q) ==
  Move(j, q) /\ UNCHANGED <<logs, nextId, integ, timer, taken, excused>>

(* The integrations after this one, which was polled or has failed; a      *)
(* webhook is over.                                                        *)
NextIntegration(q) ==
  LET left == DOMAIN q.ints \ {q.int} IN
  IF left = {} THEN NoJob
  ELSE [NoJob EXCEPT !.pc = "next", !.kind = q.kind, !.start = q.start,
                     !.since = q.since, !.ints = [i \in left |-> q.ints[i]]]

(* appendCommitsToWorkLogs returns: a poll stores the time it is now.      *)
Appended(q) ==
  IF q.kind = "hook" THEN NoJob
  ELSE [q EXCEPT !.pc = "mark", !.polled = now, !.batch = {}]

NextCommit(q, c) ==
  LET left == q.batch \ {c} IN
  IF left = {} THEN Appended(q) ELSE [q EXCEPT !.pc = "find", !.batch = left]

TakeBatch(q, commits) ==
  IF Clean(commits) = {} THEN Appended(q)
  ELSE [q EXCEPT !.pc = "lastOrg", !.batch = Clean(commits)]

(* pollAllIntegrations, from the scheduler every ten minutes ...           *)
PollTime(t) == t % 600 = 0
StartPoll(j) ==
  /\ "poll" \in GitCalls /\ job[j].pc = "idle"
  /\ PollTime(now) /\ timer # now
  /\ timer' = now
  /\ Move(j, [NoJob EXCEPT !.pc = "list", !.start = now, !.since = now - DaySeconds])
  /\ UNCHANGED <<logs, nextId, integ, taken, excused>>

(* ... or from the sync endpoint, for one account and the days it asks for.*)
StartSync(j, a, days) ==
  /\ "sync" \in GitCalls /\ job[j].pc = "idle"
  /\ Goto(j, [NoJob EXCEPT !.pc = "list", !.kind = "sync", !.acct = a,
                           !.start = now, !.since = now - days * DaySeconds])

ListIntegrations(j) ==
  LET q == job[j]
      found == {i \in Integrations :
                  Linked(i) /\ (q.kind = "sync" => OwnerOf[i] = q.acct)} IN
  /\ q.pc = "list"
  /\ Goto(j, IF found = {} THEN NoJob
             ELSE [q EXCEPT !.pc = "next",
                            !.ints = [i \in found |-> integ[i].lastPolled]])

(* since is one variable for all the integrations of a poll.               *)
SinceOf(q, i) ==
  IF q.kind = "poll" /\ q.ints[i] # None THEN q.ints[i] ELSE q.since

(* What a poll is not going to see: a first poll and a sync reach back only *)
(* so far, any other one has the commits before since dealt with already.   *)
OutOfReach(q, i) ==
  {c \in Seen(i) : \/ pushed[c].pushed = q.since
                   \/ /\ pushed[c].pushed < q.since
                      /\ q.kind = "sync" \/ q.ints[i] = None}

Recent(q) == {c \in Seen(q.int) : pushed[c].pushed > q.since}

(* GitLab is asked for the events after the day of since, in UTC.  Whether *)
(* this leaves the events of that day out is up to the provider.           *)
UtcDay(t) == (t - UtcOffset) \div DaySeconds
AfterDay(q) == {c \in Recent(q) : UtcDay(pushed[c].pushed) > UtcDay(q.since)}

(* The answer of a provider holds these commits, and no other recent ones. *)
Without(q, commits) == [q EXCEPT !.left = @ \cup (Recent(q) \ commits)]

(* The first call of a provider; an error of it ends this integration.     *)
AskProvider(j, i) ==
  LET r == [job[j] EXCEPT !.int = i, !.since = SinceOf(job[j], i)]
      q == [r EXCEPT !.asked = Seen(i), !.left = OutOfReach(r, i)] IN
  /\ job[j].pc = "next"
  /\ \/ Goto(j, NextIntegration(q))
     \/ /\ integ[i].provider = "GitHub"
        /\ Goto(j, IF Recent(q) = {} THEN Appended(q)
                   ELSE [q EXCEPT !.pc = "commits"])
     \/ /\ integ[i].provider = "GitLab"
        /\ \E commits \in {Recent(q), AfterDay(q)} :
             Goto(j, TakeBatch(Without(q, commits), commits))

(* GitHub: the commits made since then in the active repository, the one   *)
(* of this integration.  An error is logged and leaves its commits out.    *)
FetchCommits(j) ==
  LET q == job[j]
      made == {c \in Seen(q.int) : pushed[c].made >= q.since} IN
  /\ q.pc = "commits"
  /\ \E commits \in {made} \cup (IF RepoErrors THEN {{}} ELSE {}) :
       Goto(j, TakeBatch(Without(q, commits), commits))

(* A webhook, of a push of one commit.  A provider sends it at any time    *)
(* after the push, again, or never.  The code reads the integration first. *)
Deliver(j, c) ==
  /\ "hook" \in GitCalls /\ job[j].pc = "idle"
  /\ c \in DOMAIN pushed /\ Linked(RepoOf[c])
  /\ Goto(j, TakeBatch([NoJob EXCEPT !.kind = "hook", !.start = now,
                                     !.int = RepoOf[c]], {c}))

-----------------------------------------------------------------------------
(* appendCommitsToWorkLogs, one commit after the other.                    *)

(* A commit of a webhook, or of GitHub, carries the time at which it was   *)
(* made, an event of GitLab the time of the push.                          *)
DayOfPoll(q, c) == Day(now)
DayOf(q, c) ==
  IF q.kind # "hook" /\ integ[q.int].provider = "GitLab"
  THEN Day(pushed[c].pushed) ELSE Day(pushed[c].made)

ReadLastOrg(j) ==
  LET q == job[j] IN
  /\ q.pc = "lastOrg"
  /\ Goto(j, [q EXCEPT !.pc = "find", !.org = lastOrg[OwnerOf[q.int]]])

(* The commit needs no further step: it is in a note, or has no place.     *)
Take(j, q, c) ==
  Move(j, NextCommit(q, c)) /\ taken' = taken \cup {c} /\ UNCHANGED excused

AddLine(j, q, c, id) ==
  Goto(j, [q EXCEPT !.pc = "save", !.commit = c, !.id = id, !.note = logs[id].note])
UseLog(j, q, c, id) ==
  IF c \in Range(logs[id].note)
  THEN Take(j, q, c) /\ UNCHANGED <<logs, nextId, integ, timer>>
  ELSE Goto(j, [q EXCEPT !.pc = "save", !.commit = c, !.id = id,
                         !.note = logs[id].note])

(* The log of the organization the account used last ...                   *)
FindPreferred(j, c) ==
  LET q == job[j] found == LogsOf(OwnerOf[q.int], q.org, DayOf(q, c)) IN
  /\ q.pc = "find" /\ q.org # None
  /\ \/ found = {} /\ Goto(j, [q EXCEPT !.pc = "findAny", !.commit = c])
     \/ \E id \in found : UseLog(j, q, c, id)

(* ... or any log of the day ...                                           *)
FindAny(j, c) ==
  LET q == job[j]
      found == UNION {LogsOf(OwnerOf[q.int], o, DayOf(q, c)) : o \in Orgs} IN
  /\ \/ q.pc = "find" /\ q.org = None
     \/ q.pc = "findAny" /\ q.commit = c
  /\ \/ found = {} /\ Goto(j, [q EXCEPT !.pc = "org", !.commit = c])
     \/ \E id \in found : UseLog(j, q, c, id)

(* ... or a new one, in the last organization, or in any if there is none. *)
FindOrg(j) ==
  LET q == job[j]
      found == {o \in Orgs : /\ orgs[o].alive /\ OwnerOf[q.int] \in orgs[o].members
                             /\ q.org # None => o = q.org} IN
  /\ q.pc = "org"
  /\ \/ found = {} /\ Take(j, q, q.commit) /\ UNCHANGED <<logs, nextId, integ, timer>>
     \/ \E o \in found : Goto(j, [q EXCEPT !.pc = "insert", !.target = o])

(* An error of the database ends the batch, and the poll of this           *)
(* integration before it is marked.                                        *)
MarkAnyway(j) == Goto(j, Appended(job[j]))
Abort(j) == Goto(j, NextIntegration(job[j]))

InsertLog(j) ==
  LET q == job[j] c == q.commit a == OwnerOf[q.int] day == DayOf(q, c)
      doc == Document(a, q.target, day,
                      <<[in |-> day * DaySeconds, out |-> None]>>, 0, FALSE, <<c>>) IN
  /\ q.pc = "insert"
  /\ \/ KeyTaken(a, q.target, day) /\ Abort(j)
     \/ /\ ~KeyTaken(a, q.target, day)
        /\ logs' = Inserted(doc) /\ nextId' = nextId + 1
        /\ Take(j, q, c) /\ UNCHANGED <<integ, timer>>

SaveNote(j) ==
  LET q == job[j] IN
  /\ q.pc = "save"
  /\ \/ q.id \notin DOMAIN logs /\ Abort(j)
     \/ /\ q.id \in DOMAIN logs
        /\ logs' = [logs EXCEPT ![q.id].note = Append(q.note, q.commit)]
        /\ Take(j, q, q.commit) /\ UNCHANGED <<nextId, integ, timer>>

(* What lastPolledAt passes unseen: what the answers left out, and what    *)
(* was pushed after the provider was asked.                                *)
Unseen(q) ==
  {c \in Seen(q.int) : /\ pushed[c].pushed < q.polled
                       /\ c \in q.left \/ c \notin q.asked}

Mark(j) ==
  LET q == job[j] IN
  /\ q.pc = "mark"
  /\ \/ ~Linked(q.int) /\ UNCHANGED <<integ, excused>>
     \/ /\ Linked(q.int)
        /\ integ' = [integ EXCEPT ![q.int].lastPolled = q.polled]
        /\ excused' = excused \cup Unseen(q)
  /\ Move(j, NextIntegration(q))
  /\ UNCHANGED <<logs, nextId, timer, taken>>

-----------------------------------------------------------------------------
JobStep(j) ==
  \/ ListIntegrations(j)
  \/ \E i \in DOMAIN job[j].ints : AskProvider(j, i)
  \/ FetchCommits(j) \/ ReadLastOrg(j)
  \/ \E c \in job[j].batch : FindPreferred(j, c) \/ FindAny(j, c)
  \/ FindOrg(j) \/ InsertLog(j) \/ SaveNote(j) \/ Mark(j)

Start(j) ==
  \/ StartPoll(j)
  \/ \E a \in Accounts, days \in SyncDays : StartSync(j, a, days)
  \/ \E c \in Commits : Deliver(j, c)

(* No job runs for longer than a handler may.                              *)
InTime ==
  now' # now => \A j \in Jobs : job[j].pc = "idle" \/ now' - job[j].start <= MaxFlight

GitNext ==
  \/ Next /\ InTime /\ UNCHANGED gitVars
  \/ \E j \in Jobs : Start(j) \/ JobStep(j)
  \/ \E c \in Commits : Push(c)
  \/ \E i \in Integrations : Link(i) \/ Unlink(i)

GitSpec == GitInit /\ [][GitNext]_allVars

-----------------------------------------------------------------------------
(* Correctness.                                                            *)

JobOK(q) ==
  LET appending == {"lastOrg", "find", "findAny", "org", "insert", "save"} IN
  /\ q.pc \in {"idle", "list", "next", "commits", "mark"} \cup appending
  /\ DOMAIN q.ints \subseteq Integrations
  /\ q.pc = "next" => DOMAIN q.ints # {}
  /\ q.pc \in {"commits", "mark"} \cup appending => q.int \in Integrations
  /\ q.batch \subseteq DOMAIN pushed \ Merges
  /\ q.pc \in appending => q.batch # {}
  /\ q.pc \in {"findAny", "org", "insert", "save"} => q.commit \in q.batch
  /\ q.pc = "insert" => q.target \in Orgs
  /\ q.pc = "save" => q.id \in Ids
  /\ q.pc # "idle" => q.polled \in Nat /\ q.start <= now
  /\ q.left \subseteq Commits /\ q.asked \subseteq Commits

(* The integrations and the jobs are well formed: a job never runs out of  *)
(* commits or integrations before it has left its loop, and no merge       *)
(* commit gets past the filter.                                            *)
GitTypeOK ==
  /\ integ \in [Integrations -> [state : {"new", "linked", "deleted"},
                                 provider : Providers,
                                 lastPolled : Nat \cup {None}]]
  /\ DOMAIN pushed \subseteq Commits /\ taken \subseteq DOMAIN pushed \ Merges
  /\ excused \subseteq Commits
  /\ \A j \in Jobs : JobOK(job[j])

(* No note holds a commit twice, although polls, syncs and webhooks bring  *)
(* it again and test a note they read before they write it.                *)
CommitOncePerLog ==
  \A id \in DOMAIN logs : \A k, n \in DOMAIN logs[id].note :
    logs[id].note[k] = logs[id].note[n] /\ logs[id].note[k] \in Commits => k = n

(* A commit is in a log of the account whose token saw it, of the day on   *)
(* which it was made or, for an event of GitLab, pushed.                   *)
CommitInItsLog ==
  \A id \in DOMAIN logs : \A c \in Range(logs[id].note) \cap Commits :
    /\ logs[id].acct = OwnerOf[RepoOf[c]]
    /\ \/ logs[id].day = Day(pushed[c].made)
       \/ /\ integ[RepoOf[c]].provider = "GitLab"
          /\ logs[id].day = Day(pushed[c].pushed)

(* A commit pushed before lastPolledAt, which no later poll asks for, has  *)
(* been dealt with, although jobs fail half way, overlap, and are overtaken*)
(* by pushes: the time is stored only when the whole batch is written.     *)
(* Excused is what the calls of the poll that moved lastPolledAt could not *)
(* show: pushed before a first poll or a sync reaches back, or after the   *)
(* provider was asked, or left out by `after` of GitLab, by `since` of     *)
(* GitHub (which compares when a commit was made), or by a failed call.    *)
NoCommitIsMissed ==
  \A c \in DOMAIN pushed \ Merges :
    LET polled == integ[RepoOf[c]].lastPolled IN
    polled # None /\ pushed[c].pushed < polled => c \in taken \cup excused

(* "Ignored for scheduled polls, which use each integration's              *)
(* lastPolledAt": the first scheduled poll of an integration, which has    *)
(* none, deals with the commits of the day before it.  (One pushed in the  *)
(* very second of since is left aside.)                                    *)
FirstPollReachesADay ==
  \A j \in Jobs : LET q == job[j] IN
    q.pc = "mark" /\ q.kind = "poll" /\ q.ints[q.int] = None =>
      \A c \in q.asked \ Merges :
        pushed[c].made > q.start - DaySeconds /\ pushed[c].pushed # q.since
          => c \in taken

=============================================================================
