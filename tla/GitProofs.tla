------------------------------ MODULE GitProofs ------------------------------
(***************************************************************************)
(* Theorems about GitIngest for any number of jobs, integrations, commits  *)
(* and accounts, beside any number of handlers of WorkLog.                 *)
(***************************************************************************)
EXTENDS GitIngest, WorkLogWrites

-----------------------------------------------------------------------------
(* What a step of a job does, said as facts about fields: from q to p.     *)

Appending == {"lastOrg", "find", "findAny", "org", "insert", "save"}

SameRound(q, p) ==
  /\ p.kind = q.kind /\ p.start = q.start /\ p.since = q.since
  /\ p.ints = q.ints /\ p.int = q.int /\ p.asked = q.asked /\ p.left = q.left

(* On to the next integration, or out.                                     *)
Leaves(q, p) ==
  LET left == DOMAIN q.ints \ {q.int} IN
  \/ p = NoJob
  \/ /\ left # {} /\ p.pc = "next" /\ p.kind = q.kind /\ p.start = q.start
     /\ p.since = q.since /\ p.ints = [i \in left |-> q.ints[i]]
     /\ p.batch = {} /\ p.polled = 0 /\ p.asked = {} /\ p.left = {}

(* The batch is done.                                                      *)
Finishes(q, p) ==
  \/ q.kind = "hook" /\ p = NoJob
  \/ /\ q.kind # "hook" /\ SameRound(q, p) /\ p.pc = "mark"
     /\ p.polled = now /\ p.batch = {}

Batches(q, p, commits) ==
  \/ Clean(commits) = {} /\ Finishes(q, p)
  \/ /\ Clean(commits) # {} /\ SameRound(q, p) /\ p.pc = "lastOrg"
     /\ p.batch = Clean(commits) /\ p.polled = q.polled

GoesOn(q, p, c) ==
  \/ q.batch \ {c} = {} /\ Finishes(q, p)
  \/ /\ q.batch \ {c} # {} /\ SameRound(q, p) /\ p.pc = "find"
     /\ p.batch = q.batch \ {c} /\ p.polled = q.polled

Begins(q, p) ==
  /\ q.pc = "idle"
  /\ \/ p = NoJob
     \/ /\ p.start = now /\ p.polled = 0 /\ p.ints = <<>>
        /\ p.asked = {} /\ p.left = {} /\ p.since \in Int
        /\ \/ /\ p.pc = "list" /\ p.batch = {}
              /\ p.kind \in {"poll", "sync"}
           \/ /\ p.pc = "lastOrg" /\ p.kind = "hook"
              /\ \E c \in DOMAIN pushed \ Merges : p.int = RepoOf[c] /\ p.batch = {c}

Lists(q, p) ==
  /\ q.pc = "list"
  /\ \/ p = NoJob
     \/ /\ p.pc = "next" /\ p.kind = q.kind /\ p.start = q.start
        /\ p.since = q.since /\ p.batch = q.batch /\ p.polled = q.polled
        /\ p.asked = q.asked /\ p.left = q.left
        /\ DOMAIN p.ints \subseteq Integrations /\ DOMAIN p.ints # {}
        /\ \A i \in DOMAIN p.ints : p.ints[i] = integ[i].lastPolled

(* The round of integration i.                                             *)
RoundOf(q, i) ==
  LET r == [q EXCEPT !.int = i, !.since = SinceOf(q, i)]
  IN  [r EXCEPT !.asked = Seen(i), !.left = OutOfReach(r, i)]

Asks(q, p) ==
  /\ q.pc = "next"
  /\ \E i \in DOMAIN q.ints :
       LET m == RoundOf(q, i) IN
       \/ Leaves(m, p)
       \/ Recent(m) = {} /\ Finishes(m, p)
       \/ /\ p.pc = "commits" /\ SameRound(m, p)
          /\ p.batch = q.batch /\ p.polled = q.polled
       \/ \E commits \in {Recent(m), AfterDay(m)} :
            Batches(Without(m, commits), p, commits)

Made(q) == {c \in Seen(q.int) : pushed[c].made >= q.since}

Fetches(q, p) ==
  /\ q.pc = "commits"
  /\ \E commits \in {Made(q), {}} : Batches(Without(q, commits), p, commits)

Works(q, p) ==
  /\ SameRound(q, p) /\ p.batch = q.batch /\ p.polled = q.polled
  /\ \/ q.pc = "lastOrg" /\ p.pc = "find"
     \/ /\ q.pc \in {"find", "findAny"} /\ p.pc \in {"findAny", "org"}
        /\ p.commit \in q.batch
     \/ /\ q.pc \in {"find", "findAny"} /\ p.pc = "save" /\ p.commit \in q.batch
        /\ p.id \in DOMAIN logs
        /\ logs[p.id].acct = OwnerOf[q.int] /\ logs[p.id].day = DayOf(q, p.commit)
        /\ p.note = logs[p.id].note /\ p.commit \notin Range(p.note)
     \/ /\ q.pc = "org" /\ p.pc = "insert"
        /\ p.commit = q.commit /\ p.target \in Orgs

Takes(q, p) ==
  \/ /\ q.pc \in {"find", "findAny"}
     /\ \E c \in q.batch : GoesOn(q, p, c) /\ taken' = taken \cup {c}
  \/ /\ q.pc \in {"org", "insert", "save"}
     /\ GoesOn(q, p, q.commit) /\ taken' = taken \cup {q.commit}

JobMoves(q, p) ==
  /\ DOMAIN p = DOMAIN NoJob
  /\ \/ Takes(q, p)
     \/ /\ taken' = taken
        /\ \/ Begins(q, p) \/ Lists(q, p) \/ Asks(q, p) \/ Fetches(q, p)
           \/ Works(q, p)
           \/ q.pc \in {"insert", "save", "mark"} /\ Leaves(q, p)

(* What it writes.                                                         *)
CommitLog(q) ==
  LET day == DayOf(q, q.commit) IN
  Document(OwnerOf[q.int], q.target, day,
           <<[in |-> day * DaySeconds, out |-> None]>>, 0, FALSE, <<q.commit>>)

JobWrites(q) ==
  \/ logs' = logs /\ nextId' = nextId
  \/ /\ q.pc = "insert" /\ ~KeyTaken(OwnerOf[q.int], q.target, DayOf(q, q.commit))
     /\ logs' = Inserted(CommitLog(q)) /\ nextId' = nextId + 1
  \/ /\ q.pc = "save" /\ q.id \in DOMAIN logs /\ nextId' = nextId
     /\ logs' = [logs EXCEPT ![q.id].note = Append(q.note, q.commit)]

JobMarks(q) ==
  \/ integ' = integ /\ excused' = excused
  \/ /\ q.pc = "mark" /\ Linked(q.int)
     /\ integ' = [integ EXCEPT ![q.int].lastPolled = q.polled]
     /\ excused' = excused \cup Unseen(q)

JobsShape == DOMAIN job = Jobs /\ \A j \in Jobs : DOMAIN job[j] = DOMAIN NoJob

-----------------------------------------------------------------------------
(* The steps of the model are these moves.                                 *)

LEMMA LeavesShape ==
  ASSUME NEW q
  PROVE  /\ Leaves(q, NextIntegration(q))
         /\ DOMAIN NextIntegration(q) = DOMAIN NoJob
  BY DEF Leaves, NextIntegration, NoJob

LEMMA FinishesShape ==
  ASSUME NEW q, DOMAIN q = DOMAIN NoJob
  PROVE  Finishes(q, Appended(q)) /\ DOMAIN Appended(q) = DOMAIN NoJob
  BY DEF Finishes, Appended, NoJob, SameRound

LEMMA BatchesShape ==
  ASSUME NEW q, DOMAIN q = DOMAIN NoJob, NEW commits
  PROVE  /\ Batches(q, TakeBatch(q, commits), commits)
         /\ DOMAIN TakeBatch(q, commits) = DOMAIN NoJob
<1>1. CASE Clean(commits) = {}
  BY <1>1, FinishesShape DEF Batches, TakeBatch
<1>2. CASE Clean(commits) # {}
  BY <1>2 DEF Batches, TakeBatch, NoJob, SameRound
<1> QED
  BY <1>1, <1>2

LEMMA GoesOnShape ==
  ASSUME NEW q, DOMAIN q = DOMAIN NoJob, NEW c
  PROVE  GoesOn(q, NextCommit(q, c), c) /\ DOMAIN NextCommit(q, c) = DOMAIN NoJob
<1>1. CASE q.batch \ {c} = {}
  BY <1>1, FinishesShape DEF GoesOn, NextCommit
<1>2. CASE q.batch \ {c} # {}
  BY <1>2 DEF GoesOn, NextCommit, NoJob, SameRound
<1> QED
  BY <1>1, <1>2

(* A step of a job moves its own slot and leaves what is not its own.      *)
LEMMA JobFrame ==
  ASSUME JobsShape, NEW j \in Jobs, Start(j) \/ JobStep(j)
  PROVE  /\ UNCHANGED <<now, orgs, lastOrg, req, cron, pushed>>
         /\ DOMAIN job' = Jobs /\ \A k \in Jobs : k # j => job'[k] = job[k]
         /\ JobMarks(job[j])
<1>1. ASSUME NEW q, Move(j, q)
      PROVE  /\ UNCHANGED <<now, orgs, lastOrg, req, cron, pushed>>
             /\ DOMAIN job' = Jobs /\ \A k \in Jobs : k # j => job'[k] = job[k]
             /\ job'[j] = q
  BY <1>1 DEF Move, JobsShape
<1>2. \E q : Move(j, q)
  BY DEF Start, JobStep, StartPoll, StartSync, Deliver, ListIntegrations,
         AskProvider, FetchCommits, ReadLastOrg, FindPreferred, FindAny, FindOrg,
         InsertLog, SaveNote, Mark, UseLog, Take, Abort, Goto
<1>3. JobMarks(job[j])
  BY DEF Start, JobStep, StartPoll, StartSync, Deliver, ListIntegrations,
         AskProvider, FetchCommits, ReadLastOrg, FindPreferred, FindAny, FindOrg,
         InsertLog, SaveNote, Mark, UseLog, Take, Abort, Goto, JobMarks
<1> QED
  BY <1>1, <1>2, <1>3

LEMMA JobWritesOwn ==
  ASSUME NEW j \in Jobs, Start(j) \/ JobStep(j)
  PROVE  JobWrites(job[j])
  BY DEF Start, JobStep, StartPoll, StartSync, Deliver, ListIntegrations,
         AskProvider, FetchCommits, ReadLastOrg, FindPreferred, FindAny, FindOrg,
         InsertLog, SaveNote, Mark, UseLog, Abort, Goto, JobWrites, CommitLog

LEMMA MoveSlot ==
  ASSUME JobsShape, NEW j \in Jobs, NEW q, Move(j, q)
  PROVE  job'[j] = q
  BY DEF Move, JobsShape

LEMMA StartMoves ==
  ASSUME JobsShape, now \in Nat, NEW j \in Jobs, Start(j)
  PROVE  JobMoves(job[j], job'[j])
<1>1. CASE StartPoll(j)
  <2> DEFINE p == [NoJob EXCEPT !.pc = "list", !.start = now, !.since = now - DaySeconds]
  <2>1. job'[j] = p /\ taken' = taken
    BY <1>1, MoveSlot DEF StartPoll
  <2>2. now - DaySeconds \in Int
    BY DEF DaySeconds
  <2>3. Begins(job[j], p) /\ DOMAIN p = DOMAIN NoJob
    BY <1>1, <2>2 DEF StartPoll, Begins, NoJob
  <2> QED
    BY <2>1, <2>3 DEF JobMoves
<1>2. ASSUME NEW a \in Accounts, NEW days \in SyncDays, StartSync(j, a, days)
      PROVE  JobMoves(job[j], job'[j])
  <2> DEFINE p == [NoJob EXCEPT !.pc = "list", !.kind = "sync", !.acct = a,
                           !.start = now, !.since = now - days * DaySeconds]
  <2>1. job'[j] = p /\ taken' = taken
    BY <1>2, MoveSlot DEF StartSync, Goto
  <2>2. now - days * DaySeconds \in Int
    BY GitAssumption DEF DaySeconds
  <2>3. Begins(job[j], p) /\ DOMAIN p = DOMAIN NoJob
    BY <1>2, <2>2 DEF StartSync, Begins, NoJob
  <2> QED
    BY <2>1, <2>3 DEF JobMoves
<1>3. ASSUME NEW c \in Commits, Deliver(j, c)
      PROVE  JobMoves(job[j], job'[j])
  <2> DEFINE m == [NoJob EXCEPT !.kind = "hook", !.start = now, !.int = RepoOf[c]]
             p == TakeBatch(m, {c})
  <2>1. job'[j] = p /\ taken' = taken
    BY <1>3, MoveSlot DEF Deliver, Goto
  <2>2. /\ DOMAIN m = DOMAIN NoJob /\ m.kind = "hook" /\ m.start = now
        /\ m.int = RepoOf[c] /\ m.polled = 0 /\ m.ints = <<>>
        /\ m.asked = {} /\ m.left = {} /\ m.since = 0
    BY DEF NoJob
  <2> HIDE DEF m
  <2>3. Batches(m, p, {c}) /\ DOMAIN p = DOMAIN NoJob
    BY <2>2, BatchesShape
  <2>4. CASE c \in Merges
    <3>1. p = NoJob
      BY <2>2, <2>3, <2>4 DEF Batches, Finishes, Clean
    <3> QED
      BY <2>1, <3>1, <2>3, <1>3 DEF JobMoves, Begins, Deliver
  <2>5. CASE c \notin Merges
    <3>0. Clean({c}) = {c} /\ c \in DOMAIN pushed \ Merges /\ job[j].pc = "idle"
      BY <2>5, <1>3 DEF Clean, Deliver
    <3>2. /\ p.start = now /\ p.polled = 0 /\ p.ints = <<>> /\ p.asked = {}
          /\ p.left = {} /\ p.since = 0 /\ p.pc = "lastOrg" /\ p.kind = "hook"
          /\ p.int = RepoOf[c] /\ p.batch = {c}
      BY <3>0, <2>2, <2>3 DEF Batches, SameRound
    <3> HIDE DEF p
    <3>1. Begins(job[j], p)
      BY <3>0, <3>2 DEF Begins
    <3> QED
      BY <2>1, <3>1, <2>3 DEF JobMoves
  <2> QED
    BY <2>4, <2>5
<1> QED
  BY <1>1, <1>2, <1>3 DEF Start

LEMMA AskMoves ==
  ASSUME JobsShape, NEW j \in Jobs, NEW i \in DOMAIN job[j].ints, AskProvider(j, i)
  PROVE  JobMoves(job[j], job'[j])
<1> DEFINE q == job[j]
           m == RoundOf(q, i)
<1>1. /\ DOMAIN q = DOMAIN NoJob /\ q.pc = "next" /\ taken' = taken
      /\ \/ Move(j, NextIntegration(m))
         \/ Move(j, IF Recent(m) = {} THEN Appended(m) ELSE [m EXCEPT !.pc = "commits"])
         \/ \E commits \in {Recent(m), AfterDay(m)} :
              Move(j, TakeBatch(Without(m, commits), commits))
  BY DEF AskProvider, Goto, RoundOf, JobsShape
<1>2. /\ DOMAIN m = DOMAIN NoJob /\ m.batch = q.batch /\ m.polled = q.polled
  BY <1>1 DEF RoundOf, NoJob
<1>3. /\ DOMAIN [m EXCEPT !.pc = "commits"] = DOMAIN NoJob
      /\ [m EXCEPT !.pc = "commits"].pc = "commits"
      /\ SameRound(m, [m EXCEPT !.pc = "commits"])
      /\ [m EXCEPT !.pc = "commits"].batch = q.batch
      /\ [m EXCEPT !.pc = "commits"].polled = q.polled
  BY <1>2 DEF SameRound, NoJob
<1>4. DOMAIN job'[j] = DOMAIN NoJob /\ Asks(q, job'[j])
  <2>0. SUFFICES
          /\ DOMAIN job'[j] = DOMAIN NoJob
          /\ \/ Leaves(m, job'[j])
             \/ Recent(m) = {} /\ Finishes(m, job'[j])
             \/ /\ job'[j].pc = "commits" /\ SameRound(m, job'[j])
                /\ job'[j].batch = q.batch /\ job'[j].polled = q.polled
             \/ \E commits \in {Recent(m), AfterDay(m)} :
                  Batches(Without(m, commits), job'[j], commits)
    BY <1>1 DEF Asks
  <2> HIDE DEF m
  <2>1. CASE Move(j, NextIntegration(m))
    BY <2>1, MoveSlot, LeavesShape
  <2>2. CASE Move(j, IF Recent(m) = {} THEN Appended(m) ELSE [m EXCEPT !.pc = "commits"])
    <3>1. CASE Recent(m) = {}
      BY <2>2, <3>1, <1>2, MoveSlot, FinishesShape
    <3>2. CASE Recent(m) # {}
      BY <2>2, <3>2, <1>3, MoveSlot
    <3> QED
      BY <3>1, <3>2
  <2>3. ASSUME NEW commits \in {Recent(m), AfterDay(m)},
               Move(j, TakeBatch(Without(m, commits), commits))
        PROVE  DOMAIN job'[j] = DOMAIN NoJob /\ Batches(Without(m, commits), job'[j], commits)
    <3>1. DOMAIN Without(m, commits) = DOMAIN NoJob
      BY <1>2 DEF Without
    <3>2. job'[j] = TakeBatch(Without(m, commits), commits)
      BY <2>3, MoveSlot
    <3> QED
      BY <3>1, <3>2, BatchesShape
  <2> QED
    BY <1>1, <2>1, <2>2, <2>3
<1> QED
  BY <1>1, <1>4 DEF JobMoves

LEMMA TakeMoves ==
  ASSUME JobsShape, NEW j \in Jobs, NEW c, Take(j, job[j], c),
         \/ job[j].pc \in {"find", "findAny"} /\ c \in job[j].batch
         \/ job[j].pc \in {"org", "insert", "save"} /\ c = job[j].commit
  PROVE  JobMoves(job[j], job'[j])
  BY MoveSlot, GoesOnShape DEF Take, JobMoves, Takes, JobsShape

LEMMA UseMoves ==
  ASSUME JobsShape, NEW j \in Jobs, NEW c \in job[j].batch, NEW id \in DOMAIN logs,
         job[j].pc \in {"find", "findAny"}, UseLog(j, job[j], c, id),
         logs[id].acct = OwnerOf[job[j].int], logs[id].day = DayOf(job[j], c)
  PROVE  JobMoves(job[j], job'[j])
<1>1. CASE c \in Range(logs[id].note)
  BY <1>1, TakeMoves DEF UseLog
<1>2. CASE c \notin Range(logs[id].note)
  <2> DEFINE p == [job[j] EXCEPT !.pc = "save", !.commit = c, !.id = id,
                                 !.note = logs[id].note]
  <2>1. job'[j] = p /\ taken' = taken
    BY <1>2, MoveSlot DEF UseLog, Goto
  <2>2. /\ DOMAIN p = DOMAIN NoJob /\ SameRound(job[j], p) /\ p.pc = "save"
        /\ p.batch = job[j].batch /\ p.polled = job[j].polled
        /\ p.commit = c /\ p.id = id /\ p.note = logs[id].note
    BY DEF SameRound, NoJob, JobsShape
  <2> HIDE DEF p
  <2> QED
    BY <2>1, <2>2, <1>2 DEF JobMoves, Works
<1> QED
  BY <1>1, <1>2

LEMMA StepMoves ==
  ASSUME JobsShape, NEW j \in Jobs, JobStep(j)
  PROVE  JobMoves(job[j], job'[j])
<1> DEFINE q == job[j]
<1>0. DOMAIN q = DOMAIN NoJob
  BY DEF JobsShape
<1>1. CASE ListIntegrations(j)
  <2> DEFINE found == {i \in Integrations :
                  Linked(i) /\ (q.kind = "sync" => OwnerOf[i] = q.acct)}
             p == [q EXCEPT !.pc = "next",
                            !.ints = [i \in found |-> integ[i].lastPolled]]
  <2>1. /\ q.pc = "list" /\ taken' = taken
        /\ \/ job'[j] = NoJob
           \/ found # {} /\ job'[j] = p
    BY <1>1, MoveSlot DEF ListIntegrations, Goto
  <2>2. /\ DOMAIN p = DOMAIN NoJob /\ p.pc = "next" /\ p.kind = q.kind
        /\ p.start = q.start /\ p.since = q.since /\ p.batch = q.batch
        /\ p.polled = q.polled /\ p.ints = [i \in found |-> integ[i].lastPolled]
        /\ p.asked = q.asked /\ p.left = q.left
    BY <1>0 DEF NoJob
  <2>3. found \subseteq Integrations
    OBVIOUS
  <2> HIDE DEF found, p
  <2>4. DOMAIN job'[j] = DOMAIN NoJob /\ Lists(q, job'[j])
    BY <2>1, <2>2, <2>3 DEF Lists
  <2> QED
    BY <2>1, <2>4 DEF JobMoves
<1>2. ASSUME NEW i \in DOMAIN q.ints, AskProvider(j, i)
      PROVE  JobMoves(q, job'[j])
  BY <1>2, AskMoves
<1>3. CASE FetchCommits(j)
  <2>1. PICK commits \in {Made(q), {}} : Goto(j, TakeBatch(Without(q, commits), commits))
    BY <1>3 DEF FetchCommits, Made
  <2>2. /\ DOMAIN Without(q, commits) = DOMAIN NoJob
        /\ job'[j] = TakeBatch(Without(q, commits), commits)
    BY <1>0, <2>1, MoveSlot DEF Goto, Without
  <2>3. /\ Batches(Without(q, commits), job'[j], commits)
        /\ DOMAIN job'[j] = DOMAIN NoJob
    BY <2>2, BatchesShape
  <2>4. Fetches(q, job'[j])
    BY <1>3, <2>3 DEF Fetches, FetchCommits
  <2> QED
    BY <2>1, <2>3, <2>4 DEF JobMoves, Goto
<1>4. CASE ReadLastOrg(j)
  <2> DEFINE p == [q EXCEPT !.pc = "find", !.org = lastOrg[OwnerOf[q.int]]]
  <2>1. q.pc = "lastOrg" /\ job'[j] = p /\ taken' = taken
    BY <1>4, MoveSlot DEF ReadLastOrg, Goto
  <2>2. /\ DOMAIN p = DOMAIN NoJob /\ SameRound(q, p) /\ p.pc = "find"
        /\ p.batch = q.batch /\ p.polled = q.polled
    BY <1>0 DEF NoJob, SameRound
  <2> HIDE DEF p
  <2> QED
    BY <2>1, <2>2 DEF JobMoves, Works
<1>5. ASSUME NEW c \in q.batch, NEW pc \in {"findAny", "org"},
             q.pc \in {"find", "findAny"}, Goto(j, [q EXCEPT !.pc = pc, !.commit = c])
      PROVE  JobMoves(q, job'[j])
  <2> DEFINE p == [q EXCEPT !.pc = pc, !.commit = c]
  <2>1. job'[j] = p /\ taken' = taken
    BY <1>5, MoveSlot DEF Goto
  <2>2. /\ DOMAIN p = DOMAIN NoJob /\ SameRound(q, p) /\ p.pc = pc
        /\ p.batch = q.batch /\ p.polled = q.polled /\ p.commit = c
    BY <1>0 DEF NoJob, SameRound
  <2> HIDE DEF p
  <2> QED
    BY <1>5, <2>1, <2>2 DEF JobMoves, Works
<1>6. ASSUME NEW c \in q.batch, FindPreferred(j, c)
      PROVE  JobMoves(q, job'[j])
  BY <1>5, <1>6, UseMoves DEF FindPreferred, LogsOf
<1>7. ASSUME NEW c \in q.batch, FindAny(j, c)
      PROVE  JobMoves(q, job'[j])
  BY <1>5, <1>7, UseMoves DEF FindAny, LogsOf
<1>8. CASE FindOrg(j)
  <2>1. CASE Take(j, q, q.commit)
    BY <1>8, <2>1, TakeMoves DEF FindOrg
  <2>2. ASSUME NEW o \in Orgs, Goto(j, [q EXCEPT !.pc = "insert", !.target = o])
        PROVE  JobMoves(q, job'[j])
    <3> DEFINE p == [q EXCEPT !.pc = "insert", !.target = o]
    <3>1. job'[j] = p /\ taken' = taken /\ q.pc = "org"
      BY <1>8, <2>2, MoveSlot DEF Goto, FindOrg
    <3>2. /\ DOMAIN p = DOMAIN NoJob /\ SameRound(q, p) /\ p.pc = "insert"
          /\ p.batch = q.batch /\ p.polled = q.polled /\ p.commit = q.commit
          /\ p.target = o
      BY <1>0 DEF NoJob, SameRound
    <3> HIDE DEF p
    <3> QED
      BY <3>1, <3>2 DEF JobMoves, Works
  <2> QED
    BY <1>8, <2>1, <2>2 DEF FindOrg
<1>9. ASSUME q.pc \in {"insert", "save"}, Abort(j)
      PROVE  JobMoves(q, job'[j])
  BY <1>9, MoveSlot, LeavesShape DEF Abort, Goto, JobMoves
<1>10. CASE InsertLog(j)
  BY <1>9, <1>10, TakeMoves DEF InsertLog
<1>11. CASE SaveNote(j)
  BY <1>9, <1>11, TakeMoves DEF SaveNote
<1>12. CASE Mark(j)
  BY <1>12, MoveSlot, LeavesShape DEF Mark, JobMoves
<1> QED
  BY <1>1, <1>2, <1>3, <1>4, <1>6, <1>7, <1>8, <1>10, <1>11, <1>12 DEF JobStep

LEMMA JobsMove ==
  ASSUME JobsShape, now \in Nat, NEW j \in Jobs, Start(j) \/ JobStep(j)
  PROVE  JobMoves(job[j], job'[j])
  BY StartMoves, StepMoves

-----------------------------------------------------------------------------
(* Types.  known: the commits a job may hold, t: the time, n: the next id. *)

JobTyped(q, known, t, n) ==
  /\ DOMAIN q = DOMAIN NoJob
  /\ q.kind \in {"poll", "sync", "hook"}
  /\ q.pc \in {"idle", "list", "next", "commits", "mark"} \cup Appending
  /\ DOMAIN q.ints \subseteq Integrations
  /\ q.pc = "next" => DOMAIN q.ints # {}
  /\ q.pc \in {"commits", "mark"} \cup Appending => q.int \in Integrations
  /\ q.batch \subseteq known
  /\ q.pc \in Appending => q.batch # {}
  /\ q.pc \in {"findAny", "org", "insert", "save"} => q.commit \in q.batch
  /\ q.pc = "insert" => q.target \in Orgs
  /\ q.pc = "save" => q.id \in 1 .. n - 1
  /\ q.polled \in Nat /\ q.start \in Nat /\ q.start <= t
  /\ q.asked \subseteq Commits /\ q.left \subseteq Commits

IntegOK ==
  integ \in [Integrations -> [state : {"new", "linked", "deleted"},
                              provider : Providers,
                              lastPolled : Nat \cup {None}]]

PushedOK ==
  /\ DOMAIN pushed \subseteq Commits
  /\ \A c \in DOMAIN pushed :
       pushed[c].made \in Nat /\ pushed[c].pushed \in Nat /\ pushed[c].pushed <= now

Known == DOMAIN pushed \ Merges

JobsOK ==
  DOMAIN job = Jobs /\ \A j \in Jobs : JobTyped(job[j], Known, now, nextId)

GitOK ==
  /\ StateOK /\ IntegOK /\ PushedOK /\ JobsOK
  /\ taken \subseteq Known /\ excused \subseteq Commits

LEMMA NoJobTyped ==
  ASSUME NEW known, NEW t \in Nat, NEW n
  PROVE  JobTyped(NoJob, known, t, n)
  BY DEF JobTyped, NoJob, Appending

LEMMA MoreIds ==
  ASSUME NEW n \in Nat, NEW m \in Nat, n <= m
  PROVE  1 .. n - 1 \subseteq 1 .. m - 1
  OBVIOUS

LEMMA StaysTyped ==
  ASSUME NEW q, NEW k, NEW l, NEW t \in Nat, NEW u \in Nat, NEW n \in Nat, NEW m \in Nat,
         k \subseteq l, t <= u, n <= m, JobTyped(q, k, t, n)
  PROVE  JobTyped(q, l, u, m)
<1>1. 1 .. n - 1 \subseteq 1 .. m - 1
  BY MoreIds
<1>2. q.start <= u
  BY DEF JobTyped
<1> QED
  BY <1>1, <1>2 DEF JobTyped

LEMMA GitShape == GitOK => JobsShape /\ now \in Nat
  BY DEF GitOK, JobsOK, JobTyped, JobsShape, StateOK

LEMMA LeavesTyped ==
  ASSUME NEW q, NEW p, NEW k, NEW t \in Nat, NEW n, Leaves(q, p),
         DOMAIN p = DOMAIN NoJob, DOMAIN q.ints \subseteq Integrations,
         q.kind \in {"poll", "sync", "hook"}, q.start \in Nat, q.start <= t
  PROVE  JobTyped(p, k, t, n)
<1>1. CASE p = NoJob
  BY <1>1, NoJobTyped
<1>2. CASE p # NoJob
  BY <1>2 DEF Leaves, JobTyped, Appending
<1> QED
  BY <1>1, <1>2

LEMMA FinishesTyped ==
  ASSUME StateOK, NEW q, NEW p, NEW k, NEW n, Finishes(q, p),
         DOMAIN p = DOMAIN NoJob, DOMAIN q.ints \subseteq Integrations,
         q.int \in Integrations, q.asked \subseteq Commits, q.left \subseteq Commits,
         q.kind \in {"poll", "sync", "hook"}, q.start \in Nat, q.start <= now
  PROVE  JobTyped(p, k, now, n)
<1>0. now \in Nat
  BY DEF StateOK
<1>1. CASE p = NoJob
  BY <1>0, <1>1, NoJobTyped
<1>2. CASE p # NoJob
  BY <1>0, <1>2 DEF Finishes, JobTyped, Appending, SameRound
<1> QED
  BY <1>1, <1>2

LEMMA BatchesTyped ==
  ASSUME StateOK, NEW q, NEW p, NEW n, NEW commits, Batches(q, p, commits),
         commits \subseteq DOMAIN pushed,
         DOMAIN p = DOMAIN NoJob, DOMAIN q.ints \subseteq Integrations,
         q.int \in Integrations, q.polled \in Nat,
         q.asked \subseteq Commits, q.left \subseteq Commits,
         q.kind \in {"poll", "sync", "hook"}, q.start \in Nat, q.start <= now
  PROVE  JobTyped(p, Known, now, n)
<1>1. CASE Finishes(q, p)
  BY <1>1, FinishesTyped
<1>2. CASE ~Finishes(q, p)
  BY <1>2 DEF Batches, JobTyped, Appending, SameRound, Clean, Known
<1> QED
  BY <1>1, <1>2

LEMMA GoesOnTyped ==
  ASSUME GitOK, NEW j \in Jobs, NEW p, NEW c, GoesOn(job[j], p, c),
         job[j].pc \in Appending, DOMAIN p = DOMAIN NoJob
  PROVE  JobTyped(p, Known, now, nextId)
<1>0. JobTyped(job[j], Known, now, nextId) /\ StateOK
  BY DEF GitOK, JobsOK
<1>1. CASE Finishes(job[j], p)
  BY <1>0, <1>1, FinishesTyped DEF JobTyped
<1>2. CASE ~Finishes(job[j], p)
  BY <1>0, <1>2 DEF GoesOn, JobTyped, Appending, SameRound
<1> QED
  BY <1>1, <1>2

LEMMA WithoutTyped ==
  ASSUME GitOK, NEW q, DOMAIN q = DOMAIN NoJob, q.left \subseteq Commits, NEW commits
  PROVE  LET w == Without(q, commits) IN
         /\ w.batch = q.batch /\ w.polled = q.polled
         /\ w.left = q.left \cup (Recent(q) \ commits)
         /\ w.kind = q.kind /\ w.start = q.start /\ w.since = q.since
         /\ w.ints = q.ints /\ w.int = q.int /\ w.asked = q.asked
         /\ w.left \subseteq Commits
<1>1. Recent(q) \subseteq Commits
  BY DEF Recent, Seen, GitOK, PushedOK
<1> QED
  BY <1>1 DEF Without, NoJob

LEMMA RoundTyped ==
  ASSUME GitOK, NEW q, DOMAIN q = DOMAIN NoJob, NEW i
  PROVE  LET m == RoundOf(q, i) IN
         /\ DOMAIN m = DOMAIN NoJob
         /\ m.kind = q.kind /\ m.start = q.start /\ m.ints = q.ints /\ m.int = i
         /\ m.polled = q.polled /\ m.batch = q.batch /\ m.since = SinceOf(q, i)
         /\ m.asked = Seen(i)
         /\ m.left = {c \in Seen(i) :
                        \/ pushed[c].pushed = m.since
                        \/ /\ pushed[c].pushed < m.since
                           /\ q.kind = "sync" \/ q.ints[i] = None}
         /\ m.asked \subseteq Commits /\ m.left \subseteq Commits
<1>1. Seen(i) \subseteq Commits
  BY DEF Seen, GitOK, PushedOK
<1> QED
  BY <1>1 DEF RoundOf, OutOfReach, NoJob

LEMMA AsksTyped ==
  ASSUME GitOK, NEW j \in Jobs, NEW p, Asks(job[j], p), DOMAIN p = DOMAIN NoJob
  PROVE  JobTyped(p, Known, now, nextId)
<1> DEFINE q == job[j]
<1>0. JobTyped(q, Known, now, nextId) /\ StateOK /\ now \in Nat /\ q.pc = "next"
  BY DEF GitOK, JobsOK, StateOK, Asks
<1>1. PICK i \in DOMAIN q.ints :
        LET m == RoundOf(q, i) IN
        \/ Leaves(m, p)
        \/ Recent(m) = {} /\ Finishes(m, p)
        \/ /\ p.pc = "commits" /\ SameRound(m, p)
           /\ p.batch = q.batch /\ p.polled = q.polled
        \/ \E commits \in {Recent(m), AfterDay(m)} :
             Batches(Without(m, commits), p, commits)
  BY DEF Asks
<1> DEFINE m == RoundOf(q, i)
<1>2. /\ DOMAIN m = DOMAIN NoJob
      /\ m.kind = q.kind /\ m.start = q.start /\ m.ints = q.ints /\ m.int = i
      /\ m.polled = q.polled /\ m.asked \subseteq Commits /\ m.left \subseteq Commits
  BY <1>0, RoundTyped DEF JobTyped
<1>3. /\ DOMAIN m.ints \subseteq Integrations /\ m.int \in Integrations
      /\ m.kind \in {"poll", "sync", "hook"} /\ m.start \in Nat /\ m.start <= now
      /\ m.polled \in Nat
  BY <1>0, <1>1, <1>2 DEF JobTyped
<1>5. \/ Leaves(m, p) \/ Finishes(m, p)
      \/ /\ p.pc = "commits" /\ SameRound(m, p)
         /\ p.batch = q.batch /\ p.polled = q.polled
      \/ \E commits \in {Recent(m), AfterDay(m)} :
           Batches(Without(m, commits), p, commits)
  BY <1>1
<1> HIDE DEF m
<1>6. CASE Leaves(m, p)
  BY <1>0, <1>3, <1>6, LeavesTyped
<1>7. CASE Finishes(m, p)
  BY <1>0, <1>2, <1>3, <1>7, FinishesTyped
<1>8. ASSUME NEW commits \in {Recent(m), AfterDay(m)},
             Batches(Without(m, commits), p, commits)
      PROVE  JobTyped(p, Known, now, nextId)
  <2>1. commits \subseteq DOMAIN pushed
    BY DEF Recent, AfterDay, Seen
  <2> DEFINE w == Without(m, commits)
  <2>2. /\ w.polled = m.polled /\ w.kind = m.kind /\ w.start = m.start
        /\ w.ints = m.ints /\ w.int = m.int /\ w.asked = m.asked
        /\ w.left \subseteq Commits
    BY <1>2, WithoutTyped
  <2> HIDE DEF w
  <2>3. Batches(w, p, commits)
    BY <1>8 DEF w
  <2> QED
    BY <1>0, <1>2, <1>3, <2>1, <2>2, <2>3, BatchesTyped
<1>9. CASE /\ p.pc = "commits" /\ SameRound(m, p)
           /\ p.batch = q.batch /\ p.polled = q.polled
  BY <1>0, <1>2, <1>3, <1>9 DEF JobTyped, Appending, SameRound
<1> QED
  BY <1>5, <1>6, <1>7, <1>8, <1>9

LEMMA MovesTyped ==
  ASSUME GitOK, NEW j \in Jobs, NEW p, JobMoves(job[j], p)
  PROVE  JobTyped(p, Known, now, nextId)
<1> DEFINE q == job[j]
<1>0. /\ JobTyped(q, Known, now, nextId) /\ StateOK /\ now \in Nat /\ nextId \in Nat
      /\ DOMAIN p = DOMAIN NoJob
  BY DEF GitOK, JobsOK, StateOK, JobMoves
<1>1. CASE Takes(q, p)
  BY <1>0, <1>1, GoesOnTyped DEF Takes, Appending
<1>2. CASE Begins(q, p)
  <2>1. CASE p = NoJob
    BY <1>0, <2>1, NoJobTyped
  <2>2. CASE p # NoJob /\ p.pc = "list"
    BY <1>0, <1>2, <2>2 DEF Begins, JobTyped, Appending
  <2>3. CASE p # NoJob /\ p.pc # "list"
    <3>1. PICK c \in Known : p.int = RepoOf[c] /\ p.batch = {c}
      BY <1>2, <2>3 DEF Begins, Known
    <3>2. p.int \in Integrations
      BY <3>1, GitAssumption DEF GitOK, PushedOK, Known
    <3>3. /\ p.pc = "lastOrg" /\ p.kind = "hook" /\ p.start = now /\ p.polled = 0
          /\ p.ints = <<>> /\ p.asked = {} /\ p.left = {}
      BY <1>2, <2>3 DEF Begins
    <3> QED
      BY <1>0, <3>1, <3>2, <3>3 DEF JobTyped, Appending
  <2> QED
    BY <2>1, <2>2, <2>3
<1>3. CASE Lists(q, p)
  <2>1. CASE p = NoJob
    BY <1>0, <2>1, NoJobTyped
  <2>2. CASE p # NoJob
    BY <1>0, <1>3, <2>2 DEF Lists, JobTyped, Appending
  <2> QED
    BY <2>1, <2>2
<1>4. CASE Asks(q, p)
  BY <1>0, <1>4, AsksTyped
<1>5. CASE Fetches(q, p)
  <2>1. PICK commits \in {Made(q), {}} : Batches(Without(q, commits), p, commits)
    BY <1>5 DEF Fetches
  <2>2. commits \subseteq DOMAIN pushed
    BY DEF Made, Seen
  <2>3. q.int \in Integrations
    BY <1>0, <1>5 DEF Fetches, JobTyped
  <2>4. /\ DOMAIN q.ints \subseteq Integrations /\ q.polled \in Nat
        /\ q.kind \in {"poll", "sync", "hook"} /\ q.start \in Nat /\ q.start <= now
        /\ q.asked \subseteq Commits
    BY <1>0 DEF JobTyped
  <2> DEFINE w == Without(q, commits)
  <2>5. /\ w.polled = q.polled /\ w.kind = q.kind /\ w.start = q.start
        /\ w.ints = q.ints /\ w.int = q.int /\ w.asked = q.asked
        /\ w.left \subseteq Commits
    BY <1>0, WithoutTyped DEF JobTyped
  <2> HIDE DEF w
  <2>6. Batches(w, p, commits)
    BY <2>1 DEF w
  <2> QED
    BY <1>0, <2>2, <2>3, <2>4, <2>5, <2>6, BatchesTyped
<1>6. CASE Works(q, p)
  BY <1>0, <1>6 DEF Works, SameRound, JobTyped, Appending, GitOK, StateOK, LogsOK, Ids
<1>7. CASE q.pc \in {"insert", "save", "mark"} /\ Leaves(q, p)
  BY <1>0, <1>7, LeavesTyped DEF JobTyped
<1> QED
  BY <1>1, <1>2, <1>3, <1>4, <1>5, <1>6, <1>7 DEF JobMoves

LEMMA MarksTyped ==
  ASSUME GitOK, NEW j \in Jobs, JobMarks(job[j])
  PROVE  IntegOK' /\ excused' \subseteq Commits
<1> DEFINE q == job[j]
<1>0. IntegOK /\ excused \subseteq Commits /\ q.polled \in Nat
  BY DEF GitOK, JobsOK, JobTyped
<1>1. CASE integ' = integ /\ excused' = excused
  BY <1>0, <1>1 DEF IntegOK
<1>2. CASE /\ integ' = [integ EXCEPT ![q.int].lastPolled = q.polled]
           /\ excused' = excused \cup Unseen(q)
  <2>1. Unseen(q) \subseteq Commits
    BY DEF Unseen, Seen, GitOK, PushedOK
  <2> QED
    BY <1>0, <1>2, <2>1 DEF IntegOK
<1> QED
  BY <1>1, <1>2 DEF JobMarks

(* The collection stays well formed: a log that is inserted for a commit   *)
(* is one.                                                                 *)
LEMMA CommitLogOK ==
  ASSUME GitOK, NEW j \in Jobs, job[j].pc = "insert"
  PROVE  LogOK(CommitLog(job[j])) /\ CommitLog(job[j]).note = <<job[j].commit>>
<1> DEFINE q == job[j]
           day == DayOf(q, q.commit)
           items == <<[in |-> day * DaySeconds, out |-> None]>>
<1>1. JobTyped(q, Known, now, nextId) /\ PushedOK
  BY DEF GitOK, JobsOK
<1>2. OwnerOf[q.int] \in Accounts /\ q.target \in Orgs
  BY <1>1, GitAssumption DEF JobTyped, Appending
<1>3. q.commit \in DOMAIN pushed
  BY <1>1 DEF JobTyped, Known
<1>4. \A t \in Nat : t \div 86400 \in Nat
  OBVIOUS
<1>5. day \in Nat
  BY <1>1, <1>3, <1>4 DEF DayOf, Day, DaySeconds, PushedOK
<1>6. items \in Seq(Session)
  <2>1. day * DaySeconds \in Nat
    BY <1>5 DEF DaySeconds
  <2> HIDE DEF day
  <2> QED
    BY <2>1 DEF Session
<1>7. CommitLog(q) = Document(OwnerOf[q.int], q.target, day, items, 0, FALSE, <<q.commit>>)
  BY DEF CommitLog
<1> HIDE DEF day, items
<1> QED
  BY <1>2, <1>5, <1>6, <1>7 DEF LogOK, Document, LogFields

LEMMA JobState ==
  ASSUME GitOK, NEW j \in Jobs, JobWrites(job[j]),
         UNCHANGED <<now, orgs, lastOrg, req, cron>>
  PROVE  StateOK' /\ nextId' \in Nat /\ nextId <= nextId'
<1> DEFINE q == job[j]
<1>0. /\ StateOK /\ nextId \in Nat \ {0} /\ LogsOK
  BY DEF GitOK, StateOK
<1>1. LogsOK' /\ nextId' \in Nat \ {0} /\ nextId <= nextId'
  <2>1. CASE logs' = logs /\ nextId' = nextId
    BY <1>0, <2>1 DEF LogsOK, Ids
  <2>2. CASE q.pc = "insert" /\ logs' = Inserted(CommitLog(q)) /\ nextId' = nextId + 1
    <3>1. DOMAIN logs' \subseteq 1 .. nextId' - 1
      BY <1>0, <2>2 DEF LogsOK, Ids, Inserted
    <3>2. LogOK(CommitLog(q))
      BY <2>2, CommitLogOK
    <3>3. \A id \in DOMAIN logs' : LogOK(logs'[id])
      BY <1>0, <2>2, <3>2 DEF LogsOK, Inserted
    <3> QED
      BY <1>0, <2>2, <3>1, <3>3 DEF LogsOK, Ids
  <2>3. CASE /\ q.id \in DOMAIN logs /\ nextId' = nextId
             /\ logs' = [logs EXCEPT ![q.id].note = Append(q.note, q.commit)]
    <3>1. DOMAIN logs' = DOMAIN logs
      BY <2>3
    <3>2. \A id \in DOMAIN logs' : LogOK(logs'[id])
      BY <1>0, <2>3 DEF LogsOK, LogOK, LogFields
    <3>3. DOMAIN logs' \subseteq 1 .. nextId' - 1
      BY <1>0, <2>3, <3>1 DEF LogsOK, Ids
    <3>4. nextId' \in Nat \ {0} /\ nextId <= nextId'
      BY <1>0, <2>3
    <3> QED
      BY <3>2, <3>3, <3>4 DEF LogsOK, Ids
  <2>4. \/ logs' = logs /\ nextId' = nextId
        \/ q.pc = "insert" /\ logs' = Inserted(CommitLog(q)) /\ nextId' = nextId + 1
        \/ /\ q.id \in DOMAIN logs /\ nextId' = nextId
           /\ logs' = [logs EXCEPT ![q.id].note = Append(q.note, q.commit)]
    BY Zenon DEF JobWrites
  <2> QED
    BY <2>1, <2>2, <2>3, <2>4
<1>2. nextId \in Nat /\ nextId' \in Nat /\ nextId <= nextId'
  BY <1>0, <1>1
<1>3. Ids \subseteq Ids'
  BY ONLY <1>2, MoreIds DEF Ids
<1>4. ReqsOK'
  BY <1>0, <1>3 DEF StateOK, ReqsOK
<1>5. CronOK'
  BY <1>0, <1>3 DEF StateOK, CronOK
<1>6. OrgsOK' /\ now' \in Nat
  BY <1>0 DEF StateOK, OrgsOK
<1> QED
  BY <1>1, <1>4, <1>5, <1>6 DEF StateOK

LEMMA JobTypes ==
  ASSUME GitOK, NEW j \in Jobs, Start(j) \/ JobStep(j)
  PROVE  GitOK'
<1> DEFINE q == job[j]
<1>0. JobsShape /\ StateOK /\ nextId \in Nat /\ now \in Nat
  BY GitShape DEF GitOK, StateOK
<1>1. /\ UNCHANGED <<now, orgs, lastOrg, req, cron, pushed>>
      /\ DOMAIN job' = Jobs /\ \A k \in Jobs : k # j => job'[k] = job[k]
      /\ JobMarks(q)
  BY <1>0, JobFrame
<1>2. JobMoves(q, job'[j])
  BY <1>0, JobsMove
<1>3. StateOK' /\ nextId' \in Nat /\ nextId <= nextId'
  BY <1>1, JobState, JobWritesOwn
<1>4. PushedOK' /\ Known' = Known
  BY <1>1 DEF GitOK, PushedOK, Known
<1>5. ASSUME NEW k \in Jobs
      PROVE  JobTyped(job'[k], Known', now', nextId')
  <2>1. JobTyped(job'[k], Known, now, nextId)
    BY <1>1, <1>2, MovesTyped DEF GitOK, JobsOK
  <2> QED
    BY <2>1, <1>0, <1>1, <1>3, <1>4, StaysTyped
<1>6. JobTyped(q, Known, now, nextId)
  BY DEF GitOK, JobsOK
<1>7. taken' \subseteq Known'
  <2>1. q.batch \subseteq Known
    BY <1>6 DEF JobTyped
  <2>2. q.pc \in {"org", "insert", "save"} => q.commit \in Known
    <3>1. CASE q.pc = "org"
      BY <1>6, <2>1, <3>1 DEF JobTyped
    <3>2. CASE q.pc \in {"insert", "save"}
      BY <1>6, <2>1, <3>2 DEF JobTyped
    <3> QED
      BY <3>1, <3>2
  <2> QED
    BY <1>2, <1>4, <2>1, <2>2 DEF JobMoves, Takes, GitOK
<1>8. IntegOK' /\ excused' \subseteq Commits
  BY <1>1, MarksTyped
<1> QED
  BY <1>1, <1>3, <1>4, <1>5, <1>7, <1>8 DEF GitOK, JobsOK

LEMMA PushTypes ==
  ASSUME GitOK, NEW c \in Commits, Push(c)
  PROVE  GitOK'
<1>1. PICK t \in Instants :
        /\ t <= now
        /\ pushed' = [x \in DOMAIN pushed \cup {c} |->
                        IF x = c THEN [made |-> t, pushed |-> now] ELSE pushed[x]]
  BY DEF Push
<1>2. UNCHANGED <<vars, integ, timer, job, taken, excused>>
  BY DEF Push
<1>3. StateOK' /\ IntegOK'
  BY <1>2, StutterType DEF GitOK, IntegOK
<1>4. PushedOK'
  BY <1>1, <1>2, WorkLogAssumption DEF GitOK, PushedOK, StateOK, vars
<1>5. Known \subseteq Known'
  BY <1>1 DEF Known
<1>6. JobsOK'
  BY <1>2, <1>5, StaysTyped DEF GitOK, JobsOK, StateOK, vars
<1> QED
  BY <1>2, <1>3, <1>4, <1>5, <1>6 DEF GitOK

LEMMA LinkTypes ==
  ASSUME GitOK, NEW i \in Integrations, Link(i) \/ Unlink(i)
  PROVE  GitOK'
<1>1. UNCHANGED <<vars, pushed, timer, job, taken, excused>>
  BY DEF Link, Unlink
<1>2. IntegOK'
  BY DEF Link, Unlink, GitOK, IntegOK
<1>3. StateOK'
  BY <1>1, StutterType DEF GitOK
<1>4. PushedOK' /\ Known' = Known /\ JobsOK'
  BY <1>1 DEF GitOK, PushedOK, Known, JobsOK, vars
<1> QED
  BY <1>1, <1>2, <1>3, <1>4 DEF GitOK

LEMMA NextIdMoves ==
  ASSUME StateOK, [Next]_vars
  PROVE  nextId' \in Nat /\ nextId <= nextId'
<1>1. ASSUME NEW r \in Reqs, CallStep(r) PROVE nextId' = nextId
  BY <1>1 DEF CallStep, CallCheckIn, CallCheckOut, CallCreate, CallRemove,
              CallUpdate, Arrive
<1>2. ASSUME NEW r \in Reqs, HandlerStep(r) PROVE nextId' \in {nextId, nextId + 1}
  BY <1>2 DEF HandlerStep, CheckInFindLog, CheckOutFindLog, CreateReadOrg,
     CreateFindExisting, CreateInsert, SetLastOrganization, UpdateFindLog,
     UpdateReadOrg, UpdateWrite, RemoveFindLog, RemoveDelete
<1>3. CronStep \/ OrgStep \/ Tick \/ UNCHANGED vars => nextId' = nextId
  BY DEF CronStep, CronFind, CronReadOrg, CronSave, OrgStep, SetSchedule,
     AddMember, RemoveMember, RemoveOrg, ChangeOrg, Tick, vars
<1>4. nextId' \in {nextId, nextId + 1}
  BY <1>1, <1>2, <1>3 DEF Next
<1> QED
  BY <1>4 DEF StateOK

LEMMA BesideTypes ==
  ASSUME GitOK, [Next]_vars, UNCHANGED gitVars
  PROVE  GitOK'
<1>1. StateOK' /\ nextId' \in Nat /\ nextId <= nextId' /\ now \in Nat /\ nextId \in Nat
  BY StateStep, NextIdMoves DEF GitOK, StateOK
<1>2. now' \in Nat /\ now <= now'
  BY <1>1, NowMoves DEF GitOK
<1>3. IntegOK' /\ Known' = Known /\ taken' \subseteq Known' /\ excused' \subseteq Commits
  BY DEF GitOK, gitVars, IntegOK, Known
<1>4. PushedOK'
  BY <1>1, <1>2 DEF GitOK, gitVars, PushedOK
<1>5. JobsOK'
  BY <1>1, <1>2, <1>3, StaysTyped DEF GitOK, gitVars, JobsOK
<1> QED
  BY <1>1, <1>3, <1>4, <1>5 DEF GitOK

LEMMA GitStep == GitOK /\ [GitNext]_allVars => GitOK'
<1> SUFFICES ASSUME GitOK, [GitNext]_allVars PROVE GitOK'
  OBVIOUS
<1>1. CASE [Next]_vars /\ UNCHANGED gitVars
  BY <1>1, BesideTypes
<1>2. ASSUME NEW j \in Jobs, Start(j) \/ JobStep(j) PROVE GitOK'
  BY <1>2, JobTypes
<1>3. ASSUME NEW c \in Commits, Push(c) PROVE GitOK'
  BY <1>3, PushTypes
<1>4. ASSUME NEW i \in Integrations, Link(i) \/ Unlink(i) PROVE GitOK'
  BY <1>4, LinkTypes
<1> QED
  BY <1>1, <1>2, <1>3, <1>4 DEF GitNext, allVars

LEMMA GitStart == GitInit => GitOK
<1> SUFFICES ASSUME GitInit PROVE GitOK
  OBVIOUS
<1>1. StateOK
  BY StateInit DEF GitInit
<1>2. PushedOK /\ taken \subseteq Known /\ excused \subseteq Commits
  BY DEF GitInit, PushedOK, Known
<1>3. JobsOK
  BY <1>1, NoJobTyped DEF GitInit, JobsOK, StateOK
<1>4. IntegOK
  BY DEF GitInit, IntegOK
<1> QED
  BY <1>1, <1>2, <1>3, <1>4 DEF GitOK

(* Whatever polls, syncs, webhooks, handlers and unlinkings run together,  *)
(* the integrations and the jobs keep their shape: no job reads a field it *)
(* has not set, comes to the end of its commits inside the loop over them, *)
(* or works on a commit that was filtered out.                             *)
THEOREM JobsCorrect == GitSpec => []GitTypeOK
<1>1. GitOK => GitTypeOK
  <2> SUFFICES ASSUME GitOK PROVE GitTypeOK
    OBVIOUS
  <2>1. ASSUME NEW j \in Jobs PROVE JobOK(job[j])
    <3>1. JobTyped(job[j], Known, now, nextId)
      BY DEF GitOK, JobsOK
    <3> QED
      BY <3>1 DEF JobOK, JobTyped, Appending, Known, Ids
  <2> QED
    BY <2>1 DEF GitOK, GitTypeOK, IntegOK, PushedOK, Known
<1> QED
  BY <1>1, GitStart, GitStep, PTL DEF GitSpec

-----------------------------------------------------------------------------
(* A job writes its commit into one log and leaves the others alone.       *)

LEMMA JobLogs ==
  ASSUME GitOK, NEW j \in Jobs, JobWrites(job[j]), NEW id \in DOMAIN logs'
  PROVE  \/ id \in DOMAIN logs /\ logs'[id] = logs[id]
         \/ /\ job[j].pc = "insert" /\ id = nextId /\ logs'[id] = CommitLog(job[j])
         \/ /\ job[j].pc = "save" /\ id = job[j].id /\ id \in DOMAIN logs
            /\ SameKey(logs'[id], logs[id]) /\ logs'[id].items = logs[id].items
            /\ logs'[id].hours = logs[id].hours /\ logs'[id].skip = logs[id].skip
            /\ logs'[id].note = Append(job[j].note, job[j].commit)
<1> DEFINE q == job[j]
<1>1. CASE logs' = logs
  BY <1>1
<1>2. CASE q.pc = "insert" /\ logs' = Inserted(CommitLog(q))
  BY <1>2 DEF Inserted
<1>3. CASE /\ q.pc = "save" /\ q.id \in DOMAIN logs
           /\ logs' = [logs EXCEPT ![q.id].note = Append(q.note, q.commit)]
  <2>1. id \in DOMAIN logs
    BY <1>3
  <2>2. DOMAIN logs[id] = LogFields
    BY <2>1 DEF GitOK, StateOK, LogsOK, LogOK
  <2>3. logs'[id] = IF id = q.id THEN [logs[id] EXCEPT !.note = Append(q.note, q.commit)]
                    ELSE logs[id]
    BY <1>3, <2>1
  <2> QED
    BY <1>3, <2>1, <2>2, <2>3 DEF LogFields, SameKey
<1>4. \/ logs' = logs
      \/ q.pc = "insert" /\ logs' = Inserted(CommitLog(q))
      \/ /\ q.pc = "save" /\ q.id \in DOMAIN logs
         /\ logs' = [logs EXCEPT ![q.id].note = Append(q.note, q.commit)]
  BY Zenon DEF JobWrites
<1> QED
  BY <1>1, <1>2, <1>3, <1>4

(* What a step of the whole system may be.                                 *)
LEMMA GitSteps ==
  ASSUME [GitNext]_allVars
  PROVE  \/ [Next]_vars /\ UNCHANGED gitVars
         \/ \E j \in Jobs : Start(j) \/ JobStep(j)
         \/ \E c \in Commits : Push(c)
         \/ \E i \in Integrations : Link(i) \/ Unlink(i)
  BY DEF GitNext, allVars

(* The lines of notes: the commits, and what clients write.                *)
Lines == Commits \cup UNION {Range(n) : n \in Notes}

Once(note) ==
  \A k, n \in DOMAIN note : note[k] = note[n] /\ note[k] \in Commits => k = n

(* A client names a commit at most once in a note it sends: nothing in the *)
(* code could take a second line away.                                     *)
ClientsNameOnce == \A n \in Notes : Once(n)

NotesLined == \A id \in DOMAIN logs : logs[id].note \in Seq(Lines)

Saves(q) == q.note \in Seq(Lines) /\ q.commit \notin Range(q.note)

SavesLined ==
  \A j \in Jobs : job[j].pc = "save" => Saves(job[j])

SavesOnce == \A j \in Jobs : job[j].pc = "save" => Once(job[j].note)

LEMMA ClientLines ==
  ASSUME NEW n \in Notes \cup {<<>>}
  PROVE  n \in Seq(Lines)
<1>1. CASE n = <<>>
  BY <1>1
<1>2. CASE n \in Notes
  <2>1. n \in Seq(Range(n)) /\ Range(n) \subseteq Lines
    BY <1>2, GitAssumption DEF Lines
  <2> QED
    BY <2>1
<1> QED
  BY <1>1, <1>2

LEMMA AppendLine ==
  ASSUME NEW n \in Seq(Lines), NEW c \in Commits
  PROVE  /\ Append(n, c) \in Seq(Lines)
         /\ Range(Append(n, c)) = Range(n) \cup {c}
         /\ Once(n) /\ c \notin Range(n) => Once(Append(n, c))
<1> DEFINE m == Append(n, c)
<1>1. /\ m \in Seq(Lines) /\ Len(m) = Len(n) + 1 /\ Len(n) \in Nat
      /\ DOMAIN n = 1 .. Len(n) /\ DOMAIN m = 1 .. Len(n) + 1
      /\ \A k \in 1 .. Len(n) : m[k] = n[k]
      /\ m[Len(n) + 1] = c
  BY DEF Lines
<1> HIDE DEF m
<1>2. Range(m) = Range(n) \cup {c}
  BY <1>1 DEF Range
<1>3. ASSUME Once(n), c \notin Range(n)
      PROVE  Once(m)
  <2>1. \A k \in 1 .. Len(n) : n[k] # c
    BY <1>1, <1>3 DEF Range
  <2> QED
    BY <1>1, <1>3, <2>1 DEF Once
<1> QED
  BY <1>1, <1>2, <1>3 DEF m

LEMMA OneLine ==
  ASSUME NEW c \in Commits
  PROVE  <<c>> \in Seq(Lines) /\ Range(<<c>>) = {c} /\ Once(<<c>>)
  BY DEF Lines, Range, Once

(* The commit a job holds is one that was pushed.                          *)
LEMMA HeldCommit ==
  ASSUME GitOK, NEW j \in Jobs, job[j].pc \in {"findAny", "org", "insert", "save"}
  PROVE  job[j].commit \in job[j].batch /\ job[j].commit \in Known
         /\ job[j].commit \in Commits /\ job[j].int \in Integrations
<1>1. JobTyped(job[j], Known, now, nextId) /\ PushedOK
  BY DEF GitOK, JobsOK
<1> QED
  BY <1>1 DEF JobTyped, Known, PushedOK, Appending

(* A job saves what it read, with one line more.                           *)
LEMMA SavesSlot ==
  ASSUME GitOK, NotesLined, SavesLined, NEW j \in Jobs,
         Start(j) \/ JobStep(j), NEW k \in Jobs, job'[k].pc = "save"
  PROVE  \/ job[k].pc = "save" /\ job'[k] = job[k]
         \/ /\ k = j /\ Works(job[j], job'[j]) /\ Saves(job'[j])
            /\ job'[j].id \in DOMAIN logs /\ job'[j].note = logs[job'[j].id].note
<1>1. CASE k # j
  BY <1>1, GitShape, JobFrame
<1>2. CASE k = j
  <2>1. JobMoves(job[j], job'[j])
    BY GitShape, JobsMove
  <2>2. Works(job[j], job'[j])
    <3> DEFINE p == job'[j]
    <3>1. p.pc = "save" /\ JobMoves(job[j], p)
      BY <1>2, <2>1
    <3> HIDE DEF p
    <3>2. NoJob.pc # "save"
      BY DEF NoJob
    <3>3. \A q : ~Leaves(q, p) /\ ~Finishes(q, p)
      BY <3>1, <3>2 DEF Leaves, Finishes
    <3>4. \A q, cs : ~Batches(q, p, cs) /\ ~GoesOn(q, p, cs)
      BY <3>1, <3>3 DEF Batches, GoesOn
    <3>5. \A q : ~Takes(q, p) /\ ~Fetches(q, p) /\ ~Asks(q, p)
      BY <3>1, <3>3, <3>4 DEF Takes, Fetches, Asks
    <3>6. \A q : ~Begins(q, p) /\ ~Lists(q, p)
      BY <3>1, <3>2 DEF Begins, Lists
    <3>7. Works(job[j], p)
      BY <3>1, <3>3, <3>5, <3>6 DEF JobMoves
    <3> QED
      BY <3>7 DEF p
  <2> QED
    BY <1>2, <2>2 DEF Works, Saves, NotesLined
<1> QED
  BY <1>1, <1>2

LEMMA LinedStep ==
  ASSUME GitOK, NotesLined, SavesLined, [GitNext]_allVars
  PROVE  NotesLined' /\ SavesLined'
<1>1. CASE [Next]_vars /\ UNCHANGED gitVars
  <2>1. \A id \in DOMAIN logs' : logs'[id].note \in Seq(Lines)
    BY <1>1, NotesMove, ClientLines DEF GitOK, NotesLined
  <2> QED
    BY <1>1, <2>1 DEF NotesLined, SavesLined, gitVars
<1>2. ASSUME NEW j \in Jobs, Start(j) \/ JobStep(j)
      PROVE  NotesLined' /\ SavesLined'
  <2>1. SavesLined'
    BY <1>2, SavesSlot DEF SavesLined
  <2>2. ASSUME NEW id \in DOMAIN logs'
        PROVE  logs'[id].note \in Seq(Lines)
    <3>1. CASE id \in DOMAIN logs /\ logs'[id] = logs[id]
      BY <3>1 DEF NotesLined
    <3>2. CASE job[j].pc = "insert" /\ logs'[id] = CommitLog(job[j])
      BY <3>2, CommitLogOK, HeldCommit, OneLine
    <3>3. CASE job[j].pc = "save" /\ logs'[id].note = Append(job[j].note, job[j].commit)
      BY <3>3, HeldCommit, AppendLine DEF SavesLined, Saves
    <3> QED
      BY <1>2, <3>1, <3>2, <3>3, JobLogs, JobWritesOwn
  <2> QED
    BY <2>1, <2>2 DEF NotesLined
<1>3. CASE \/ \E c \in Commits : Push(c)
           \/ \E i \in Integrations : Link(i) \/ Unlink(i)
  BY <1>3 DEF Push, Link, Unlink, vars, NotesLined, SavesLined
<1> QED
  BY <1>1, <1>2, <1>3, GitSteps

OnceNotes == \A id \in DOMAIN logs : Once(logs[id].note)

LEMMA OnceStep ==
  ASSUME ClientsNameOnce, GitOK, NotesLined, SavesLined, OnceNotes, SavesOnce,
         [GitNext]_allVars
  PROVE  OnceNotes' /\ SavesOnce'
<1>1. CASE [Next]_vars /\ UNCHANGED gitVars
  <2>1. Once(<<>>)
    BY DEF Once
  <2>2. \A id \in DOMAIN logs' : Once(logs'[id].note)
    BY <1>1, <2>1, NotesMove DEF GitOK, OnceNotes, ClientsNameOnce
  <2> QED
    BY <1>1, <2>2 DEF OnceNotes, SavesOnce, gitVars
<1>2. ASSUME NEW j \in Jobs, Start(j) \/ JobStep(j)
      PROVE  OnceNotes' /\ SavesOnce'
  <2>1. SavesOnce'
    BY <1>2, SavesSlot DEF SavesOnce, OnceNotes
  <2>2. ASSUME NEW id \in DOMAIN logs'
        PROVE  Once(logs'[id].note)
    <3>1. CASE id \in DOMAIN logs /\ logs'[id] = logs[id]
      BY <3>1 DEF OnceNotes
    <3>2. CASE job[j].pc = "insert" /\ logs'[id] = CommitLog(job[j])
      BY <3>2, CommitLogOK, HeldCommit, OneLine
    <3>3. CASE job[j].pc = "save" /\ logs'[id].note = Append(job[j].note, job[j].commit)
      BY <3>3, HeldCommit, AppendLine DEF SavesLined, Saves, SavesOnce
    <3> QED
      BY <1>2, <3>1, <3>2, <3>3, JobLogs, JobWritesOwn
  <2> QED
    BY <2>1, <2>2 DEF OnceNotes
<1>3. CASE \/ \E c \in Commits : Push(c)
           \/ \E i \in Integrations : Link(i) \/ Unlink(i)
  BY <1>3 DEF Push, Link, Unlink, vars, OnceNotes, SavesOnce
<1> QED
  BY <1>1, <1>2, <1>3, GitSteps

(* As long as no client writes the line of a commit twice itself, no note  *)
(* holds a commit twice, however many polls, syncs and webhooks bring it   *)
(* at the same time: a job appends to the very note it has tested, so that *)
(* a race may lose a line but never doubles one.                           *)
THEOREM CommitsNotRepeated ==
  ASSUME ClientsNameOnce
  PROVE  GitSpec => []CommitOncePerLog
<1>1. GitInit => NotesLined /\ SavesLined /\ OnceNotes /\ SavesOnce
  BY DEF GitInit, Init, NotesLined, SavesLined, OnceNotes, SavesOnce, NoJob
<1>2. GitOK /\ NotesLined /\ SavesLined /\ OnceNotes /\ SavesOnce /\ [GitNext]_allVars
        => (NotesLined /\ SavesLined /\ OnceNotes /\ SavesOnce)'
  BY LinedStep, OnceStep, ClientsNameOnce
<1>3. OnceNotes => CommitOncePerLog
  BY DEF OnceNotes, Once, CommitOncePerLog
<1> QED
  BY <1>1, <1>2, <1>3, GitStart, GitStep, PTL DEF GitSpec

-----------------------------------------------------------------------------
(* Where a commit belongs, by what the providers know of it.               *)

PlacedIn(c, acct, day, known, ints) ==
  /\ c \in DOMAIN known
  /\ acct = OwnerOf[RepoOf[c]]
  /\ \/ day = Day(known[c].made)
     \/ ints[RepoOf[c]].provider = "GitLab" /\ day = Day(known[c].pushed)

(* Clients write no line of a commit into a note of their own.             *)
ClientsWriteNoCommits == \A n \in Notes : Range(n) \cap Commits = {}

NotePlaced(note, l, known, ints) ==
  \A c \in Range(note) \cap Commits : PlacedIn(c, l.acct, l.day, known, ints)

NotesPlaced ==
  \A id \in DOMAIN logs : NotePlaced(logs[id].note, logs[id], pushed, integ)

BatchSound(q) == q.pc \in Appending => \A c \in q.batch : RepoOf[c] = q.int
BatchesSound == \A j \in Jobs : BatchSound(job[j])

SavePlaced(q, docs, known, ints) ==
  q.pc = "save" /\ q.id \in DOMAIN docs =>
    /\ NotePlaced(q.note, docs[q.id], known, ints)
    /\ PlacedIn(q.commit, docs[q.id].acct, docs[q.id].day, known, ints)

SavesPlaced == \A j \in Jobs : SavePlaced(job[j], logs, pushed, integ)

PlaceInv == NotesPlaced /\ BatchesSound /\ SavesPlaced

(* What is known of a commit or an integration does not change.            *)
LEMMA ProviderKept ==
  ASSUME GitOK, [GitNext]_allVars, NEW i \in Integrations
  PROVE  integ'[i].provider = integ[i].provider
<1>1. ASSUME NEW j \in Jobs, Start(j) \/ JobStep(j)
      PROVE  integ'[i].provider = integ[i].provider
  <2>1. CASE integ' = integ
    BY <2>1
  <2>2. CASE integ' = [integ EXCEPT ![job[j].int].lastPolled =
                         IF Linked(job[j].int) THEN job[j].polled ELSE @]
    BY <2>2 DEF GitOK, IntegOK
  <2> QED
    BY <1>1, <2>1, <2>2, GitShape, JobFrame DEF JobMarks
<1>2. ASSUME NEW k \in Integrations, Link(k) \/ Unlink(k)
      PROVE  integ'[i].provider = integ[i].provider
  BY <1>2 DEF Link, Unlink, GitOK, IntegOK
<1> QED
  BY <1>1, <1>2, GitSteps DEF gitVars, Push

LEMMA PushedKept ==
  ASSUME GitOK, [GitNext]_allVars, NEW c \in DOMAIN pushed
  PROVE  c \in DOMAIN pushed' /\ pushed'[c] = pushed[c]
<1>1. ASSUME NEW d \in Commits, Push(d)
      PROVE  c \in DOMAIN pushed' /\ pushed'[c] = pushed[c]
  BY <1>1 DEF Push
<1>2. ASSUME NEW j \in Jobs, Start(j) \/ JobStep(j)
      PROVE  pushed' = pushed
  BY <1>2, GitShape, JobFrame
<1> QED
  BY <1>1, <1>2, GitSteps DEF gitVars, Link, Unlink

LEMMA PlaceKept ==
  ASSUME GitOK, [GitNext]_allVars, NEW c \in Commits, NEW a, NEW d,
         PlacedIn(c, a, d, pushed, integ)
  PROVE  PlacedIn(c, a, d, pushed', integ')
<1>1. RepoOf[c] \in Integrations /\ c \in DOMAIN pushed
  BY GitAssumption DEF PlacedIn
<1> QED
  BY <1>1, ProviderKept, PushedKept DEF PlacedIn

LEMMA NoteKept ==
  ASSUME GitOK, [GitNext]_allVars, NEW note, NEW l, NEW m, SameKey(m, l),
         NotePlaced(note, l, pushed, integ)
  PROVE  NotePlaced(note, m, pushed', integ')
  BY PlaceKept DEF NotePlaced, SameKey

LEMMA GitKeyKept ==
  ASSUME GitOK, [GitNext]_allVars, NEW id \in DOMAIN logs', id \in Ids
  PROVE  id \in DOMAIN logs /\ SameKey(logs'[id], logs[id])
<1>1. CASE [Next]_vars
  BY <1>1, KeyKept DEF GitOK
<1>2. ASSUME NEW j \in Jobs, Start(j) \/ JobStep(j)
      PROVE  id \in DOMAIN logs /\ SameKey(logs'[id], logs[id])
  <2>1. id # nextId
    BY DEF GitOK, StateOK, Ids
  <2> QED
    BY <1>2, <2>1, JobLogs, JobWritesOwn DEF SameKey
<1>3. CASE logs' = logs
  BY <1>3 DEF SameKey
<1> QED
  BY <1>1, <1>2, <1>3, GitSteps DEF Push, Link, Unlink, vars

LEMMA BatchKept ==
  ASSUME GitOK, BatchesSound, NEW j \in Jobs, NEW p, JobMoves(job[j], p)
  PROVE  BatchSound(p)
<1> DEFINE q == job[j]
<1>0. BatchSound(q) /\ NoJob.pc \notin Appending
  BY DEF BatchesSound, NoJob, Appending
<1>1. ASSUME NEW m, Leaves(m, p) \/ Finishes(m, p) PROVE p.pc \notin Appending
  BY <1>0, <1>1 DEF Leaves, Finishes, Appending
<1>2. CASE Takes(q, p)
  <2>1. ASSUME NEW c, GoesOn(q, p, c), q.pc \in Appending PROVE BatchSound(p)
    BY <1>0, <1>1, <2>1 DEF GoesOn, SameRound, BatchSound
  <2> QED
    BY <1>2, <2>1 DEF Takes, Appending
<1>3. ASSUME NEW m, NEW cs, Batches(m, p, cs), \A c \in cs : RepoOf[c] = m.int
      PROVE  BatchSound(p)
  BY <1>1, <1>3 DEF Batches, SameRound, Clean, BatchSound
<1>4. CASE Begins(q, p)
  BY <1>0, <1>4 DEF Begins, BatchSound, Appending
<1>5. CASE Lists(q, p)
  BY <1>0, <1>5 DEF Lists, BatchSound, Appending
<1>6. CASE Asks(q, p)
  <2>1. PICK i \in DOMAIN q.ints :
          LET m == RoundOf(q, i) IN
          \/ Leaves(m, p) \/ Finishes(m, p) \/ p.pc = "commits"
          \/ \E commits \in {Recent(m), AfterDay(m)} :
               Batches(Without(m, commits), p, commits)
    BY <1>6 DEF Asks
  <2> DEFINE m == RoundOf(q, i)
  <2>2. ASSUME NEW commits \in {Recent(m), AfterDay(m)}
        PROVE  \A c \in commits : RepoOf[c] = Without(m, commits).int
    <3>1. Without(m, commits).int = m.int
      BY DEF Without, RoundOf, GitOK, JobsOK, JobTyped, NoJob
    <3> QED
      BY <3>1 DEF Recent, AfterDay, Seen
  <2>4. \/ Leaves(m, p) \/ Finishes(m, p) \/ p.pc = "commits"
        \/ \E commits \in {Recent(m), AfterDay(m)} :
             Batches(Without(m, commits), p, commits)
    BY <2>1
  <2> HIDE DEF m
  <2>5. p.pc = "commits" => p.pc \notin Appending
    BY DEF Appending
  <2> QED
    BY <1>1, <1>3, <2>2, <2>4, <2>5 DEF BatchSound
<1>7. CASE Fetches(q, p)
  <2>1. PICK commits \in {Made(q), {}} : Batches(Without(q, commits), p, commits)
    BY <1>7 DEF Fetches
  <2>2. Without(q, commits).int = q.int
    BY DEF Without, GitOK, JobsOK, JobTyped, NoJob
  <2>3. \A c \in commits : RepoOf[c] = q.int
    BY DEF Made, Seen
  <2> QED
    BY <1>3, <2>1, <2>2, <2>3
<1>8. CASE Works(q, p)
  BY <1>0, <1>8 DEF Works, SameRound, BatchSound, Appending
<1> QED
  BY <1>1, <1>2, <1>4, <1>5, <1>6, <1>7, <1>8 DEF JobMoves, BatchSound

LEMMA PlaceStart == GitInit => PlaceInv
  BY DEF GitInit, Init, PlaceInv, NotesPlaced, BatchesSound, BatchSound, SavesPlaced,
         SavePlaced, NoJob, Appending

LEMMA CommitPlaced ==
  ASSUME GitOK, BatchesSound, NEW j \in Jobs, job[j].pc \in Appending,
         NEW c \in job[j].batch
  PROVE  PlacedIn(c, OwnerOf[job[j].int], DayOf(job[j], c), pushed, integ)
<1>1. JobTyped(job[j], Known, now, nextId) /\ RepoOf[c] = job[j].int
  BY DEF GitOK, JobsOK, BatchesSound, BatchSound
<1> QED
  BY <1>1 DEF JobTyped, Known, PlacedIn, DayOf

LEMMA PlaceJob ==
  ASSUME GitOK, PlaceInv, NotesLined, SavesLined, NEW j \in Jobs,
         Start(j) \/ JobStep(j)
  PROVE  PlaceInv'
<1> DEFINE q == job[j]
<1>0. GitOK /\ [GitNext]_allVars /\ NotesPlaced /\ BatchesSound /\ SavesPlaced
  BY DEF GitNext, PlaceInv
<1>1. BatchesSound'
  <2>1. ASSUME NEW k \in Jobs PROVE BatchSound(job'[k])
    BY <1>0, <2>1, BatchKept, GitShape, JobFrame, JobsMove DEF BatchesSound
  <2> QED
    BY <2>1 DEF BatchesSound, BatchSound
<1>2. ASSUME NEW k \in Jobs, job'[k].pc = "save", job'[k].id \in DOMAIN logs',
             job[k].pc = "save", job'[k] = job[k]
      PROVE  SavePlaced(job'[k], logs', pushed', integ')
  <2> DEFINE l == logs[job[k].id]
             m == logs'[job[k].id]
  <2>1. job[k].id \in Ids /\ job[k].commit \in Commits
    BY <1>0, <1>2, HeldCommit DEF GitOK, JobsOK, JobTyped, Ids
  <2>2. job[k].id \in DOMAIN logs /\ SameKey(m, l)
    BY <1>0, <1>2, <2>1, GitKeyKept
  <2>3. /\ NotePlaced(job[k].note, l, pushed, integ)
        /\ PlacedIn(job[k].commit, l.acct, l.day, pushed, integ)
    BY <1>0, <1>2, <2>2 DEF SavesPlaced, SavePlaced
  <2>4. NotePlaced(job[k].note, m, pushed', integ')
    BY <1>0, <2>2, <2>3, NoteKept
  <2>5. PlacedIn(job[k].commit, l.acct, l.day, pushed', integ')
    BY <1>0, <2>1, <2>3, PlaceKept
  <2> QED
    BY <1>2, <2>2, <2>4, <2>5 DEF SavePlaced, SameKey
<1>3. ASSUME Works(q, job'[j]), job'[j].pc = "save", job'[j].id \in DOMAIN logs,
             job'[j].note = logs[job'[j].id].note
      PROVE  SavePlaced(job'[j], logs', pushed', integ')
  <2> DEFINE p == job'[j]
             l == logs[p.id]
             m == logs'[p.id]
  <2>1. /\ q.pc \in {"find", "findAny"} /\ p.commit \in q.batch
        /\ l.acct = OwnerOf[q.int] /\ l.day = DayOf(q, p.commit)
    BY <1>3 DEF Works
  <2>2. JobTyped(q, Known, now, nextId) /\ PushedOK
    BY <1>0 DEF GitOK, JobsOK
  <2>3. p.commit \in Commits
    BY <2>1, <2>2 DEF JobTyped, Known, PushedOK
  <2>4. p.id \in Ids
    BY <1>0, <1>3 DEF GitOK, StateOK, LogsOK
  <2>5. PlacedIn(p.commit, l.acct, l.day, pushed, integ)
    BY <1>0, <2>1, CommitPlaced DEF Appending
  <2>6. NotePlaced(p.note, l, pushed, integ)
    BY <1>0, <1>3 DEF NotesPlaced
  <2>7. PlacedIn(p.commit, l.acct, l.day, pushed', integ')
    BY <1>0, <2>3, <2>5, PlaceKept
  <2> HIDE DEF p
  <2>8. ASSUME p.id \in DOMAIN logs'
        PROVE  NotePlaced(p.note, m, pushed', integ') /\ SameKey(m, l)
    <3>1. SameKey(m, l)
      BY <1>0, <2>4, <2>8, GitKeyKept
    <3> QED
      BY <1>0, <2>6, <3>1, NoteKept
  <2>9. SavePlaced(p, logs', pushed', integ')
    BY <2>7, <2>8 DEF SavePlaced, SameKey
  <2> QED
    BY <2>9 DEF p
<1>4. SavesPlaced'
  <2>1. ASSUME NEW k \in Jobs PROVE SavePlaced(job'[k], logs', pushed', integ')
    <3>1. CASE job'[k].pc = "save" /\ job'[k].id \in DOMAIN logs'
      BY <1>2, <1>3, <3>1, <1>0, SavesSlot
    <3>2. CASE ~(job'[k].pc = "save" /\ job'[k].id \in DOMAIN logs')
      BY <3>2 DEF SavePlaced
    <3> QED
      BY <3>1, <3>2
  <2> QED
    BY <2>1 DEF SavesPlaced, SavePlaced, NotePlaced, PlacedIn
<1>5. ASSUME NEW id \in DOMAIN logs'
      PROVE  NotePlaced(logs'[id].note, logs'[id], pushed', integ')
  <2>1. CASE id \in DOMAIN logs /\ logs'[id] = logs[id]
    BY <1>0, <2>1, NoteKept DEF NotesPlaced, SameKey
  <2>2. CASE q.pc = "insert" /\ logs'[id] = CommitLog(q)
    <3> DEFINE d == DayOf(q, q.commit)
               l == CommitLog(q)
    <3>1. l.acct = OwnerOf[q.int] /\ l.day = d /\ l.note = <<q.commit>>
      BY DEF CommitLog, Document
    <3>2. q.commit \in Commits /\ q.commit \in q.batch
      BY <1>0, <2>2, HeldCommit
    <3>3. PlacedIn(q.commit, l.acct, l.day, pushed, integ)
      BY <1>0, <2>2, <3>1, <3>2, CommitPlaced DEF Appending
    <3>4. Range(l.note) = {q.commit}
      BY <3>1, <3>2, OneLine
    <3> HIDE DEF l
    <3>5. NotePlaced(l.note, l, pushed, integ)
      BY <3>3, <3>4 DEF NotePlaced
    <3>6. NotePlaced(l.note, l, pushed', integ')
      BY <1>0, <3>5, NoteKept DEF SameKey
    <3> QED
      BY <2>2, <3>6 DEF l
  <2>3. CASE /\ q.pc = "save" /\ id = q.id /\ id \in DOMAIN logs
             /\ SameKey(logs'[id], logs[id])
             /\ logs'[id].note = Append(q.note, q.commit)
    <3>1. q.commit \in Commits /\ q.note \in Seq(Lines)
      BY <1>0, <2>3, HeldCommit DEF SavesLined, Saves
    <3>2. Range(logs'[id].note) = Range(q.note) \cup {q.commit}
      BY <2>3, <3>1, AppendLine
    <3>3. /\ NotePlaced(q.note, logs[id], pushed, integ)
          /\ PlacedIn(q.commit, logs[id].acct, logs[id].day, pushed, integ)
      BY <1>0, <2>3 DEF SavesPlaced, SavePlaced
    <3>4. NotePlaced(logs'[id].note, logs[id], pushed, integ)
      BY <3>2, <3>3 DEF NotePlaced
    <3> QED
      BY <1>0, <2>3, <3>4, NoteKept
  <2> QED
    BY <1>0, <2>1, <2>2, <2>3, JobLogs, JobWritesOwn
<1>6. NotesPlaced'
  BY <1>5 DEF NotesPlaced, NotePlaced, PlacedIn
<1> QED
  BY <1>1, <1>4, <1>6 DEF PlaceInv

LEMMA PlaceBeside ==
  ASSUME ClientsWriteNoCommits, GitOK, PlaceInv, [GitNext]_allVars, job' = job,
         \/ logs' = logs
         \/ [Next]_vars /\ UNCHANGED gitVars
  PROVE  PlaceInv'
<1>0. NotesPlaced /\ BatchesSound /\ SavesPlaced
  BY DEF PlaceInv
<1>1. BatchesSound'
  BY <1>0 DEF BatchesSound, BatchSound
<1>2. ASSUME NEW k \in Jobs PROVE SavePlaced(job[k], logs', pushed', integ')
  <2>1. CASE job[k].pc = "save" /\ job[k].id \in DOMAIN logs'
    <3>1. job[k].id \in Ids /\ job[k].commit \in Commits
      BY <2>1, HeldCommit DEF GitOK, JobsOK, JobTyped, Ids
    <3>2. job[k].id \in DOMAIN logs /\ SameKey(logs'[job[k].id], logs[job[k].id])
      BY <2>1, <3>1, GitKeyKept
    <3> DEFINE l == logs[job[k].id]
               m == logs'[job[k].id]
    <3>3. /\ NotePlaced(job[k].note, l, pushed, integ)
          /\ PlacedIn(job[k].commit, l.acct, l.day, pushed, integ)
      BY <1>0, <2>1, <3>2 DEF SavesPlaced, SavePlaced
    <3>4. NotePlaced(job[k].note, m, pushed', integ')
      BY <3>2, <3>3, NoteKept
    <3>5. PlacedIn(job[k].commit, l.acct, l.day, pushed', integ')
      BY <3>1, <3>3, PlaceKept
    <3> QED
      BY <3>2, <3>4, <3>5 DEF SavePlaced, SameKey
  <2>2. CASE ~(job[k].pc = "save" /\ job[k].id \in DOMAIN logs')
    BY <2>2 DEF SavePlaced
  <2> QED
    BY <2>1, <2>2
<1>3. SavesPlaced'
  BY <1>2 DEF SavesPlaced, SavePlaced, NotePlaced, PlacedIn
<1>4. ASSUME NEW id \in DOMAIN logs'
      PROVE  NotePlaced(logs'[id].note, logs'[id], pushed', integ')
  <2>1. CASE id \in DOMAIN logs /\ logs'[id].note = logs[id].note
    <3>1. SameKey(logs'[id], logs[id])
      BY <2>1, GitKeyKept DEF GitOK, StateOK, LogsOK
    <3>2. NotePlaced(logs[id].note, logs[id], pushed, integ)
      BY <1>0, <2>1 DEF NotesPlaced
    <3> QED
      BY <2>1, <3>1, <3>2, NoteKept
  <2>2. CASE logs'[id].note \in Notes \cup {<<>>}
    BY <2>2 DEF NotePlaced, ClientsWriteNoCommits, Range
  <2> QED
    BY <2>1, <2>2, NotesMove DEF GitOK
<1>5. NotesPlaced'
  BY <1>4 DEF NotesPlaced, NotePlaced, PlacedIn
<1> QED
  BY <1>1, <1>3, <1>5 DEF PlaceInv

LEMMA PlaceStep ==
  ASSUME ClientsWriteNoCommits, GitOK, PlaceInv, NotesLined, SavesLined,
         [GitNext]_allVars
  PROVE  PlaceInv'
<1>1. CASE [Next]_vars /\ UNCHANGED gitVars
  BY <1>1, PlaceBeside DEF gitVars
<1>2. ASSUME NEW j \in Jobs, Start(j) \/ JobStep(j) PROVE PlaceInv'
  BY <1>2, PlaceJob
<1>3. CASE \/ \E c \in Commits : Push(c)
           \/ \E i \in Integrations : Link(i) \/ Unlink(i)
  <2>1. job' = job /\ logs' = logs
    BY <1>3 DEF Push, Link, Unlink, vars
  <2> QED
    BY <2>1, PlaceBeside
<1> QED
  BY <1>1, <1>2, <1>3, GitSteps

(* As long as clients write no line of a commit themselves, a commit is    *)
(* only ever found in a log of the account whose token saw it, under the   *)
(* day it was made or, for GitLab, pushed, although the job read the log,  *)
(* the organization and the integration some round trips before it writes: *)
(* ids are not given twice, and neither the owner nor the day of a log     *)
(* changes.                                                                *)
THEOREM CommitsInTheirLog ==
  ASSUME ClientsWriteNoCommits
  PROVE  GitSpec => []CommitInItsLog
<1>1. GitInit => NotesLined /\ SavesLined
  BY DEF GitInit, Init, NotesLined, SavesLined, NoJob
<1>2. GitOK /\ PlaceInv /\ NotesLined /\ SavesLined /\ [GitNext]_allVars
        => (PlaceInv /\ NotesLined /\ SavesLined)'
  BY LinedStep, PlaceStep, ClientsWriteNoCommits
<1>3. PlaceInv => CommitInItsLog
  BY DEF PlaceInv, NotesPlaced, NotePlaced, PlacedIn, CommitInItsLog
<1> QED
  BY <1>1, <1>2, <1>3, PlaceStart, GitStart, GitStep, PTL DEF GitSpec

-----------------------------------------------------------------------------
(* Nothing is missed.  known: the commits pushed so far, done: those that  *)
(* are dealt with or excused, t: the time.                                 *)

Done == taken \cup excused

Dealt(i, s, known, done) ==
  \A c \in DOMAIN known \ Merges : RepoOf[c] = i /\ known[c].pushed < s => c \in done

(* What the provider knew when it was asked is done, left out, or in rest. *)
AskedBut(q, rest, done) == q.asked \ Merges \subseteq done \cup q.left \cup rest

(* The same, of the commits that a poll does not ask for.                  *)
OldDone(q, known, done) ==
  \A c \in q.asked \ Merges :
    /\ c \in DOMAIN known /\ RepoOf[c] = q.int
    /\ known[c].pushed <= q.since => c \in done \cup q.left

(* What a job carries from one integration to the next: times at which     *)
(* they had been polled.                                                   *)
Carried(q, known, done, t) ==
  /\ q.since \in Int
  /\ q.kind = "hook" => DOMAIN q.ints = {}
  /\ DOMAIN q.ints \subseteq Integrations
  /\ \A i \in DOMAIN q.ints : q.ints[i] # None =>
       q.ints[i] \in Nat /\ q.ints[i] <= t /\ Dealt(i, q.ints[i], known, done)

PollSound(q, known, done, t) ==
  /\ q.pc # "idle" => Carried(q, known, done, t)
  /\ q.pc = "list" => q.kind # "hook"
  /\ q.pc = "commits" => OldDone(q, known, done)
  /\ q.pc \in Appending /\ q.kind # "hook" => AskedBut(q, q.batch, done)
  /\ q.pc = "mark" => AskedBut(q, {}, done) /\ q.polled <= t

PolledOK(ints, known, done, t) ==
  \A i \in Integrations : ints[i].lastPolled # None =>
    ints[i].lastPolled <= t /\ Dealt(i, ints[i].lastPolled, known, done)

PollsInv ==
  /\ PolledOK(integ, pushed, Done, now)
  /\ \A j \in Jobs : PollSound(job[j], pushed, Done, now)

LEMMA NoJobSound ==
  ASSUME NEW known, NEW done, NEW t
  PROVE  PollSound(NoJob, known, done, t)
  BY DEF PollSound, NoJob, Appending

LEMMA LeavesSound ==
  ASSUME NEW q, NEW p, NEW known, NEW done, NEW t, Leaves(q, p),
         Carried(q, known, done, t)
  PROVE  PollSound(p, known, done, t)
<1>1. CASE p = NoJob
  BY <1>1, NoJobSound
<1>2. CASE p # NoJob
  <2> DEFINE rest == DOMAIN q.ints \ {q.int}
  <2>1. /\ rest # {} /\ p.pc = "next" /\ p.kind = q.kind
        /\ p.since = q.since /\ p.ints = [i \in rest |-> q.ints[i]]
    BY <1>2 DEF Leaves
  <2>2. /\ DOMAIN p.ints = rest /\ rest \subseteq Integrations
        /\ \A i \in rest : p.ints[i] = q.ints[i]
    BY <2>1 DEF Carried
  <2>3. Carried(p, known, done, t)
    BY <2>1, <2>2 DEF Carried
  <2> QED
    BY <2>1, <2>3 DEF PollSound, Appending
<1> QED
  BY <1>1, <1>2

LEMMA FinishesSound ==
  ASSUME StateOK, NEW q, NEW p, NEW known, NEW done, Finishes(q, p),
         Carried(q, known, done, now),
         q.kind # "hook" => AskedBut(q, {}, done)
  PROVE  PollSound(p, known, done, now)
<1>1. CASE p = NoJob
  BY <1>1, NoJobSound
<1>2. CASE p # NoJob
  <2>1. now <= now
    BY DEF StateOK
  <2> QED
    BY <1>2, <2>1 DEF Finishes, SameRound, PollSound, Carried, AskedBut, Appending
<1> QED
  BY <1>1, <1>2

LEMMA BatchesSoundly ==
  ASSUME StateOK, NEW q, NEW p, NEW commits, NEW done, Batches(q, p, commits),
         Carried(q, pushed, done, now), AskedBut(q, commits, done)
  PROVE  PollSound(p, pushed, done, now)
<1>0. AskedBut(q, Clean(commits), done)
  BY DEF AskedBut, Clean
<1>1. CASE Clean(commits) = {} /\ Finishes(q, p)
  BY <1>0, <1>1, FinishesSound
<1>2. CASE ~(Clean(commits) = {} /\ Finishes(q, p))
  BY <1>0, <1>2 DEF Batches, SameRound, PollSound, Carried, AskedBut, Appending
<1> QED
  BY <1>1, <1>2

(* More may be done, and time may pass.                                    *)
LEMMA CarriedKept ==
  ASSUME NEW q, NEW known, NEW done, NEW more, done \subseteq more,
         NEW t \in Nat, NEW u \in Nat, t <= u, Carried(q, known, done, t)
  PROVE  Carried(q, known, more, u)
  BY DEF Carried, Dealt

LEMMA SoundKept ==
  ASSUME NEW q, NEW known, NEW done, NEW more, done \subseteq more,
         NEW t \in Nat, NEW u \in Nat, t <= u, q.polled \in Nat,
         PollSound(q, known, done, t)
  PROVE  PollSound(q, known, more, u)
  BY CarriedKept DEF PollSound, OldDone, AskedBut

(* What the answer of the provider leaves out is remembered.               *)
LEMMA WithoutSound ==
  ASSUME GitOK, NEW q, DOMAIN q = DOMAIN NoJob, q.left \subseteq Commits,
         Carried(q, pushed, Done, now), OldDone(q, pushed, Done), NEW commits
  PROVE  LET w == Without(q, commits) IN
         Carried(w, pushed, Done, now) /\ AskedBut(w, commits, Done)
<1> DEFINE w == Without(q, commits)
<1>1. /\ w.kind = q.kind /\ w.since = q.since /\ w.ints = q.ints
      /\ w.asked = q.asked /\ w.left = q.left \cup (Recent(q) \ commits)
  BY WithoutTyped
<1> HIDE DEF w
<1>2. Carried(w, pushed, Done, now)
  BY <1>1 DEF Carried
<1>3. ASSUME NEW c \in q.asked \ Merges
      PROVE  c \in Done \cup q.left \/ c \in Recent(q)
  BY <1>3 DEF OldDone, Carried, Recent, Seen, GitOK, PushedOK
<1> QED
  BY <1>1, <1>2, <1>3 DEF AskedBut, w

LEMMA AsksSound ==
  ASSUME GitOK, PollsInv, NEW j \in Jobs, NEW p, Asks(job[j], p)
  PROVE  PollSound(p, pushed, Done, now)
<1> DEFINE q == job[j]
<1>0. /\ q.pc = "next" /\ JobTyped(q, Known, now, nextId) /\ StateOK
      /\ PollSound(q, pushed, Done, now)
  BY DEF Asks, GitOK, JobsOK, PollsInv
<1>1. PICK i \in DOMAIN q.ints :
        LET m == RoundOf(q, i) IN
        \/ Leaves(m, p)
        \/ Recent(m) = {} /\ Finishes(m, p)
        \/ /\ p.pc = "commits" /\ SameRound(m, p)
           /\ p.batch = q.batch /\ p.polled = q.polled
        \/ \E commits \in {Recent(m), AfterDay(m)} :
             Batches(Without(m, commits), p, commits)
  BY DEF Asks
<1> DEFINE m == RoundOf(q, i)
<1>2. Carried(q, pushed, Done, now) /\ q.kind \in {"poll", "sync", "hook"}
  BY <1>0 DEF PollSound, JobTyped
<1>3. /\ DOMAIN m = DOMAIN NoJob
      /\ m.kind = q.kind /\ m.ints = q.ints /\ m.int = i /\ m.since = SinceOf(q, i)
      /\ m.asked = Seen(i) /\ m.left \subseteq Commits
      /\ m.left = {c \in Seen(i) :
                     \/ pushed[c].pushed = m.since
                     \/ /\ pushed[c].pushed < m.since
                        /\ q.kind = "sync" \/ q.ints[i] = None}
  BY <1>0, RoundTyped DEF JobTyped
<1>4. i \in Integrations /\ Carried(m, pushed, Done, now)
  BY <1>2, <1>3 DEF Carried, SinceOf
<1>5. OldDone(m, pushed, Done)
  <2> SUFFICES ASSUME NEW c \in Seen(i) \ Merges
               PROVE  /\ c \in DOMAIN pushed /\ RepoOf[c] = i
                      /\ pushed[c].pushed <= m.since => c \in Done \cup m.left
    BY <1>3 DEF OldDone
  <2>1. c \in DOMAIN pushed /\ RepoOf[c] = i /\ pushed[c].pushed \in Nat
    BY DEF Seen, GitOK, PushedOK
  <2>2. m.since \in Int
    BY <1>4 DEF Carried
  <2>3. CASE q.kind = "sync" \/ q.ints[i] = None
    BY <1>3, <2>1, <2>2, <2>3
  <2>4. CASE ~(q.kind = "sync" \/ q.ints[i] = None)
    <3>1. m.since = q.ints[i] /\ Dealt(i, q.ints[i], pushed, Done)
      BY <1>2, <1>3, <2>4 DEF SinceOf, Carried
    <3>2. pushed[c].pushed < m.since => c \in Done
      BY <2>1, <3>1 DEF Dealt
    <3> QED
      BY <1>3, <2>1, <2>2, <3>2
  <2> QED
    BY <2>3, <2>4
<1>6. Recent(m) = {} => AskedBut(m, {}, Done)
  BY <1>3, <1>4, <1>5 DEF OldDone, AskedBut, Carried, Recent, GitOK, PushedOK, Seen
<1>7. \/ Leaves(m, p)
      \/ Recent(m) = {} /\ Finishes(m, p)
      \/ p.pc = "commits" /\ SameRound(m, p)
      \/ \E commits \in {Recent(m), AfterDay(m)} :
           Batches(Without(m, commits), p, commits)
  BY <1>1
<1> HIDE DEF m
<1>8. CASE Leaves(m, p)
  BY <1>4, <1>8, LeavesSound
<1>9. CASE Recent(m) = {} /\ Finishes(m, p)
  BY <1>0, <1>4, <1>6, <1>9, FinishesSound
<1>10. CASE p.pc = "commits" /\ SameRound(m, p)
  BY <1>4, <1>5, <1>10 DEF SameRound, PollSound, Carried, OldDone, Appending
<1>11. ASSUME NEW commits \in {Recent(m), AfterDay(m)},
              Batches(Without(m, commits), p, commits)
       PROVE  PollSound(p, pushed, Done, now)
  BY <1>0, <1>3, <1>4, <1>5, <1>11, WithoutSound, BatchesSoundly
<1> QED
  BY <1>7, <1>8, <1>9, <1>10, <1>11

LEMMA GoesOnSound ==
  ASSUME GitOK, NEW q, NEW p, NEW c, NEW done, GoesOn(q, p, c),
         Carried(q, pushed, done, now),
         q.kind # "hook" => AskedBut(q, q.batch \ {c}, done)
  PROVE  PollSound(p, pushed, done, now)
<1>1. CASE q.batch \ {c} = {} /\ Finishes(q, p)
  BY <1>1, FinishesSound DEF GitOK
<1>2. CASE ~(q.batch \ {c} = {} /\ Finishes(q, p))
  BY <1>2 DEF GoesOn, SameRound, PollSound, Carried, AskedBut, Appending
<1> QED
  BY <1>1, <1>2

(* Every move of a job keeps what it has dealt with apart from the rest.   *)
LEMMA MovesSound ==
  ASSUME GitOK, PollsInv, NEW j \in Jobs, NEW p, JobMoves(job[j], p),
         excused \subseteq excused'
  PROVE  PollSound(p, pushed, Done', now)
<1> DEFINE q == job[j]
<1>0. /\ StateOK /\ JobTyped(q, Known, now, nextId) /\ PollSound(q, pushed, Done, now)
      /\ PolledOK(integ, pushed, Done, now) /\ now \in Nat
  BY DEF GitOK, JobsOK, PollsInv, StateOK
<1>00. SUFFICES \/ PollSound(p, pushed, Done', now)
                \/ p.polled \in Nat /\ PollSound(p, pushed, Done, now)
  <2>1. Done \subseteq Done' /\ now <= now
    BY <1>0 DEF Done, JobMoves, Takes
  <2> QED
    BY <1>0, <2>1, SoundKept
<1>01. p.polled \in Nat
  BY MovesTyped DEF JobTyped
<1>1. CASE Takes(q, p)
  <2>1. PICK c : /\ q.pc \in Appending /\ GoesOn(q, p, c) /\ taken' = taken \cup {c}
    BY <1>1 DEF Takes, Appending
  <2>2. Done \subseteq Done' /\ c \in Done' /\ now <= now
    BY <1>0, <2>1 DEF Done
  <2>3. Carried(q, pushed, Done', now)
    BY <1>0, <2>1, <2>2, CarriedKept DEF PollSound, Appending
  <2>4. q.kind # "hook" => AskedBut(q, q.batch \ {c}, Done')
    BY <1>0, <2>1, <2>2 DEF PollSound, AskedBut
  <2> QED
    BY <2>1, <2>3, <2>4, GoesOnSound
<1>2. CASE Begins(q, p)
  <2>1. CASE p = NoJob
    BY <1>01, <2>1, NoJobSound
  <2>2. CASE p # NoJob
    BY <1>01, <1>2, <2>2 DEF Begins, PollSound, Carried, AskedBut, Appending
  <2> QED
    BY <2>1, <2>2
<1>3. CASE Lists(q, p)
  <2>1. CASE p = NoJob
    BY <1>01, <2>1, NoJobSound
  <2>2. CASE p # NoJob
    <3>1. /\ q.pc = "list" /\ p.pc = "next" /\ p.kind = q.kind /\ p.since = q.since
          /\ DOMAIN p.ints \subseteq Integrations /\ DOMAIN p.ints # {}
          /\ \A i \in DOMAIN p.ints : p.ints[i] = integ[i].lastPolled
      BY <1>3, <2>2 DEF Lists
    <3>2. Carried(q, pushed, Done, now) /\ q.kind # "hook"
      BY <1>0, <3>1 DEF PollSound
    <3>3. \A i \in DOMAIN p.ints : p.ints[i] # None =>
            p.ints[i] \in Nat /\ p.ints[i] <= now /\ Dealt(i, p.ints[i], pushed, Done)
      BY <1>0, <3>1 DEF PolledOK, GitOK, IntegOK
    <3>4. Carried(p, pushed, Done, now)
      BY <3>1, <3>2, <3>3 DEF Carried
    <3> QED
      BY <1>01, <3>1, <3>4 DEF PollSound, Appending
  <2> QED
    BY <2>1, <2>2
<1>4. CASE Asks(q, p)
  BY <1>01, <1>4, AsksSound
<1>5. CASE Fetches(q, p)
  <2>1. PICK commits \in {Made(q), {}} : Batches(Without(q, commits), p, commits)
    BY <1>5 DEF Fetches
  <2>2. Carried(q, pushed, Done, now) /\ OldDone(q, pushed, Done)
    BY <1>0, <1>5 DEF PollSound, Fetches
  <2>3. DOMAIN q = DOMAIN NoJob /\ q.left \subseteq Commits
    BY <1>0 DEF JobTyped
  <2> QED
    BY <1>0, <1>01, <2>1, <2>2, <2>3, WithoutSound, BatchesSoundly
<1>6. CASE Works(q, p)
  <2>1. /\ q.pc \in Appending /\ p.pc \in Appending /\ SameRound(q, p)
        /\ p.batch = q.batch
    BY <1>6 DEF Works, Appending
  <2> QED
    BY <1>0, <1>01, <2>1 DEF SameRound, PollSound, Carried, AskedBut, Appending
<1>7. CASE q.pc \in {"insert", "save", "mark"} /\ Leaves(q, p)
  <2>1. Carried(q, pushed, Done, now)
    BY <1>0, <1>7 DEF PollSound
  <2> QED
    BY <1>01, <1>7, <2>1, LeavesSound
<1> QED
  BY <1>1, <1>2, <1>3, <1>4, <1>5, <1>6, <1>7 DEF JobMoves

LEMMA PollsJob ==
  ASSUME GitOK, PollsInv, NEW j \in Jobs, Start(j) \/ JobStep(j)
  PROVE  PollsInv'
<1> DEFINE q == job[j]
<1>0. /\ now \in Nat /\ now <= now /\ JobTyped(q, Known, now, nextId)
      /\ PolledOK(integ, pushed, Done, now) /\ PollSound(q, pushed, Done, now)
  BY DEF GitOK, StateOK, JobsOK, PollsInv
<1>1. /\ UNCHANGED <<now, pushed>> /\ JobMarks(q) /\ JobMoves(q, job'[j])
      /\ \A k \in Jobs : k # j => job'[k] = job[k]
  BY GitShape, JobFrame, JobsMove
<1>2. excused \subseteq excused' /\ Done \subseteq Done'
  BY <1>1 DEF JobMoves, Takes, JobMarks, Done
<1>3. ASSUME NEW k \in Jobs PROVE PollSound(job'[k], pushed, Done', now)
  <2>1. CASE k = j
    BY <1>1, <1>2, <2>1, MovesSound
  <2>2. CASE k # j
    <3>1. PollSound(job[k], pushed, Done, now) /\ job[k].polled \in Nat
      BY DEF PollsInv, GitOK, JobsOK, JobTyped
    <3>2. PollSound(job[k], pushed, Done', now)
      BY <1>0, <1>2, <3>1, SoundKept
    <3> QED
      BY <1>1, <2>2, <3>2
  <2> QED
    BY <2>1, <2>2
<1>4. PolledOK(integ', pushed, Done', now)
  <2>1. CASE integ' = integ
    BY <1>0, <1>2, <2>1 DEF PolledOK, Dealt
  <2>2. CASE /\ q.pc = "mark" /\ excused' = excused \cup Unseen(q)
             /\ integ' = [integ EXCEPT ![q.int].lastPolled = q.polled]
    <3>1. AskedBut(q, {}, Done) /\ q.polled <= now /\ q.polled \in Nat
      BY <1>0, <2>2 DEF PollSound, JobTyped
    <3>2. Dealt(q.int, q.polled, pushed, Done')
      BY <1>2, <2>2, <3>1 DEF AskedBut, Dealt, Unseen, Seen, Done
    <3>3. ASSUME NEW i \in Integrations
          PROVE  \/ integ'[i].lastPolled = integ[i].lastPolled
                 \/ i = q.int /\ integ'[i].lastPolled = q.polled
      BY <2>2 DEF GitOK, IntegOK
    <3>4. PolledOK(integ, pushed, Done', now)
      BY <1>0, <1>2 DEF PolledOK, Dealt
    <3> QED
      BY <3>1, <3>2, <3>3, <3>4 DEF PolledOK
  <2> QED
    BY <1>1, <2>1, <2>2 DEF JobMarks
<1> QED
  BY <1>1, <1>3, <1>4 DEF PollsInv, PolledOK, PollSound, Carried, Dealt, OldDone

LEMMA PollsBeside ==
  ASSUME GitOK, PollsInv, [Next]_vars, UNCHANGED gitVars
  PROVE  PollsInv'
<1>1. now \in Nat /\ now' \in Nat /\ now <= now'
  <2>1. StateOK /\ now \in Nat
    BY DEF GitOK, StateOK
  <2> QED
    BY <2>1, NowMoves
<1>2. UNCHANGED <<integ, pushed, job, taken, excused>> /\ Done' = Done
  BY DEF gitVars, Done
<1>3. PolledOK(integ, pushed, Done, now')
  BY <1>1 DEF PollsInv, PolledOK, GitOK, IntegOK
<1>4. ASSUME NEW j \in Jobs PROVE PollSound(job[j], pushed, Done, now')
  <2>1. PollSound(job[j], pushed, Done, now) /\ job[j].polled \in Nat
    BY DEF PollsInv, GitOK, JobsOK, JobTyped
  <2> QED
    BY <1>1, <2>1, SoundKept
<1> QED
  BY <1>2, <1>3, <1>4 DEF PollsInv, PolledOK, PollSound, Carried, Dealt, OldDone

(* A commit is pushed now: no job and no mark has come past this time, and *)
(* nobody has asked for it yet.                                            *)
LEMMA PollsPush ==
  ASSUME GitOK, PollsInv, NEW c \in Commits, Push(c)
  PROVE  PollsInv'
<1>1. PICK t : /\ c \notin DOMAIN pushed
               /\ pushed' = [x \in DOMAIN pushed \cup {c} |->
                      IF x = c THEN [made |-> t, pushed |-> now] ELSE pushed[x]]
               /\ UNCHANGED <<now, integ, job, taken, excused>>
  BY DEF Push, vars
<1>2. /\ DOMAIN pushed' = DOMAIN pushed \cup {c} /\ pushed'[c].pushed = now
      /\ \A x \in DOMAIN pushed : x # c /\ pushed'[x] = pushed[x]
  BY <1>1
<1>3. now \in Nat /\ Done' = Done
  BY <1>1 DEF GitOK, StateOK, Done
<1>4. ASSUME NEW i \in Integrations, NEW s \in Nat, s <= now, Dealt(i, s, pushed, Done)
      PROVE  Dealt(i, s, pushed', Done)
  BY <1>2, <1>3, <1>4 DEF Dealt
<1>5. PolledOK(integ, pushed', Done, now)
  BY <1>4 DEF PollsInv, PolledOK, GitOK, IntegOK
<1>6. ASSUME NEW j \in Jobs PROVE PollSound(job[j], pushed', Done, now)
  <2>1. PollSound(job[j], pushed, Done, now)
    BY DEF PollsInv
  <2>2. Carried(job[j], pushed, Done, now) => Carried(job[j], pushed', Done, now)
    BY <1>4 DEF Carried
  <2>3. OldDone(job[j], pushed, Done) => OldDone(job[j], pushed', Done)
    BY <1>2 DEF OldDone
  <2> QED
    BY <2>1, <2>2, <2>3 DEF PollSound
<1> QED
  BY <1>1, <1>3, <1>5, <1>6 DEF PollsInv, PolledOK, PollSound, Carried, Dealt, OldDone

LEMMA PollsLink ==
  ASSUME GitOK, PollsInv, NEW i \in Integrations, Link(i) \/ Unlink(i)
  PROVE  PollsInv'
<1>1. UNCHANGED <<now, pushed, job, taken, excused>> /\ Done' = Done
  BY DEF Link, Unlink, vars, Done
<1>2. \A k \in Integrations : integ'[k].lastPolled = integ[k].lastPolled
  BY DEF Link, Unlink, GitOK, IntegOK
<1>3. PolledOK(integ', pushed, Done, now)
  BY <1>2 DEF PollsInv, PolledOK
<1> QED
  BY <1>1, <1>3 DEF PollsInv, PolledOK, PollSound, Carried, Dealt, OldDone

LEMMA PollsStart == GitInit => PollsInv
<1> SUFFICES ASSUME GitInit PROVE PollsInv
  OBVIOUS
<1>1. PolledOK(integ, pushed, Done, now)
  BY DEF GitInit, PolledOK
<1>2. \A j \in Jobs : job[j] = NoJob
  BY DEF GitInit
<1> QED
  BY <1>1, <1>2, NoJobSound DEF PollsInv

LEMMA PollsStep ==
  ASSUME GitOK, PollsInv, [GitNext]_allVars
  PROVE  PollsInv'
  BY GitSteps, PollsBeside, PollsJob, PollsPush, PollsLink

(* No commit is ever passed over, however late it is pushed, although jobs *)
(* fail half way and overlap, integrations come and go, and logs and       *)
(* organizations vanish under a job: before a job moves lastPolledAt, it   *)
(* has dealt with every commit the provider showed it, and the commits it  *)
(* had reason not to ask for are those an earlier poll has dealt with.     *)
THEOREM NothingIsMissed == GitSpec => []NoCommitIsMissed
<1>1. GitOK /\ PollsInv => NoCommitIsMissed
  <2> SUFFICES ASSUME GitOK, PollsInv, NEW c \in DOMAIN pushed \ Merges,
                      integ[RepoOf[c]].lastPolled # None,
                      pushed[c].pushed < integ[RepoOf[c]].lastPolled
               PROVE  c \in taken \cup excused
    BY DEF NoCommitIsMissed
  <2>1. RepoOf[c] \in Integrations
    BY GitAssumption DEF GitOK, PushedOK
  <2> QED
    BY <2>1 DEF PollsInv, PolledOK, Dealt, Done
<1>2. GitOK /\ PollsInv /\ [GitNext]_allVars => PollsInv'
  BY PollsStep
<1> QED
  BY <1>1, <1>2, PollsStart, GitStart, GitStep, PTL DEF GitSpec

=============================================================================
