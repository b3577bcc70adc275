----------------------------- MODULE MCGitIngest -----------------------------
(***************************************************************************)
(* One account with one integration at a time, or two, and what clients    *)
(* and providers do in one behaviour, chosen at its start.                 *)
(***************************************************************************)
EXTENDS GitIngest

CONSTANTS
  a1, g1, g2, c1, c2, c3, c4,
  Scenarios  \* [calls, jobs, commits]: operations, and bounds on the jobs in
             \* flight and on the commits

At(d, h, m, s) == d * DaySeconds + h * 3600 + m * 60 + s

(* The hour in which commits are made and polls find them.                 *)
DaysApart == {At(5, 12, 0, 0), At(8, 23, 50, 0), At(9, 0, 0, 0)}
Evening == At(8, 23, 50, 0)

(* A commit, and the polls before and after midnight that follow it.       *)
LateEvening == {At(8, 23, 45, 0), At(8, 23, 50, 0), At(9, 0, 0, 0)}

OneSchedule == {DefaultSchedule}
NoNotes == {}
NoBodies == {}
OneOwner == [i \in Integrations |-> a1]
RepoDef == [c \in Commits |-> IF c = c4 THEN g2 ELSE g1]

(* Two jobs beside a check-in; two jobs of every kind; one job with batches*)
(* of commits while the integration, logs and organizations disappear; one *)
(* job with commits of days before; polls while a second integration of    *)
(* the account is linked.                                                  *)
Scenario(calls, jobs, commits, from) ==
  [calls |-> calls, jobs |-> jobs, commits |-> commits, from |-> from]
LinkOnly == {Scenario({"poll", "link"}, 1, 1, 0)}
ScenariosDef ==
  { Scenario({"poll", "hook", "checkIn"}, 2, 1, Evening),
    Scenario({"poll", "sync", "hook"}, 2, 1, Evening),
    Scenario({"poll", "hook", "unlink", "remove", "removeOrg"}, 1, 2, Evening),
    Scenario({"poll", "sync"}, 1, 2, 0) } \cup LinkOnly

VARIABLE open  \* the scenario of this behaviour

Within ==
  LET busy == {j \in Jobs : job'[j].pc # "idle"} IN
  /\ now < open.from => now' # now
  /\ \A j \in busy : job'[j].kind \in open.calls
  /\ Cardinality(busy) <= open.jobs /\ Cardinality(DOMAIN pushed') <= open.commits
  /\ \A c \in DOMAIN pushed' :
       /\ pushed'[c].made >= open.from
       /\ RepoOf[c] = g2 => "link" \in open.calls
  /\ \A i \in Integrations : integ'[i].state # integ[i].state =>
       IF integ'[i].state = "linked" THEN "link" \in open.calls
       ELSE "unlink" \in open.calls
  /\ \A o \in Orgs : ~orgs'[o].alive => "removeOrg" \in open.calls
  /\ \A r \in Reqs : req'[r].pc \in {"checkIn", "remove"} => req'[r].pc \in open.calls

MCGitInit ==
  /\ GitInit /\ open \in Scenarios
  /\ \A i \in Integrations : integ[i].state = "linked" <=> i = g1
  /\ "link" \in open.calls \/ integ[g1].provider = integ[g2].provider

MCGitSpec == MCGitInit /\ [][GitNext /\ UNCHANGED open /\ Within]_<<allVars, open>>

Symmetry == Permutations(Jobs) \cup Permutations({c1, c2})
==============================================================================
