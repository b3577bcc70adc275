------------------------------- MODULE Notices -------------------------------
(***************************************************************************)
(* Notices to users: NoticeService stores one for each user it writes to   *)
(* and NoticeGateway pushes it to the open tabs of that user, which also   *)
(* list what is not viewed.  createAndSend runs once per user, and only    *)
(* noticeToUser waits for it.                                              *)
(***************************************************************************)
EXTENDS Naturals, Sequences, FiniteSets

CONSTANTS Users,
          Tabs, UserOf,   \* browser tabs, and whose they are
          MaxBatches      \* bound on the requests to send notices

ASSUME NoticesAssumption == UserOf \in [Tabs -> Users] /\ MaxBatches \in Nat

VARIABLES users,     \* accounts that exist
          leaving,   \* requestDelete has deleted the notices, not yet the account
          notices,   \* the collection: a batch has one notice for a user
          batches,   \* how each request was made: for all, some or one
          jobs,      \* createAndSend in flight
          tabs,      \* open: in the room of its user; listed; what it has shown
          failed,    \* history: the notices whose own job was rejected
          ended      \* history: the notices whose job died with the process

noticeVars == <<users, leaving, notices, batches, jobs, tabs, failed, ended>>

Closed == [open |-> FALSE, listed |-> FALSE, seen |-> {}]
NoticesOf(u) == {n \in notices : n.account = u}
Key(x) == <<x.batch, x.account>>

NoticesInit ==
  /\ users = Users
  /\ leaving = {}
  /\ notices = {}
  /\ batches = <<>>
  /\ jobs = {}
  /\ tabs = [t \in Tabs |-> Closed]
  /\ failed = {}
  /\ ended = {}

(* A request finds its users and starts createAndSend for each of them.    *)
Send(kind, to) ==
  /\ Len(batches) < MaxBatches
  /\ batches' = Append(batches, kind)
  /\ jobs' = jobs \cup {[batch |-> Len(batches) + 1, account |-> u, pc |-> "create"] : u \in to}
  /\ UNCHANGED <<users, leaving, notices, tabs, failed, ended>>

NoticeToAllUsers == Send("all", users)
NoticeToSomeUsers(ids) == Send("some", ids \cap users)
NoticeToUser(u) == u \in users /\ Send("one", {u})

NoticeInsert(j) ==
  /\ j \in jobs /\ j.pc = "create"
  /\ notices' = notices \cup {[batch |-> j.batch, account |-> j.account, viewed |-> FALSE]}
  /\ jobs' = (jobs \ {j}) \cup {[j EXCEPT !.pc = "find"]}
  /\ UNCHANGED <<users, leaving, batches, tabs, failed, ended>>

(* sendNoticeToAccount: to the room of the account.                        *)
Pushed(n) ==
  [t \in Tabs |-> IF tabs[t].open /\ UserOf[t] = n.account
                  THEN [tabs[t] EXCEPT !.seen = @ \cup {Key(n)}] ELSE tabs[t]]

(* The stored notice is read again and pushed in one turn.                 *)
NoticeFind(j) ==
  /\ j \in jobs /\ j.pc = "find"
  /\ \E n \in NoticesOf(j.account) : n.batch = j.batch /\ tabs' = Pushed(n)
  /\ jobs' = jobs \ {j}
  /\ UNCHANGED <<users, leaving, notices, batches, failed, ended>>

(* The end of the process, whose jobs in flight die with it.               *)
ProcessEnds(dying) ==
  /\ ended' = ended \cup {Key(k) : k \in dying}
  /\ jobs' = {}
  /\ tabs' = [t \in Tabs |-> Closed]
  /\ leaving' = {}

(* Variant: one failure ends the batch.                                    *)
BatchEnds(j) ==
  /\ jobs' = {k \in jobs : k.batch # j.batch}
  /\ UNCHANGED <<tabs, leaving, ended>>

(* A promise is rejected.  allSettled and the handler that awaits it deal  *)
(* with that; of noticeToSomeUsers nobody does, which may end the process. *)
Rejected(j) ==
  \/ jobs' = jobs \ {j} /\ UNCHANGED <<tabs, leaving, ended>>
  \/ batches[j.batch] = "some" /\ ProcessEnds(jobs \ {j})

(* The database fails, or the notice was deleted before it is read again:  *)
(* the gateway reads the account of null.                                  *)
CreateAndSendFails(j) ==
  /\ j \in jobs
  /\ failed' = failed \cup {Key(j)}
  /\ Rejected(j)
  /\ UNCHANGED <<users, notices, batches>>

HandleConnection(t) ==
  /\ ~tabs[t].open
  /\ tabs' = [tabs EXCEPT ![t] = [Closed EXCEPT !.open = TRUE]]
  /\ UNCHANGED <<users, leaving, notices, batches, jobs, failed, ended>>

HandleDisconnect(t) ==
  /\ tabs[t].open
  /\ tabs' = [tabs EXCEPT ![t] = Closed]
  /\ UNCHANGED <<users, leaving, notices, batches, jobs, failed, ended>>

(* A tab asks for what is not viewed, after its socket is connected.       *)
GetNotViewedByAccount(t) ==
  /\ tabs[t].open
  /\ UserOf[t] \in users
  /\ tabs' = [tabs EXCEPT ![t].listed = TRUE,
                ![t].seen = @ \cup {Key(n) : n \in {k \in NoticesOf(UserOf[t]) : ~k.viewed}}]
  /\ UNCHANGED <<users, leaving, notices, batches, jobs, failed, ended>>

Viewed(ns) ==
  /\ notices' = (notices \ ns) \cup {[n EXCEPT !.viewed = TRUE] : n \in ns}
  /\ UNCHANGED <<users, leaving, batches, jobs, tabs, failed, ended>>

MaskAsRead(n) == n \in notices /\ Viewed({n})
ClearAllByAccount(u) == u \in users /\ Viewed(NoticesOf(u))

(* requestDelete: the notices, and then the account.                       *)
DeleteNotices(u) ==
  /\ u \in users \ leaving
  /\ leaving' = leaving \cup {u}
  /\ notices' = notices \ NoticesOf(u)
  /\ UNCHANGED <<users, batches, jobs, tabs, failed, ended>>

DeleteAccount(u) ==
  /\ u \in leaving
  /\ leaving' = leaving \ {u}
  /\ users' = users \ {u}
  /\ UNCHANGED <<notices, batches, jobs, tabs, failed, ended>>

NoticesRestart ==
  /\ ProcessEnds(jobs)
  /\ UNCHANGED <<users, notices, batches, failed>>

(* Variant: pushed first, stored afterwards.                               *)
SendAndCreate(j) ==
  LET n == [batch |-> j.batch, account |-> j.account, viewed |-> FALSE]
  IN  /\ j \in jobs
      /\ IF j.pc = "create"
         THEN /\ tabs' = Pushed(n) /\ UNCHANGED notices
              /\ jobs' = (jobs \ {j}) \cup {[j EXCEPT !.pc = "find"]}
         ELSE /\ notices' = notices \cup {n} /\ UNCHANGED tabs
              /\ jobs' = jobs \ {j}
      /\ UNCHANGED <<users, leaving, batches, failed, ended>>

CreateAndSend(j) == NoticeInsert(j) \/ NoticeFind(j) \/ CreateAndSendFails(j)

NoticesNext ==
  \/ NoticeToAllUsers
  \/ \E ids \in (SUBSET Users) \ {{}} : NoticeToSomeUsers(ids)
  \/ \E j \in jobs : CreateAndSend(j)
  \/ \E t \in Tabs : HandleConnection(t) \/ HandleDisconnect(t) \/ GetNotViewedByAccount(t)
  \/ \E n \in notices : MaskAsRead(n)
  \/ \E u \in Users :
       NoticeToUser(u) \/ ClearAllByAccount(u) \/ DeleteNotices(u) \/ DeleteAccount(u)

(* Promises in flight go on.                                               *)
NoticesFairness ==
  \A u \in Users : WF_noticeVars(\E j \in jobs : j.account = u /\ CreateAndSend(j))

NoticesSpec == NoticesInit /\ [][NoticesNext]_noticeVars /\ NoticesFairness
-----------------------------------------------------------------------------
(* A notice is stored before it is pushed, so a tab that connects and then *)
(* lists misses none: what is stored, not viewed and no longer in flight   *)
(* was either listed or pushed to it, in whatever order things happen.     *)
OpenTabMissesNothing ==
  \A t \in Tabs : tabs[t].open /\ tabs[t].listed =>
    \A n \in NoticesOf(UserOf[t]) :
      \/ n.viewed \/ Key(n) \in failed \/ Key(n) \in tabs[t].seen
      \/ \E j \in jobs : Key(j) = Key(n)

(* Each notice of a request is stored, unless its own job was rejected or  *)
(* the process ended while it was in flight.  A rejection takes no other   *)
(* job along, but for the one case that nobody handles: in a request of    *)
(* noticeToSomeUsers it may end the process, and with it the jobs of all.  *)
NoticeIsStored ==
  \A b \in 1 .. MaxBatches, u \in Users :
    (\E j \in jobs : Key(j) = <<b, u>> /\ j.pc = "create") ~>
      \/ \E n \in notices : Key(n) = <<b, u>>
      \/ <<b, u>> \in failed \cup ended
=============================================================================
