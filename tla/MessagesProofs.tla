---------------------------- MODULE MessagesProofs ----------------------------
(***************************************************************************)
(* Theorems about Messages for any number of administrators, errors,       *)
(* failed requests, updates and ends of the process.                       *)
(***************************************************************************)
EXTENDS Messages, TLAPS

-----------------------------------------------------------------------------
(* The bot.                                                                *)

(* Every update up to the offset that Telegram still keeps was handled or  *)
(* is being handled, and the rest of an answer holds whatever Telegram     *)
(* keeps from before it.                                                   *)
BotInv ==
  /\ sent \in Nat /\ lastUpdateId \in Nat /\ lastUpdateId <= sent
  /\ pending \subseteq 1 .. sent /\ batch \subseteq 1 .. sent
  /\ ForgottenWasHandled
  /\ \A u \in pending : u <= lastUpdateId => u \in done \cup handling
  /\ \A b \in batch, u \in pending : u < b => u \in done \cup handling \cup batch

(* Nothing was sent yet.                                                  *)
LEMMA BotStarts == BotInit => BotInv
  BY DEF BotInit, BotInv, ForgottenWasHandled

(* Each step of the bot keeps it; the case of each action.                 *)
LEMMA BotStep == BotInv /\ [BotNext]_botVars => BotInv'
<1> SUFFICES ASSUME BotInv, [BotNext]_botVars
             PROVE  BotInv'
  OBVIOUS
<1> USE DEF BotInv, ForgottenWasHandled
<1>1. CASE UserSends
  <2>1. /\ sent' = sent + 1 /\ pending' = pending \cup {sent + 1}
        /\ UNCHANGED <<lastUpdateId, batch, handling, done>>
    BY <1>1 DEF UserSends
  <2>2. (1 .. sent') \ pending' = (1 .. sent) \ pending
    BY <2>1
  <2>3. \A u \in pending' : u <= lastUpdateId => u \in done \cup handling
    BY <2>1
  <2>4. \A b \in batch, u \in pending' : u < b => u \in done \cup handling \cup batch
    BY <2>1
  <2> QED
    BY <2>1, <2>2, <2>3, <2>4
<1>2. ASSUME handling = {}, pending' = {u \in pending : u >= Offset},
             UNCHANGED <<sent, lastUpdateId, handling, done>>,
             batch' \in {pending', batch}
      PROVE  BotInv'
  <2>1. \A u \in pending \ pending' : u <= lastUpdateId
    BY <1>2 DEF Offset
  <2>2. ForgottenWasHandled'
    BY <1>2, <2>1
  <2> QED
    BY <1>2, <2>2
<1>3. CASE GetUpdates \/ AnswerLost
  BY <1>2, <1>3 DEF GetUpdates, AnswerLost
<1>4. CASE TakeUpdate
  <2>1. PICK u \in batch :
          /\ \A v \in batch : u <= v
          /\ lastUpdateId' = IF u > lastUpdateId THEN u ELSE lastUpdateId
          /\ handling' = {u}
          /\ batch' = batch \ {u}
    BY <1>4 DEF TakeUpdate
  <2>2. /\ handling = {}
        /\ UNCHANGED <<mode, sent, pending, done>>
    BY <1>4 DEF TakeUpdate
  <2>3. u \in Nat
    OBVIOUS
  <2>4. \A v \in pending : v <= lastUpdateId' => v \in done \cup handling'
    BY <2>1, <2>2, <2>3
  <2>5. \A b \in batch', v \in pending : v < b => v \in done \cup handling' \cup batch'
    BY <2>1, <2>2
  <2> QED
    BY <2>1, <2>2, <2>3, <2>4, <2>5
<1>5. CASE Handled
  BY <1>5 DEF Handled
<1>6. ASSUME NEW u \in 1 .. sent, Webhook(u)
      PROVE  BotInv'
  BY <1>6 DEF Webhook
<1>7. ASSUME NEW u \in 1 .. sent, WebhookAnswered(u)
      PROVE  BotInv'
  BY <1>7 DEF WebhookAnswered
<1>8. CASE UNCHANGED botVars
  BY <1>8 DEF botVars
<1> QED
  BY <1>1, <1>2, <1>3, <1>4, <1>5, <1>6, <1>7, <1>8 DEF BotNext

(* A bot that starts again asks for everything Telegram keeps.             *)
LEMMA BotRestarts == BotInv /\ BotRestart => BotInv'
  BY DEF BotInv, BotRestart, ForgottenWasHandled

-----------------------------------------------------------------------------
(* Alerts.                                                                 *)

Marks == AdminChats \X Heads

(* A request in flight is a record with these fields.                      *)
Shaped(r) ==
  r = [pc |-> r.pc, error |-> r.error, failed |-> r.failed, waiting |-> r.waiting,
       since |-> r.since]

(* So is one that is not there.                                            *)
LEMMA NoAlertShaped == Shaped(NoAlert) /\ NoAlert.pc = "idle"
  BY DEF Shaped, NoAlert

(* The debounce remembers every post of the last minute, and what a        *)
(* request waits for was posted in the minute before it or later.          *)
AlertInv ==
  /\ now \in Nat
  /\ DOMAIN messageCache = Marks /\ DOMAIN lastPost = Marks
  /\ \A m \in Marks :
       /\ lastPost[m] \in Nat \cup {None}
       /\ lastPost[m] # None => lastPost[m] <= now
       /\ messageCache[m] \in {None, lastPost[m]}
       /\ lastPost[m] # None /\ messageCache[m] = None =>
            now - lastPost[m] >= DEBOUNCE_TIME
  /\ DOMAIN alert = Handlers
  /\ \A h \in Handlers : Shaped(alert[h])
  /\ \A h \in Handlers : alert[h].pc # "idle" =>
       /\ alert[h].error \in Errors
       /\ alert[h].since \in Nat /\ alert[h].since <= now
  /\ SameTextOncePerMinute
  /\ AdministratorsWereTold

(* No stamps, no alerts.                                                  *)
LEMMA AlertsStart == AlertsInit => AlertInv
  BY AlertsAssumption, NoAlertShaped DEF AlertsInit, AlertInv, Marks, SameTextOncePerMinute,
     AdministratorsWereTold

(* Heads are those of the errors.                                         *)
LEMMA HeadInHeads == \A e \in Errors : e.head \in Heads
  BY DEF Heads

(* A restart empties the maps and drops the requests in flight.            *)
LEMMA AlertsRestarts == AlertInv /\ AlertsRestart => AlertInv'
<1> SUFFICES ASSUME AlertInv, AlertsRestart
             PROVE  AlertInv'
  OBVIOUS
<1>1. \A m \in Marks : lastPost'[m] = None /\ messageCache'[m] = None
  BY DEF AlertInv, AlertsRestart
<1>2. \A h \in Handlers : Shaped(alert'[h]) /\ alert'[h].pc = "idle"
  BY NoAlertShaped DEF AlertsRestart
<1> QED
  BY <1>1, <1>2, AlertsAssumption DEF AlertInv, AlertsRestart, SameTextOncePerMinute,
     AdministratorsWereTold

(* The posts of a request: each text let through was last posted at least  *)
(* a minute ago, and each one held back less than a minute ago.            *)
LEMMA SendStep ==
  ASSUME AlertInv, NEW h \in Handlers, SendToRecipients(h)
  PROVE  AlertInv'
<1> DEFINE head == alert[h].error.head
<1>1. PICK lost \in BOOLEAN :
        LET chats == IF lost THEN {} ELSE AdminChats
            posts == {c \in chats : ShouldSendMessage(c, head)}
        IN  /\ messageCache' = Stamped(posts, head)
            /\ lastPost' = [m \in DOMAIN lastPost |->
                 IF m \in posts \X {head} THEN now ELSE lastPost[m]]
            /\ tooSoon' = (tooSoon \/ \E c \in posts :
                 lastPost[<<c, head>>] # None /\ now - lastPost[<<c, head>>] < DEBOUNCE_TIME)
            /\ alert' = [alert EXCEPT ![h].pc = "posting", ![h].failed = lost,
                           ![h].waiting = posts, ![h].since = now]
  BY DEF SendToRecipients
<1> DEFINE chats == IF lost THEN {} ELSE AdminChats
           posts == {c \in chats : ShouldSendMessage(c, head)}
<1>2. /\ alert[h].pc = "admins" /\ now' = now
      /\ now \in Nat /\ head \in Heads /\ chats \subseteq AdminChats
      /\ posts \subseteq AdminChats
  BY HeadInHeads DEF SendToRecipients, AlertInv
<1>3. \A c \in AdminChats : <<c, head>> \in Marks
  BY <1>2 DEF Marks
<1>4. \A c \in chats : ShouldSendMessage(c, head) =>
        lastPost[<<c, head>>] = None \/ now - lastPost[<<c, head>>] >= DEBOUNCE_TIME
  BY <1>2, <1>3, AlertsAssumption DEF AlertInv, ShouldSendMessage
<1>5. \A c \in chats : ~ShouldSendMessage(c, head) =>
        /\ lastPost[<<c, head>>] # None
        /\ lastPost[<<c, head>>] \in Nat /\ lastPost[<<c, head>>] > now - DEBOUNCE_TIME
  BY <1>2, <1>3, AlertsAssumption DEF AlertInv, ShouldSendMessage
<1>6. SameTextOncePerMinute'
  <2>1. ~tooSoon
    BY DEF AlertInv, SameTextOncePerMinute
  <2>2. \A c \in posts : lastPost[<<c, head>>] = None
                         \/ ~(now - lastPost[<<c, head>>] < DEBOUNCE_TIME)
    BY <1>2, <1>3, <1>4, AlertsAssumption DEF AlertInv
  <2> QED
    BY <1>1, <2>1, <2>2 DEF SameTextOncePerMinute
<1>7. \A m \in Marks : lastPost'[m] = IF m \in posts \X {head} THEN now ELSE lastPost[m]
  BY <1>1 DEF AlertInv
<1>8. \A m \in Marks :
        messageCache'[m] =
          IF m \in posts \X {head} THEN now
          ELSE IF posts # {} /\ messageCache[m] # None /\ now - messageCache[m] > KeepFor
               THEN None ELSE messageCache[m]
  BY <1>1 DEF AlertInv, Stamped
<1>9. DOMAIN messageCache' = Marks /\ DOMAIN lastPost' = Marks
  BY <1>1 DEF AlertInv, Stamped
<1>10. ASSUME NEW m \in Marks
       PROVE  /\ lastPost'[m] \in Nat \cup {None}
              /\ lastPost'[m] # None => lastPost'[m] <= now
              /\ messageCache'[m] \in {None, lastPost'[m]}
              /\ lastPost'[m] # None /\ messageCache'[m] = None =>
                   now - lastPost'[m] >= DEBOUNCE_TIME
  <2> DEFINE posted == m \in posts \X {head}
             old == posts # {} /\ messageCache[m] # None /\ now - messageCache[m] > KeepFor
  <2>1. /\ lastPost'[m] = IF posted THEN now ELSE lastPost[m]
        /\ messageCache'[m] = IF posted THEN now ELSE IF old THEN None ELSE messageCache[m]
    BY <1>7, <1>8
  <2>2. /\ lastPost[m] \in Nat \cup {None}
        /\ lastPost[m] # None => lastPost[m] <= now
        /\ messageCache[m] \in {None, lastPost[m]}
        /\ lastPost[m] # None /\ messageCache[m] = None =>
             now - lastPost[m] >= DEBOUNCE_TIME
    BY DEF AlertInv
  <2>3. old => messageCache[m] = lastPost[m] /\ now - lastPost[m] >= DEBOUNCE_TIME
    BY <1>2, <2>2, AlertsAssumption
  <2> HIDE DEF posted, old
  <2> QED
    BY <1>2, <2>1, <2>2, <2>3, AlertsAssumption
<1>11. DOMAIN alert' = Handlers
  BY <1>1 DEF AlertInv
<1>12. ASSUME NEW g \in Handlers, g # h
       PROVE  alert'[g] = alert[g]
  BY <1>1, <1>12 DEF AlertInv
<1>13. /\ alert'[h].pc = "posting" /\ alert'[h].error = alert[h].error
       /\ alert'[h].failed = lost /\ alert'[h].since = now /\ Shaped(alert'[h])
  <2>1. alert[h] = [pc |-> alert[h].pc, error |-> alert[h].error, failed |-> alert[h].failed,
                    waiting |-> alert[h].waiting, since |-> alert[h].since]
    BY DEF AlertInv, Shaped
  <2>2. alert'[h] = [pc |-> "posting", error |-> alert[h].error, failed |-> lost,
                     waiting |-> posts, since |-> now]
    BY <1>1, <2>1 DEF AlertInv
  <2> QED
    BY <2>2 DEF Shaped
<1>14. ASSUME NEW g \in Handlers, alert'[g].pc # "idle"
       PROVE  /\ alert'[g].error \in Errors
              /\ alert'[g].since \in Nat /\ alert'[g].since <= now
  BY <1>2, <1>12, <1>13, <1>14 DEF AlertInv
<1>15. AdministratorsWereTold'
  <2> SUFFICES ASSUME NEW g \in Handlers, alert'[g].pc = "posting", ~alert'[g].failed,
                      NEW c \in AdminChats
               PROVE  LET at == lastPost'[<<c, alert'[g].error.head>>]
                      IN  at # None /\ at > alert'[g].since - DEBOUNCE_TIME
    BY DEF AdministratorsWereTold
  <2>1. alert'[g].error.head \in Heads
    BY <1>14, HeadInHeads
  <2>2. <<c, alert'[g].error.head>> \in Marks
    BY <2>1 DEF Marks
  <2>3. CASE g = h
    <3>1. lastPost'[<<c, head>>] = IF c \in posts THEN now ELSE lastPost[<<c, head>>]
      BY <1>7, <1>13, <2>2, <2>3
    <3>2. c \in chats
      BY <1>13, <2>3
    <3> QED
      BY <1>2, <1>5, <1>13, <2>3, <3>1, <3>2, AlertsAssumption
  <2>4. CASE g # h
    <3> DEFINE e == alert[g].error.head
    <3>1. /\ alert'[g] = alert[g] /\ alert[g].pc = "posting" /\ ~alert[g].failed
          /\ alert[g].since \in Nat /\ alert[g].since <= now
      BY <1>12, <2>4 DEF AlertInv
    <3>2. lastPost[<<c, e>>] # None /\ lastPost[<<c, e>>] > alert[g].since - DEBOUNCE_TIME
      BY <3>1 DEF AlertInv, AdministratorsWereTold
    <3>3. lastPost'[<<c, e>>] \in {now, lastPost[<<c, e>>]}
      BY <1>7, <2>2, <3>1
    <3> QED
      BY <1>2, <3>1, <3>2, <3>3, AlertsAssumption
  <2> QED
    BY <2>3, <2>4
<1> QED
  <2>1. \A g \in Handlers : Shaped(alert'[g])
    BY <1>12, <1>13 DEF AlertInv
  <2> QED
    BY <1>2, <1>6, <1>9, <1>10, <1>11, <1>14, <1>15, <2>1 DEF AlertInv

(* Each step of the alerts keeps it; the case of each action.              *)
LEMMA AlertStepKeeps == AlertInv /\ [AlertsNext]_alertVars => AlertInv'
<1> SUFFICES ASSUME AlertInv, [AlertsNext]_alertVars
             PROVE  AlertInv'
  OBVIOUS
<1>1. ASSUME NEW h \in Handlers, NEW e \in Errors, CatchError(h, e)
      PROVE  AlertInv'
  <2>1. alert' = [alert EXCEPT ![h] = [NoAlert EXCEPT !.pc = "admins", !.error = e]]
        /\ UNCHANGED <<messageCache, now, lastPost, tooSoon>>
    BY <1>1 DEF CatchError
  <2>2. /\ alert'[h].pc = "admins" /\ alert'[h].error = e
        /\ alert'[h].since = 0 /\ Shaped(alert'[h])
    <3>1. alert'[h] = [pc |-> "admins", error |-> e, failed |-> FALSE, waiting |-> {}, since |-> 0]
      BY <2>1 DEF NoAlert, AlertInv
    <3> QED
      BY <3>1 DEF Shaped
  <2>3. \A g \in Handlers : g # h => alert'[g] = alert[g]
    BY <2>1 DEF AlertInv
  <2>4. DOMAIN alert' = Handlers
    BY <2>1 DEF AlertInv
  <2>5. \A g \in Handlers : alert'[g].pc # "idle" =>
          /\ alert'[g].error \in Errors
          /\ alert'[g].since \in Nat /\ alert'[g].since <= now
    BY <2>2, <2>3 DEF AlertInv
  <2>6. \A g \in Handlers : alert'[g].pc = "posting" => alert'[g] = alert[g]
    BY <2>2, <2>3
  <2>7. \A g \in Handlers : Shaped(alert'[g])
    BY <2>2, <2>3 DEF AlertInv
  <2> QED
    BY <2>1, <2>4, <2>5, <2>6, <2>7 DEF AlertInv, SameTextOncePerMinute, AdministratorsWereTold
<1>2. ASSUME NEW h \in Handlers, SendToRecipients(h)
      PROVE  AlertInv'
  BY <1>2, SendStep
<1>3. ASSUME NEW h \in Handlers, NEW chat \in AdminChats, PostEnds(h, chat)
      PROVE  AlertInv'
  <2>1. /\ alert' = [alert EXCEPT ![h].waiting = @ \ {chat}]
        /\ UNCHANGED <<messageCache, now, lastPost, tooSoon>>
    BY <1>3 DEF PostEnds
  <2>2. DOMAIN alert' = Handlers
    BY <2>1 DEF AlertInv
  <2>3. \A g \in Handlers :
          /\ alert'[g].pc = alert[g].pc /\ alert'[g].error = alert[g].error
          /\ alert'[g].failed = alert[g].failed /\ alert'[g].since = alert[g].since
          /\ Shaped(alert'[g])
    <3>1. \A g \in Handlers : g # h => alert'[g] = alert[g]
      BY <2>1 DEF AlertInv
    <3>2. alert[h] = [pc |-> alert[h].pc, error |-> alert[h].error, failed |-> alert[h].failed,
                      waiting |-> alert[h].waiting, since |-> alert[h].since]
      BY DEF AlertInv, Shaped
    <3>3. alert'[h] = [pc |-> alert[h].pc, error |-> alert[h].error,
                       failed |-> alert[h].failed,
                       waiting |-> alert[h].waiting \ {chat}, since |-> alert[h].since]
      BY <2>1, <3>2 DEF AlertInv
    <3>4. Shaped(alert'[h])
      BY <3>3 DEF Shaped
    <3> QED
      BY <3>1, <3>3, <3>4 DEF AlertInv
  <2>4. \A g \in Handlers : Shaped(alert'[g])
    BY <2>3
  <2>5. \A g \in Handlers : alert'[g].pc # "idle" =>
          /\ alert'[g].error \in Errors
          /\ alert'[g].since \in Nat /\ alert'[g].since <= now
    BY <2>3 DEF AlertInv
  <2>6. AdministratorsWereTold'
    BY <2>1, <2>3 DEF AlertInv, AdministratorsWereTold
  <2> QED
    BY <2>1, <2>2, <2>4, <2>5, <2>6 DEF AlertInv, SameTextOncePerMinute
<1>4. ASSUME NEW h \in Handlers, MarkAndAnswer(h)
      PROVE  AlertInv'
  <2>1. /\ alert' = [alert EXCEPT ![h] = NoAlert]
        /\ UNCHANGED <<messageCache, now, lastPost, tooSoon>>
    BY <1>4 DEF MarkAndAnswer
  <2>2. DOMAIN alert' = Handlers
    BY <2>1 DEF AlertInv
  <2>3. \A g \in Handlers : alert'[g].pc # "idle" => alert'[g] = alert[g]
    BY <2>1, NoAlertShaped DEF AlertInv
  <2>4. \A g \in Handlers : Shaped(alert'[g])
    BY <2>1, NoAlertShaped DEF AlertInv
  <2> QED
    BY <2>1, <2>2, <2>3, <2>4 DEF AlertInv, SameTextOncePerMinute, AdministratorsWereTold
<1>5. CASE AlertTick
  BY <1>5, AlertsAssumption DEF AlertTick, AlertInv, SameTextOncePerMinute,
     AdministratorsWereTold
<1>6. CASE UNCHANGED alertVars
  BY <1>6 DEF alertVars, AlertInv, SameTextOncePerMinute, AdministratorsWereTold
<1> QED
  BY <1>1, <1>2, <1>3, <1>4, <1>5, <1>6 DEF AlertsNext, AlertStep

-----------------------------------------------------------------------------
(* Notices.                                                                *)

NoticesOK ==
  /\ DOMAIN tabs = Tabs /\ \A t \in Tabs : DOMAIN tabs[t] = DOMAIN Closed
  /\ \A j \in jobs : DOMAIN j = {"batch", "account", "pc"}
  /\ \A n \in notices : DOMAIN n = {"batch", "account", "viewed"}

(* The invariant says no more than the property and the shape of the       *)
(* records: a notice counts as on its way until it was pushed.             *)
NoticesInv == NoticesOK /\ OpenTabMissesNothing

(* Nothing is stored, and no tab is open.                                  *)
LEMMA NoticesStart == NoticesInit => NoticesInv
  BY DEF NoticesInit, NoticesInv, NoticesOK, OpenTabMissesNothing, NoticesOf, Closed

(* Closed tabs have missed nothing.                                        *)
LEMMA ClosedMissNothing ==
  ASSUME NoticesOK, tabs' = [t \in Tabs |-> Closed], jobs' \subseteq jobs,
         notices' = notices
  PROVE  NoticesInv'
  BY DEF NoticesInv, NoticesOK, OpenTabMissesNothing, Closed

(* What is on its way to a notice keeps its key.                           *)
LEMMA InsertMissesNothing ==
  ASSUME NoticesInv, NEW j, NoticeInsert(j)
  PROVE  NoticesInv'
<1> DEFINE k == [j EXCEPT !.pc = "find"]
           n == [batch |-> j.batch, account |-> j.account, viewed |-> FALSE]
<1>1. /\ j \in jobs /\ notices' = notices \cup {n} /\ jobs' = (jobs \ {j}) \cup {k}
      /\ UNCHANGED <<tabs, failed>>
  BY DEF NoticeInsert
<1>2. DOMAIN j = {"batch", "account", "pc"}
  BY <1>1 DEF NoticesInv, NoticesOK
<1>3. /\ DOMAIN k = {"batch", "account", "pc"} /\ Key(k) = Key(j)
      /\ DOMAIN n = {"batch", "account", "viewed"} /\ Key(n) = Key(j)
  BY <1>2 DEF Key
<1> HIDE DEF k, n
<1>4. NoticesOK'
  BY <1>1, <1>3 DEF NoticesInv, NoticesOK
<1>5. \A i \in jobs : \E m \in jobs' : Key(m) = Key(i)
  BY <1>1, <1>3
<1>6. \E m \in jobs' : Key(m) = Key(n)
  BY <1>1, <1>3
<1>7. OpenTabMissesNothing'
  <2> SUFFICES ASSUME NEW t \in Tabs, tabs[t].open, tabs[t].listed,
                      NEW m \in notices', m.account = UserOf[t]
               PROVE  \/ m.viewed \/ Key(m) \in failed \/ Key(m) \in tabs[t].seen
                      \/ \E i \in jobs' : Key(i) = Key(m)
    BY <1>1 DEF OpenTabMissesNothing, NoticesOf
  <2>1. CASE m = n
    BY <1>6, <2>1
  <2>2. CASE m \in notices
    BY <1>5, <2>2 DEF NoticesInv, OpenTabMissesNothing, NoticesOf
  <2> QED
    BY <1>1, <2>1, <2>2
<1> QED
  BY <1>4, <1>7 DEF NoticesInv

(* A notice that leaves the way was pushed to every open tab of its user.  *)
LEMMA PushMissesNothing ==
  ASSUME NoticesInv, NEW j, NoticeFind(j)
  PROVE  NoticesInv'
<1>1. PICK n \in notices : /\ n.account = j.account /\ n.batch = j.batch
                           /\ tabs' = Pushed(n)
  BY DEF NoticeFind, NoticesOf
<1>2. /\ j \in jobs /\ jobs' = jobs \ {j} /\ UNCHANGED <<notices, failed>>
      /\ Key(n) = Key(j)
  BY <1>1 DEF NoticeFind, Key
<1>3. ASSUME NEW t \in Tabs
      PROVE  /\ DOMAIN tabs'[t] = DOMAIN Closed
             /\ tabs'[t].open = tabs[t].open /\ tabs'[t].listed = tabs[t].listed
             /\ tabs[t].seen \subseteq tabs'[t].seen
             /\ tabs[t].open /\ UserOf[t] = j.account => Key(n) \in tabs'[t].seen
  BY <1>1 DEF Pushed, NoticesInv, NoticesOK, Closed
<1>4. NoticesOK'
  <2>1. DOMAIN tabs' = Tabs
    BY <1>1 DEF Pushed
  <2> QED
    BY <1>2, <1>3, <2>1 DEF NoticesInv, NoticesOK
<1>5. OpenTabMissesNothing'
  <2> SUFFICES ASSUME NEW t \in Tabs, tabs'[t].open, tabs'[t].listed,
                      NEW m \in notices, m.account = UserOf[t]
               PROVE  \/ m.viewed \/ Key(m) \in failed \/ Key(m) \in tabs'[t].seen
                      \/ \E i \in jobs' : Key(i) = Key(m)
    BY <1>2 DEF OpenTabMissesNothing, NoticesOf
  <2>1. tabs[t].open /\ tabs[t].listed
    BY <1>3
  <2>2. \/ m.viewed \/ Key(m) \in failed \/ Key(m) \in tabs[t].seen
        \/ \E i \in jobs : Key(i) = Key(m)
    BY <2>1 DEF NoticesInv, OpenTabMissesNothing, NoticesOf
  <2>3. CASE Key(m) = Key(j)
    BY <1>1, <1>2, <1>3, <2>1, <2>3 DEF Key
  <2>4. CASE Key(m) # Key(j)
    BY <1>2, <1>3, <2>2, <2>4
  <2> QED
    BY <2>3, <2>4
<1> QED
  BY <1>4, <1>5 DEF NoticesInv

(* A failure is remembered, and the end of the process closes every tab.   *)
LEMMA FailureMissesNothing ==
  ASSUME NoticesInv, NEW j, CreateAndSendFails(j)
  PROVE  NoticesInv'
<1>1. j \in jobs /\ failed' = failed \cup {Key(j)} /\ UNCHANGED notices
  BY DEF CreateAndSendFails
<1>2. CASE jobs' = jobs \ {j} /\ UNCHANGED tabs
  BY <1>1, <1>2 DEF NoticesInv, NoticesOK, OpenTabMissesNothing, NoticesOf, Key
<1>3. CASE ProcessEnds(jobs \ {j})
  BY <1>1, <1>3, ClosedMissNothing DEF ProcessEnds, NoticesInv
<1> QED
  BY <1>2, <1>3 DEF CreateAndSendFails, Rejected

(* A tab that lists has shown all that is stored and not viewed.           *)
LEMMA TabMissesNothing ==
  ASSUME NoticesInv, NEW t \in Tabs,
         HandleConnection(t) \/ HandleDisconnect(t) \/ GetNotViewedByAccount(t)
  PROVE  NoticesInv'
<1>1. /\ UNCHANGED <<notices, jobs, failed>> /\ DOMAIN tabs' = Tabs
      /\ \A u \in Tabs : u # t => tabs'[u] = tabs[u]
      /\ DOMAIN tabs[t] = DOMAIN Closed
  BY DEF HandleConnection, HandleDisconnect, GetNotViewedByAccount, NoticesInv, NoticesOK
<1>2. CASE HandleConnection(t) \/ HandleDisconnect(t)
  <2>1. DOMAIN tabs'[t] = DOMAIN Closed /\ ~tabs'[t].listed
    BY <1>2 DEF HandleConnection, HandleDisconnect, NoticesInv, NoticesOK, Closed
  <2> QED
    BY <1>1, <2>1 DEF NoticesInv, NoticesOK, OpenTabMissesNothing, NoticesOf
<1>3. CASE GetNotViewedByAccount(t)
  <2>1. /\ DOMAIN tabs'[t] = DOMAIN Closed
        /\ \A n \in NoticesOf(UserOf[t]) : n.viewed \/ Key(n) \in tabs'[t].seen
    BY <1>1, <1>3 DEF GetNotViewedByAccount, NoticesInv, NoticesOK, Closed
  <2>2. NoticesOK'
    BY <1>1, <2>1 DEF NoticesInv, NoticesOK
  <2>3. OpenTabMissesNothing'
    BY <1>1, <2>1 DEF NoticesInv, OpenTabMissesNothing, NoticesOf
  <2> QED
    BY <2>2, <2>3 DEF NoticesInv
<1> QED
  BY <1>2, <1>3

(* Notices that change are viewed.                                         *)
LEMMA ViewedMissNothing ==
  ASSUME NoticesInv, NEW ns \in SUBSET notices, Viewed(ns)
  PROVE  NoticesInv'
<1>1. /\ UNCHANGED <<jobs, tabs, failed>>
      /\ \A m \in notices' : m \in notices \/ \E n \in ns : m = [n EXCEPT !.viewed = TRUE]
  BY DEF Viewed
<1>2. \A m \in notices' : m \in notices \/ (m.viewed /\ DOMAIN m = {"batch", "account", "viewed"})
  BY <1>1 DEF NoticesInv, NoticesOK
<1> QED
  BY <1>1, <1>2 DEF NoticesInv, NoticesOK, OpenTabMissesNothing, NoticesOf

(* Each step of the notices keeps it.                                      *)
LEMMA NoticesStep == NoticesInv /\ [NoticesNext]_noticeVars => NoticesInv'
<1> SUFFICES ASSUME NoticesInv, [NoticesNext]_noticeVars
             PROVE  NoticesInv'
  OBVIOUS
<1>1. ASSUME NEW kind, NEW to, Send(kind, to)
      PROVE  NoticesInv'
  <2>1. /\ UNCHANGED <<notices, tabs, failed>> /\ jobs \subseteq jobs'
        /\ \A j \in jobs' \ jobs : DOMAIN j = {"batch", "account", "pc"}
    BY <1>1 DEF Send
  <2> QED
    BY <2>1 DEF NoticesInv, NoticesOK, OpenTabMissesNothing, NoticesOf
<1>2. ASSUME NEW j \in jobs, CreateAndSend(j)
      PROVE  NoticesInv'
  BY <1>2, InsertMissesNothing, PushMissesNothing, FailureMissesNothing DEF CreateAndSend
<1>3. ASSUME NEW ns \in SUBSET notices, Viewed(ns)
      PROVE  NoticesInv'
  BY <1>3, ViewedMissNothing
<1>4. ASSUME NEW u \in Users, DeleteNotices(u) \/ DeleteAccount(u)
      PROVE  NoticesInv'
  <2>1. UNCHANGED <<jobs, tabs, failed>> /\ notices' \subseteq notices
    BY <1>4 DEF DeleteNotices, DeleteAccount
  <2> QED
    BY <2>1 DEF NoticesInv, NoticesOK, OpenTabMissesNothing, NoticesOf
<1>5. CASE UNCHANGED noticeVars
  BY <1>5 DEF noticeVars, NoticesInv, NoticesOK, OpenTabMissesNothing, NoticesOf
<1>6. ASSUME NEW u \in Users
      PROVE  NoticesOf(u) \in SUBSET notices
  BY DEF NoticesOf
<1> QED
  BY <1>1, <1>2, <1>3, <1>4, <1>5, <1>6, TabMissesNothing
  DEF NoticesNext, NoticeToAllUsers, NoticeToSomeUsers, NoticeToUser, MaskAsRead,
      ClearAllByAccount

-----------------------------------------------------------------------------
(* The process: whichever part moves, and when it ends.                    *)

(* Each step is of one part, or the end of the process.                   *)
LEMMA ProcessStep ==
  ASSUME BotInv, AlertInv, NoticesInv, [Next]_vars
  PROVE  BotInv' /\ AlertInv' /\ NoticesInv'
<1>1. CASE Crash
  <2>1. NoticesInv'
    BY <1>1, ClosedMissNothing DEF Crash, NoticesRestart, ProcessEnds, NoticesInv
  <2> QED
    BY <1>1, <2>1, BotRestarts, AlertsRestarts DEF Crash
<1>2. \/ [BotNext]_botVars /\ [AlertsNext]_alertVars /\ [NoticesNext]_noticeVars
      \/ Crash
  BY DEF Next, vars
<1> QED
  BY <1>1, <1>2, BotStep, AlertStepKeeps, NoticesStep

(* The invariants of the three parts hold in every state.                  *)
LEMMA PartsHold == MessagesSpec => [](BotInv /\ AlertInv /\ NoticesInv)
<1>1. Init => BotInv /\ AlertInv /\ NoticesInv
  BY BotStarts, AlertsStart, NoticesStart DEF Init
<1>2. BotInv /\ AlertInv /\ NoticesInv /\ [Next]_vars
        => (BotInv /\ AlertInv /\ NoticesInv)'
  BY ProcessStep
<1> QED
  BY <1>1, <1>2, PTL DEF MessagesSpec

(* Telegram forgets no update that was not handled to its end, wherever    *)
(* the process ends, by polling and by webhook.                            *)
THEOREM NoUpdateForgotten == MessagesSpec => []ForgottenWasHandled
<1>1. BotInv => ForgottenWasHandled
  BY DEF BotInv
<1> QED
  BY <1>1, PartsHold, PTL

(* However many errors come at once, no chat is sent texts with the same   *)
(* beginning twice within the debounce.                                    *)
THEOREM AlertsAreDebounced == MessagesSpec => []SameTextOncePerMinute
<1>1. AlertInv => SameTextOncePerMinute
  BY DEF AlertInv
<1> QED
  BY <1>1, PartsHold, PTL

(* Unless the administrators could not be read, what the filter marks as   *)
(* sent was posted to the chat of each of them, or held back by the        *)
(* debounce because a text with the same beginning had been, less than a   *)
(* minute before.  Whether the post arrived is not asked.                  *)
THEOREM AdministratorsTold == MessagesSpec => []AdministratorsWereTold
<1>1. AlertInv => AdministratorsWereTold
  BY DEF AlertInv
<1> QED
  BY <1>1, PartsHold, PTL

(* For any number of users, tabs and requests to send, and wherever jobs   *)
(* fail or the process ends: an open tab that has listed its notices shows *)
(* each one of its user that is stored, unless it was viewed, is still on  *)
(* its way, or its job failed.                                             *)
THEOREM TabsMissNothing == MessagesSpec => []OpenTabMissesNothing
<1>1. NoticesInv => OpenTabMissesNothing
  BY DEF NoticesInv
<1> QED
  BY <1>1, PartsHold, PTL
=============================================================================
