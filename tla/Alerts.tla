-------------------------------- MODULE Alerts --------------------------------
(***************************************************************************)
(* Server errors on their way to the administrators: GlobalExceptionFilter *)
(* with its cooldown per error, TelegramAdminService, and the debounce of  *)
(* TelegramBaseService per chat and beginning of a text.  Both memories    *)
(* are maps of the process.  Time is in minutes.                           *)
(***************************************************************************)
EXTENDS Integers, Sequences

CONSTANTS AdminChats,   \* chats of the administrators
          Errors,       \* [key, head]: what the cooldown and what the debounce see
          Handlers,     \* slots for failed requests in flight
          DEBOUNCE_TIME, KeepFor, ERROR_COOLDOWN,
          MaxSent,      \* how many errors the filter remembers
          MaxTime,      \* bound on the clock
          None

ASSUME AlertsAssumption ==
  /\ DEBOUNCE_TIME \in Nat \ {0} /\ KeepFor \in Nat /\ ERROR_COOLDOWN \in Nat
  /\ DEBOUNCE_TIME <= KeepFor
  /\ MaxSent \in Nat \ {0} /\ None \notin Nat

VARIABLES messageCache,   \* when a text was last let through to a chat
          sentErrors,     \* the map of the filter, in the order of insertion
          alert,          \* failed requests whose answer waits for Telegram
          now,
          lastPost,       \* history: when a text was last posted to a chat
          tooSoon         \* history: a text was posted twice in a minute

alertVars == <<messageCache, sentErrors, alert, now, lastPost, tooSoon>>

Heads == {e.head : e \in Errors}

(* failed tells, as a history, that the administrators could not be read.  *)
NoAlert == [pc |-> "idle", error |-> None, failed |-> FALSE, waiting |-> {}, since |-> 0]

AlertsInit ==
  /\ messageCache = [m \in AdminChats \X Heads |-> None]
  /\ sentErrors = <<>>
  /\ alert = [h \in Handlers |-> NoAlert]
  /\ now = 0
  /\ lastPost = [m \in AdminChats \X Heads |-> None]
  /\ tooSoon = FALSE

Recently(key) ==
  \E k \in DOMAIN sentErrors :
    sentErrors[k].key = key /\ now - sentErrors[k].at < ERROR_COOLDOWN

(* A server error that was not sent recently.  Any other is answered at    *)
(* once and leaves nothing behind.                                         *)
CatchError(h, e) ==
  /\ alert[h] = NoAlert
  /\ ~Recently(e.key)
  /\ alert' = [alert EXCEPT ![h] = [NoAlert EXCEPT !.pc = "admins", !.error = e]]
  /\ UNCHANGED <<messageCache, sentErrors, now, lastPost, tooSoon>>

(* Variant: as long as the text is in the cache.                           *)
ShouldSendIfForgotten(chat, head) == messageCache[<<chat, head>>] = None

ShouldSendMessage(chat, head) ==
  messageCache[<<chat, head>>] = None \/ now - messageCache[<<chat, head>>] >= DEBOUNCE_TIME

(* Variant: stamped when the post has succeeded, as the filter does.       *)
NotStamped(posts, head) == messageCache

(* shouldSendMessage stamps what it lets through and forgets old stamps.   *)
Stamped(posts, head) ==
  [m \in DOMAIN messageCache |->
     IF m \in posts \X {head} THEN now
     ELSE IF posts # {} /\ messageCache[m] # None /\ now - messageCache[m] > KeepFor
          THEN None ELSE messageCache[m]]

(* The chats of the administrators are read (none when the query fails);   *)
(* then all posts start in one turn of the event loop.                     *)
SendToRecipients(h) ==
  LET head == alert[h].error.head
  IN  /\ alert[h].pc = "admins"
      /\ \E lost \in BOOLEAN :
           LET chats == IF lost THEN {} ELSE AdminChats
               posts == {c \in chats : ShouldSendMessage(c, head)}
           IN  /\ messageCache' = Stamped(posts, head)
               /\ lastPost' = [m \in DOMAIN lastPost |->
                    IF m \in posts \X {head} THEN now ELSE lastPost[m]]
               /\ tooSoon' = (tooSoon \/ \E c \in posts :
                    lastPost[<<c, head>>] # None /\ now - lastPost[<<c, head>>] < DEBOUNCE_TIME)
               /\ alert' = [alert EXCEPT ![h].pc = "posting", ![h].failed = lost,
                              ![h].waiting = posts, ![h].since = now]
      /\ UNCHANGED <<sentErrors, now>>

(* A post ends: delivered or not, nobody asks.                             *)
PostEnds(h, chat) ==
  /\ chat \in alert[h].waiting
  /\ alert' = [alert EXCEPT ![h].waiting = @ \ {chat}]
  /\ UNCHANGED <<messageCache, sentErrors, now, lastPost, tooSoon>>

(* A key that is there keeps its place in the map.                         *)
Remembered(key) ==
  LET entry == [key |-> key, at |-> now]
  IN  IF \E k \in DOMAIN sentErrors : sentErrors[k].key = key
      THEN [k \in DOMAIN sentErrors |->
              IF sentErrors[k].key = key THEN entry ELSE sentErrors[k]]
      ELSE Append(sentErrors, entry)

(* Mark as sent, forget the first key when there are too many, answer.     *)
MarkAndAnswer(h) ==
  LET marked == Remembered(alert[h].error.key)
  IN  /\ alert[h].pc = "posting"
      /\ alert[h].waiting = {}
      /\ sentErrors' = IF Len(marked) > MaxSent THEN Tail(marked) ELSE marked
      /\ alert' = [alert EXCEPT ![h] = NoAlert]
      /\ UNCHANGED <<messageCache, now, lastPost, tooSoon>>

AlertTick ==
  /\ now < MaxTime
  /\ now' = now + 1
  /\ UNCHANGED <<messageCache, sentErrors, alert, lastPost, tooSoon>>

(* A restart: both maps are empty, and requests in flight are gone.        *)
AlertsRestart ==
  /\ messageCache' = [m \in DOMAIN messageCache |-> None]
  /\ sentErrors' = <<>>
  /\ alert' = [h \in Handlers |-> NoAlert]
  /\ lastPost' = [m \in DOMAIN lastPost |-> None]
  /\ UNCHANGED <<now, tooSoon>>

AlertStep(h) ==
  \/ SendToRecipients(h) \/ MarkAndAnswer(h) \/ \E chat \in AdminChats : PostEnds(h, chat)

AlertsNext ==
  \/ \E h \in Handlers : AlertStep(h) \/ \E e \in Errors : CatchError(h, e)
  \/ AlertTick

AlertsSpec == AlertsInit /\ [][AlertsNext]_alertVars
-----------------------------------------------------------------------------
(* The filter marks an error after its message is sent, so that errors at  *)
(* the same time all pass its cooldown.  Still no chat is sent the same    *)
(* text twice in a minute: the debounce stamps before it posts.            *)
SameTextOncePerMinute == ~tooSoon

(* Unless the administrators could not be read, an error is about to be    *)
(* marked as sent only when the chat of each of them was posted a text     *)
(* with the same beginning, now or less than a minute ago.  (That text may *)
(* be about another error of the same request path: the beginning names    *)
(* the route.  When they could not be read, nobody is told, and the error  *)
(* is marked all the same.)                                                *)
AdministratorsWereTold ==
  \A h \in Handlers : alert[h].pc = "posting" /\ ~alert[h].failed =>
    \A c \in AdminChats :
      LET at == lastPost[<<c, alert[h].error.head>>]
      IN  at # None /\ at > alert[h].since - DEBOUNCE_TIME
=============================================================================
