----------------------------- MODULE TelegramBot -----------------------------
(***************************************************************************)
(* Messages to the bot.  Telegram keeps an update until the bot asks for   *)
(* later ones or answers its delivery; the bot remembers the last one it   *)
(* took in memory only.                                                    *)
(***************************************************************************)
EXTENDS Integers

CONSTANTS MaxUpdates   \* bound on the updates ever sent

ASSUME BotAssumption == MaxUpdates \in Nat

VARIABLES mode,           \* polling (MODE=dev) or webhook
          sent,           \* updates sent to the bot are 1 .. sent
          pending,        \* the ones Telegram still keeps
          lastUpdateId,
          batch,          \* the answer of getUpdates, what is left of it
          handling,       \* updates whose handler runs
          done            \* history: updates whose handler has ended

botVars == <<mode, sent, pending, lastUpdateId, batch, handling, done>>

BotInit ==
  /\ mode \in {"polling", "webhook"}
  /\ sent = 0
  /\ pending = {}
  /\ lastUpdateId = 0
  /\ batch = {}
  /\ handling = {}
  /\ done = {}

UserSends ==
  /\ sent < MaxUpdates
  /\ sent' = sent + 1
  /\ pending' = pending \cup {sent + 1}
  /\ UNCHANGED <<mode, lastUpdateId, batch, handling, done>>

(* Variant: one too far.                                                   *)
Skipping == lastUpdateId + 2
Offset == lastUpdateId + 1

(* getUpdates: Telegram forgets what is before the offset.  When it cannot *)
(* be reached the loop asks again.                                         *)
GetUpdates ==
  LET kept == {u \in pending : u >= Offset}
  IN  /\ mode = "polling"
      /\ batch = {} /\ handling = {}
      /\ kept # {} \/ kept # pending
      /\ pending' = kept
      /\ batch' = kept
      /\ UNCHANGED <<mode, sent, lastUpdateId, handling, done>>

(* getUpdates, but the answer is lost.                                     *)
AnswerLost ==
  /\ mode = "polling"
  /\ batch = {} /\ handling = {}
  /\ pending' = {u \in pending : u >= Offset}
  /\ UNCHANGED <<mode, sent, lastUpdateId, batch, handling, done>>

(* The first that is left: the offset moves, then it is handled.           *)
TakeUpdate ==
  /\ handling = {}
  /\ \E u \in batch :
       /\ \A v \in batch : u <= v
       /\ lastUpdateId' = IF u > lastUpdateId THEN u ELSE lastUpdateId
       /\ handling' = {u}
       /\ batch' = batch \ {u}
  /\ UNCHANGED <<mode, sent, pending, done>>

(* handleUpdate ends, by an answer or by an error that it catches.         *)
Handled ==
  /\ mode = "polling"
  /\ handling # {}
  /\ done' = done \cup handling
  /\ handling' = {}
  /\ UNCHANGED <<mode, sent, pending, lastUpdateId, batch>>

(* Telegram posts an update to the webhook.                                *)
Webhook(u) ==
  /\ mode = "webhook"
  /\ u \in pending \ handling
  /\ handling' = handling \cup {u}
  /\ UNCHANGED <<mode, sent, pending, lastUpdateId, batch, done>>

(* Variant: answered first, handled later.                                 *)
AnswerFirst(u) ==
  /\ mode = "webhook"
  /\ u \in handling
  /\ \/ u \in pending /\ pending' = pending \ {u} /\ UNCHANGED <<handling, done>>
     \/ /\ u \notin pending /\ UNCHANGED pending
        /\ handling' = handling \ {u} /\ done' = done \cup {u}
  /\ UNCHANGED <<mode, sent, lastUpdateId, batch>>

(* It is answered when handleUpdate has ended; when the answer is lost,    *)
(* Telegram posts the update again.                                        *)
WebhookAnswered(u) ==
  /\ mode = "webhook"
  /\ u \in handling
  /\ handling' = handling \ {u}
  /\ done' = done \cup {u}
  /\ pending' \in {pending, pending \ {u}}
  /\ UNCHANGED <<mode, sent, lastUpdateId, batch>>

BotRestart ==
  /\ lastUpdateId' = 0
  /\ batch' = {}
  /\ handling' = {}
  /\ UNCHANGED <<mode, sent, pending, done>>

BotNext ==
  \/ UserSends \/ GetUpdates \/ AnswerLost \/ TakeUpdate \/ Handled
  \/ \E u \in 1 .. sent : Webhook(u) \/ WebhookAnswered(u)

(* Telegram can be reached now and then, and handlers end.                 *)
BotFairness ==
  /\ WF_botVars(GetUpdates \/ TakeUpdate \/ Handled)
  /\ \A u \in 1 .. MaxUpdates : WF_botVars(Webhook(u) \/ WebhookAnswered(u))

BotSpec == BotInit /\ [][BotNext]_botVars /\ BotFairness
-----------------------------------------------------------------------------
(* Telegram forgets no update that was not handled to its end, wherever    *)
(* the process dies: then the update comes again, perhaps a second time.   *)
ForgottenWasHandled == (1 .. sent) \ pending \subseteq done

(* Every message to the bot is handled some time.                          *)
EveryUpdateHandled == \A u \in 1 .. MaxUpdates : (u <= sent) ~> (u \in done)
=============================================================================
