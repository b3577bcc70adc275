------------------------------- MODULE Messages -------------------------------
(***************************************************************************)
(* Alerts, the bot and notices live in one process, whose end takes what   *)
(* each of them keeps in memory.  They share nothing else, so a behaviour  *)
(* follows one of them at a time.                                          *)
(***************************************************************************)
EXTENDS Alerts, TelegramBot, Notices

CONSTANTS MaxCrashes   \* bound on the ends of the process

VARIABLES part,        \* the one that is followed
          crashes

vars == <<alertVars, botVars, noticeVars, part, crashes>>

Init ==
  /\ AlertsInit /\ BotInit /\ NoticesInit
  /\ part \in {"alerts", "bot", "notices"}
  /\ part = "bot" \/ mode = "polling"
  /\ crashes = 0

(* bootstrap starts with empty maps, the first offset and no sockets.      *)
Crash ==
  /\ crashes < MaxCrashes
  /\ crashes' = crashes + 1
  /\ AlertsRestart /\ BotRestart /\ NoticesRestart
  /\ UNCHANGED part

Next ==
  \/ /\ UNCHANGED <<part, crashes>>
     /\ \/ part = "alerts" /\ AlertsNext /\ UNCHANGED <<botVars, noticeVars>>
        \/ part = "bot" /\ BotNext /\ UNCHANGED <<alertVars, noticeVars>>
        \/ part = "notices" /\ NoticesNext /\ UNCHANGED <<alertVars, botVars>>
  \/ Crash

MessagesSpec == Init /\ [][Next]_vars /\ BotFairness /\ NoticesFairness
=============================================================================
