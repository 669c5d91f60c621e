------------------------------ MODULE Discord -------------------------------
(***************************************************************************)
(* What reaches Discord: the chat of the game's log, and what the alert    *)
(* rules announce.  They share no variable, so that what holds while each  *)
(* changes alone holds while both do: a behaviour picks one.               *)
(***************************************************************************)
EXTENDS ChatLog

CONSTANTS Rules, Sources, Quiet, RateLimit, RateWindow, Attempts, MaxNow, MaxRestarts

VARIABLES part, now, rules, shown, recent, bucket, sending, got, restarts

alertVars == <<now, rules, shown, recent, bucket, sending, got, restarts>>

A == INSTANCE Alerts

ASSUME DiscordAssumption == A!AlertsAssumption

DiscordInit == part \in {"chat", "alerts"} /\ Init /\ A!Init
DiscordNext ==
    /\ UNCHANGED part
    /\ \/ part = "chat" /\ Next /\ UNCHANGED alertVars
       \/ part = "alerts" /\ A!Next /\ UNCHANGED vars
DiscordSpec == DiscordInit /\ [][DiscordNext]_<<part, vars, alertVars>>

\* A rule posts an event once in 15 seconds (Alerts).
PostedOncePerWindow == A!PostedOncePerWindow
=============================================================================
