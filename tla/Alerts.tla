------------------------------- MODULE Alerts -------------------------------
(***************************************************************************)
(* The alert rules and what Discord gets of one kind of event of one       *)
(* player, that he left.  Several handlers of the control plane may notice *)
(* it: the one of the game's log, the one of the list of players.          *)
(***************************************************************************)
EXTENDS Integers, FiniteSets

CONSTANTS
    Rules, Sources, None,
    Quiet,     \* the 15 seconds without a second announcement
    RateLimit, RateWindow, Attempts,   \* discord.constants.ts
    MaxNow, MaxRestarts                \* bounds

AlertsAssumption ==
    /\ IsFiniteSet(Sources) /\ None \notin Nat
    /\ Quiet \in Nat \ {0} /\ RateLimit \in Nat \ {0} /\ RateWindow \in Nat \ {0}
    /\ Attempts \in Nat \ {0} /\ MaxNow \in Nat /\ MaxRestarts \in Nat

VARIABLES
    now,
    rules,     \* the rules for this event: "on", "off" or None
    shown,     \* what the Alerts page shows of them
    recent,    \* recentPlayerLifecycleAlerts: when it was announced last, or None
    bucket,    \* rateLimitMap: requests in the window, and its start
    sending,   \* sendMatchingRules, for each source
    got,       \* messages in the Discord channel of each rule
    restarts

vars == <<now, rules, shown, recent, bucket, sending, got, restarts>>

NoBucket == [count |-> 0, since |-> 0]
Idle     == [stage |-> "idle", rules |-> {}, rule |-> None, left |-> 0]

Init ==
    /\ now = 0 /\ rules = [r \in Rules |-> None] /\ shown = rules /\ recent = None
    /\ bucket = [r \in Rules |-> NoBucket] /\ sending = [s \in Sources |-> Idle]
    /\ got = [r \in Rules |-> 0] /\ restarts = 0

Tick == /\ now < MaxNow /\ now' = now + 1
        /\ UNCHANGED <<rules, shown, recent, bucket, sending, got, restarts>>

-----------------------------------------------------------------------------
(* The Alerts page and the rules.                                          *)

Poll == /\ shown' = rules
        /\ UNCHANGED <<now, rules, recent, bucket, sending, got, restarts>>
\* handleCreate, handleToggle and handleDelete: the database, then the page.
Write(r, value) ==
    /\ rules' = [rules EXCEPT ![r] = value]
    /\ UNCHANGED <<now, recent, bucket, sending, got, restarts>>
Create(r) == rules[r] = None /\ (\E value \in {"on", "off"} : Write(r, value)) /\ shown' = rules'
\* The page asks for the opposite of what it shows; a rule deleted since is refused.
Toggle(r) ==
    /\ shown[r] # None
    /\ IF rules[r] = None THEN UNCHANGED vars
       ELSE Write(r, IF shown[r] = "on" THEN "off" ELSE "on") /\ shown' = rules'
Delete(r) ==
    /\ shown[r] # None
    /\ IF rules[r] = None THEN UNCHANGED vars
       ELSE Write(r, None) /\ shown' = [shown EXCEPT ![r] = None]

-----------------------------------------------------------------------------
(* sendMatchingRules and DiscordService.send.                              *)

Becomes(s, new) == sending' = [sending EXCEPT ![s] = new]

\* The event is looked up and noted before anything is waited for.
Repeated == recent # None /\ now - recent < Quiet
Notice(s) ==
    /\ sending[s] = Idle /\ ~Repeated /\ recent' = now
    /\ Becomes(s, [Idle EXCEPT !.stage = "read"])
    /\ UNCHANGED <<now, rules, shown, bucket, got, restarts>>
ReadRules(s) ==
    /\ sending[s].stage = "read"
    /\ LET matching == {r \in Rules : rules[r] = "on"}
       IN  Becomes(s, IF matching = {} THEN Idle
                      ELSE [Idle EXCEPT !.stage = "send", !.rules = matching])
    /\ UNCHANGED <<now, rules, shown, recent, bucket, got, restarts>>

\* tryConsumeRateLimit
Limited(b)  == now - b.since < RateWindow /\ b.count >= RateLimit
Consumed(b) == IF b.count = 0 \/ now - b.since >= RateWindow THEN [count |-> 1, since |-> now]
               ELSE [b EXCEPT !.count = @ + 1]
Send(s) ==
    /\ sending[s].stage = "send"
    /\ \E r \in sending[s].rules :
         LET rest == sending[s].rules \ {r}
         IN  /\ Becomes(s, [Idle EXCEPT !.stage = IF Limited(bucket[r]) THEN "audit" ELSE "post",
                              !.rules = rest, !.rule = r,
                              !.left = IF Limited(bucket[r]) THEN 0 ELSE Attempts])
             /\ bucket' = IF Limited(bucket[r]) THEN bucket
                          ELSE [bucket EXCEPT ![r] = Consumed(@)]
    /\ UNCHANGED <<now, rules, shown, recent, got, restarts>>

\* One request.  Discord takes the message, or answers that it is busy, or no
\* answer comes, whether the message was taken or not; only "busy" (429 and 5xx,
\* taken to mean that Discord refused it) is retried.
RetriedAlways(outcome) == outcome # "taken"
Retried(outcome) == outcome = "busy"
Post(s) ==
    /\ sending[s].stage = "post"
    /\ \E outcome \in {"taken", "busy", "lost", "unanswered"} :
         /\ got' = IF outcome \in {"taken", "unanswered"}
                   THEN [got EXCEPT ![sending[s].rule] = @ + 1] ELSE got
         /\ Becomes(s, IF Retried(outcome) /\ sending[s].left > 1
                       THEN [sending[s] EXCEPT !.left = @ - 1]
                       ELSE [sending[s] EXCEPT !.stage = "audit", !.left = 0])
    /\ UNCHANGED <<now, rules, shown, recent, bucket, restarts>>
Audit(s) ==
    /\ sending[s].stage = "audit"
    /\ Becomes(s, IF sending[s].rules = {} THEN Idle
                  ELSE [sending[s] EXCEPT !.stage = "send", !.rule = None])
    /\ UNCHANGED <<now, rules, shown, recent, bucket, got, restarts>>

\* A query throws: the other rules do not get the event, which stays noted.
QueryFails(s) ==
    /\ sending[s].stage \in {"read", "audit"} /\ Becomes(s, Idle)
    /\ UNCHANGED <<now, rules, shown, recent, bucket, got, restarts>>

Restart ==
    /\ restarts < MaxRestarts /\ restarts' = restarts + 1
    /\ recent' = None /\ bucket' = [r \in Rules |-> NoBucket]
    /\ sending' = [s \in Sources |-> Idle]
    /\ UNCHANGED <<now, rules, shown, got>>

Next ==
    \/ Tick \/ Poll \/ Restart
    \/ \E r \in Rules : Create(r) \/ Toggle(r) \/ Delete(r)
    \/ \E s \in Sources : Notice(s) \/ ReadRules(s) \/ Send(s) \/ Post(s) \/ Audit(s) \/ QueryFails(s)

Spec == Init /\ [][Next]_vars

-----------------------------------------------------------------------------
\* However many handlers notice it and whatever Discord answers, a rule posts
\* the event once in 15 seconds, but for a restart: CHANGELOG.md:145.
PostedOncePerWindow == \A r \in Rules : got[r] <= 1 + now \div Quiet + restarts
=============================================================================
