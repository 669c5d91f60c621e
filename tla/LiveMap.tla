------------------------------ MODULE LiveMap -------------------------------
(***************************************************************************)
(* Map generation ("visitmap") as the Live Map page drives it.             *)
(*                                                                         *)
(* The page polls two feeds that its decisions rest on: the entities the   *)
(* game lists over telnet, and a status which the web server derives from  *)
(* the end of the game's log.  A command goes out as an RCON job whose run *)
(* the page polls; the page gives up after a while, the job does not.      *)
(* Answers of the feeds arrive in any order.  Times are log seconds.       *)
(***************************************************************************)
EXTENDS Integers, Sequences, FiniteSets, FiniteSetsExt

CONSTANTS
    None,
    Sizes,       \* <<width, height>> that map_info.xml may give
    Total,       \* chunks of one visit
    Fresh,       \* the 30 seconds after which a silent visit is "stalled"
    LogWindow,   \* lines in the last 512 KiB of the log
    Attempts,    \* polls of a run before the page gives up (120)
    MaxNow, MaxVisits, MaxJoins, MaxSends, MaxAnswers, MaxFaults  \* bounds

\* A world of 1, 2, 3, 5, 6 or 9 blocks has no 4 x 4 division; the game's have
\* thousands of blocks.
ASSUME LiveMapAssumption ==
    /\ Sizes \subseteq {s \in Nat \X Nat : s[1] >= 10 /\ s[2] >= 10}
    /\ {Total, Fresh, LogWindow, Attempts} \subseteq Nat \ {0}

VARIABLES
    now,      \* the game's clock
    log,      \* the last LogWindow lines of server.log
    visiting, \* is the game visiting?
    done,     \* chunks it has visited
    visits,   \* visits begun so far
    begun,    \* when the last one began
    online,   \* is a player connected?
    joins,    \* connections so far
    size,     \* the dimensions in map_info.xml
    session,  \* the cookie mm_live_map_session: "none", "valid", "expired"
    loading,  \* are the requests the page makes once still out?
    server, world,   \* the page: is the server known? worldInfo
    status,   \* the page: visitStatus, with the visit it was read during
    players,  \* the page: players, with the connection it was read after
    answers,  \* answers of the feeds that have not arrived
    sending,  \* sendVisitCommand: "no", "post", "poll"; visitBusy unless "no"
    command, attempt, run,
    late,     \* commands of runs the page no longer polls
    verify,   \* stopVisitMap: the timer of its check is set
    sends, faults

gameVars == <<log, visiting, done, visits, begun, online, joins>>
pageVars == <<session, loading, server, world, status, players, answers>>
sendVars == <<sending, command, attempt, run, late, verify, sends>>
vars == <<now, log, visiting, done, visits, begun, online, joins, size, session,
          loading, server, world, status, players, answers, sending, command,
          attempt, run, late, verify, sends, faults>>

Fault == faults < MaxFaults /\ faults' = faults + 1

-----------------------------------------------------------------------------
(* The sections of a world, as the page computes them.                     *)

Ceil4(n) == (n + 3) \div 4
Low(n)   == -(n \div 2)
High(n)  == Low(n) + n - 1

\* visitX1 .. visitX2 of a column, visitZ1 .. visitZ2 of a row.
ColumnSpan(n, c) ==
    LET x1 == Low(n) + c * Ceil4(n)
        x2 == x1 + Ceil4(n) - 1
    IN  x1 .. (IF High(n) < x2 THEN High(n) ELSE x2)
RowSpan(n, r) ==
    LET z2 == High(n) - r * Ceil4(n)
        z1 == z2 - Ceil4(n) + 1
    IN  (IF Low(n) > z1 THEN Low(n) ELSE z1) .. z2

\* The sixteen sections divide a world of n blocks a side: every block lies in
\* one column and in one row, no section is empty and none leaves the world.
SectionsTile(n) ==
    LET Blocks == Low(n)..High(n)
    IN  /\ \A b \in Blocks : \E c, r \in 0..3 : b \in ColumnSpan(n, c) /\ b \in RowSpan(n, r)
        /\ \A i, j \in 0..3 : i # j =>
             /\ ColumnSpan(n, i) \cap ColumnSpan(n, j) = {}
             /\ RowSpan(n, i) \cap RowSpan(n, j) = {}
        /\ \A i \in 0..3 :
             /\ ColumnSpan(n, i) # {} /\ ColumnSpan(n, i) \subseteq Blocks
             /\ RowSpan(n, i) # {} /\ RowSpan(n, i) \subseteq Blocks

-----------------------------------------------------------------------------
(* The status the web server reads from the log.                           *)

LineKinds == {"start", "stop", "progress", "stopped", "complete", "other"}
Line(kind, chunks) == [kind |-> kind, at |-> now, done |-> chunks]

\* The log with lines appended, as far as it will be read.
Logged(lines) ==
    LET all == log \o lines
    IN  SubSeq(all, IF Len(all) > LogWindow THEN Len(all) - LogWindow + 1 ELSE 1,
               Len(all))

\* The last line of some kinds; time 0 when there is none.
NoLine == [kind |-> "other", at |-> 0, done |-> 0]
LastLine(kinds) ==
    LET at == {i \in 1..Len(log) : log[i].kind \in kinds}
    IN  IF at = {} THEN NoLine ELSE log[Max(at)]

States == {"idle", "running", "stalled", "stopped", "complete"}
Active == {"running", "stalled"}
Ends   == {"stop", "stopped", "complete"}

Over(line) == line.kind \in Ends \/ (line.kind = "progress" /\ line.done >= Total)

\* The newest line that says a visit goes on.
NewestProgress == LastLine({"progress"}).at
Newest == Max({LastLine({"start"}).at, LastLine({"progress"}).at})

Status ==
    IF LastLine({"stop"}).at >= Newest THEN "stopped"
    ELSE IF LastLine({"stopped", "complete"}).at >= Newest
    THEN LastLine({"stopped", "complete"}).kind
    ELSE IF Newest = LastLine({"progress"}).at /\ Over(LastLine({"progress"}))
    THEN "complete"
    ELSE IF now - Newest < Fresh THEN "running" ELSE "stalled"

\* What the log cannot tell: the lines of the visit have left the window, or
\* they carry no later second than the end of an earlier visit.
Blind ==
    LET says == {i \in 1..Len(log) : log[i].kind \in {"start", "progress"}}
    IN  /\ \A i \in says : log[i].at <= begun
        /\ (\E i \in says : log[i].at = begun)
              => \E i \in 1..Len(log) : Over(log[i]) /\ log[i].at = begun

-----------------------------------------------------------------------------
(* The game.                                                               *)

Init ==
    /\ now = 1 /\ log = <<>> /\ visiting = FALSE /\ done = 0
    /\ visits = 0 /\ begun = 0 /\ online \in BOOLEAN
    /\ joins = IF online THEN 1 ELSE 0
    /\ size \in Sizes
    /\ session = "none" /\ loading = FALSE /\ server = FALSE /\ world = None
    /\ status = [state |-> "idle", visit |-> 0]
    /\ players = [any |-> FALSE, join |-> 0]
    /\ answers = {}
    /\ sending = "no" /\ command = None /\ attempt = 0 /\ run = "none"
    /\ late = {} /\ verify = FALSE /\ sends = 0 /\ faults = 0

Tick ==
    /\ now < MaxNow /\ now' = now + 1
    /\ UNCHANGED <<size, faults, gameVars, pageVars, sendVars>>

EndVisit == visiting' = FALSE /\ done' = 0 /\ begun' = 0 /\ UNCHANGED visits

\* A console command reaches the game.  It starts no second visit, and it may
\* or may not say that it stopped one.
Execute(c) ==
    /\ c = "start" => visiting \/ visits < MaxVisits
    /\ CASE c = "stop" -> EndVisit
         [] c = "start" /\ visiting -> UNCHANGED <<visiting, done, visits, begun>>
         [] c = "start" /\ ~visiting -> /\ visiting' = TRUE /\ done' = 0
                                       /\ visits' = visits + 1 /\ begun' = now
    /\ \E report \in {<<>>, <<Line("stopped", 0)>>} :
         /\ report # <<>> => c = "stop" /\ visiting
         /\ log' = Logged(<<Line(c, 0)>> \o report)
    /\ UNCHANGED <<now, online, joins, size>>

Visit ==
    /\ visiting
    /\ IF done + 1 = Total THEN EndVisit
       ELSE done' = done + 1 /\ UNCHANGED <<visiting, visits, begun>>
    /\ \E report \in {<<>>, <<Line("complete", 0)>>} :
         /\ report # <<>> => done + 1 = Total
         /\ log' = Logged(<<Line("progress", done + 1)>> \o report)
    /\ UNCHANGED <<now, online, joins, size, faults, pageVars, sendVars>>

\* Anything else the game logs, and its end, which it does not log.
OtherLine ==
    /\ Fault /\ log' = Logged(<<Line("other", 0)>>)
    /\ UNCHANGED <<now, visiting, done, visits, begun, online, joins, size, pageVars, sendVars>>
GameStops ==
    /\ Fault /\ visiting /\ EndVisit
    /\ UNCHANGED <<now, log, online, joins, size, pageVars, sendVars>>

PlayerJoins ==
    /\ ~online /\ joins < MaxJoins /\ online' = TRUE /\ joins' = joins + 1
    /\ UNCHANGED <<now, log, visiting, done, visits, begun, size, faults, pageVars, sendVars>>
PlayerLeaves ==
    /\ online /\ online' = FALSE
    /\ UNCHANGED <<now, log, visiting, done, visits, begun, joins, size, faults, pageVars, sendVars>>

-----------------------------------------------------------------------------
(* The page: its session, what it loads once, and the feeds it polls.      *)

\* The session route checks the token and sets the cookie.
OpenSession ==
    /\ session = "none" /\ session' = "valid" /\ loading' = TRUE
    /\ UNCHANGED <<now, size, faults, gameVars, server, world, status, players, answers, sendVars>>

\* The cookie's hour is over; the page asks for no other.
SessionExpires ==
    /\ Fault /\ session = "valid" /\ session' = "expired"
    /\ UNCHANGED <<now, size, gameVars, loading, server, world, status, players, answers, sendVars>>

\* The registered server and the dimensions, which the page loads once: a
\* failed request is not repeated.
Load ==
    /\ loading /\ session = "valid" /\ loading' = FALSE /\ server' = TRUE /\ world' = size
    /\ UNCHANGED <<now, size, faults, gameVars, session, status, players, answers, sendVars>>
LoadFails ==
    /\ loading /\ Fault /\ loading' = FALSE
    /\ \/ server' = TRUE /\ world' = None
       \/ server' = FALSE /\ world' = size
    /\ UNCHANGED <<now, size, gameVars, session, status, players, answers, sendVars>>

StatusAnswer   == [feed |-> "visitmap-status", state |-> Status,
                   visit |-> IF Blind THEN 0 ELSE visits]
EntitiesAnswer == [feed |-> "entities-live", any |-> online, join |-> joins]

\* The web server answers a poll; a refused or failed one changes nothing.
Poll(answer) ==
    /\ session = "valid" /\ Cardinality(answers) < MaxAnswers
    /\ answers' = answers \cup {answer}
    /\ UNCHANGED <<now, size, faults, gameVars, session, loading, server, world, status, players, sendVars>>
PollStatus   == Poll(StatusAnswer)
PollEntities == Poll(EntitiesAnswer)

\* An answer arrives, not always in the order of the requests.
StatusArrives ==
    \E a \in answers :
      /\ a.feed = "visitmap-status" /\ answers' = answers \ {a}
      /\ status' = [state |-> a.state, visit |-> a.visit]
      /\ UNCHANGED <<now, size, faults, gameVars, session, loading, server, world, players, sendVars>>
EntitiesArrive ==
    \E a \in answers :
      /\ a.feed = "entities-live" /\ answers' = answers \ {a}
      /\ players' = [any |-> a.any, join |-> a.join]
      /\ UNCHANGED <<now, size, faults, gameVars, session, loading, server, world, status, sendVars>>

-----------------------------------------------------------------------------
(* The page: the two buttons.                                              *)

RunningOnly == status.state = "running"
visitRunning == status.state \in Active
RunningBlocks == visitRunning
visitBlocked == players.any \/ visitRunning
CanStart == server /\ world # None /\ sending = "no" /\ ~visitBlocked

Send(c) ==
    /\ sends < MaxSends /\ sends' = sends + 1
    /\ sending' = "post" /\ command' = c
    /\ UNCHANGED <<now, size, faults, gameVars, pageVars, attempt, run, late, verify>>
Generate     == CanStart /\ Send("start")
StopVisitMap == visitRunning /\ server /\ sending = "no" /\ Send("stop")

\* The end of sendVisitCommand, whatever its outcome; stopVisitMap then sets
\* the timer of its check.
SendEnds ==
    /\ sending' = "no" /\ command' = None /\ attempt' = 0 /\ run' = "none"
    /\ verify' = (verify \/ command = "stop") /\ UNCHANGED sends

PostRun ==
    /\ sending = "post" /\ sending' = "poll" /\ run' = "pending"
    /\ UNCHANGED <<now, size, faults, gameVars, pageVars, command, attempt, late, verify, sends>>
PostFails ==
    /\ sending = "post" /\ Fault /\ SendEnds /\ UNCHANGED late
    /\ UNCHANGED <<now, size, gameVars, pageVars>>

PollSucceeded ==
    /\ sending = "poll" /\ run = "success" /\ SendEnds
    /\ status' = IF command = "start" THEN [state |-> "running", visit |-> visits]
                                      ELSE status
    /\ UNCHANGED <<now, size, faults, gameVars, session, loading, server, world, players, answers, late>>
PollFailed ==
    /\ sending = "poll" /\ run = "failed" /\ SendEnds
    /\ UNCHANGED <<now, size, faults, gameVars, pageVars, late>>
PollAgain ==
    /\ sending = "poll" /\ run = "pending" /\ attempt + 1 < Attempts
    /\ attempt' = attempt + 1
    /\ UNCHANGED <<now, size, faults, gameVars, pageVars, sending, command, run, late, verify, sends>>
\* The attempts are used up; the job stays in its queue.
GiveUp ==
    /\ sending = "poll" /\ run = "pending" /\ attempt + 1 >= Attempts
    /\ SendEnds /\ late' = late \cup {command}
    /\ UNCHANGED <<now, size, faults, gameVars, pageVars>>

\* The agent runs the command of the page's run, or of one it gave up, or
\* fails to.
RunCommand ==
    /\ run = "pending" /\ Execute(command) /\ run' = "success"
    /\ UNCHANGED <<faults, pageVars, sending, command, attempt, late, verify, sends>>
RunLate ==
    \E c \in late :
      /\ Execute(c) /\ late' = late \ {c}
      /\ UNCHANGED <<faults, pageVars, sending, command, attempt, run, verify, sends>>
RunFails ==
    /\ run = "pending" /\ run' = "failed" /\ Fault
    /\ UNCHANGED <<now, size, gameVars, pageVars, sending, command, attempt, late, verify, sends>>

\* The check 3.5 seconds after a stop.
VerifyStop ==
    /\ verify /\ verify' = FALSE /\ session = "valid"
    /\ answers' = answers \cup {StatusAnswer}
    /\ UNCHANGED <<now, size, faults, gameVars, session, loading, server, world, status, players,
                   sending, command, attempt, run, late, sends>>

-----------------------------------------------------------------------------
Next ==
    \/ Tick \/ Visit \/ OtherLine \/ GameStops \/ PlayerJoins \/ PlayerLeaves
    \/ OpenSession \/ SessionExpires \/ Load \/ LoadFails
    \/ PollStatus \/ PollEntities \/ StatusArrives \/ EntitiesArrive
    \/ Generate \/ StopVisitMap \/ PostRun \/ PostFails
    \/ PollSucceeded \/ PollFailed \/ PollAgain \/ GiveUp
    \/ RunCommand \/ RunLate \/ RunFails \/ VerifyStop

Spec == Init /\ [][Next]_vars

-----------------------------------------------------------------------------
\* "Truthful status": while the game visits, the status read from its log is
\* "running" or "stalled", except in the seconds the log cannot tell apart and
\* once the visit's lines have left the part that is read.
StatusTruthful == visiting /\ ~Blind => Status \in Active

\* The buttons offer no second visit while the page's status was read during
\* the visit that is going on: neither a late answer of the feed, nor the
\* status the page sets itself after a command, nor a stall lifts the guard.
NoSecondVisit == visiting /\ status.visit = visits => ~CanStart

\* Map generation is offered with a player connected only to a page that has
\* had no answer of the entity feed since the player came.
PlayersHoldGeneration == online /\ players.join = joins => ~CanStart
=============================================================================
