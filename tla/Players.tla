------------------------------ MODULE Players ------------------------------
(***************************************************************************)
(* The roster of a server: who is online, and for which session.           *)
(*                                                                         *)
(* It has two sources.  The game's log has two lines for a player who      *)
(* enters or leaves, one with the name alone and one with the identity,    *)
(* and reaches the control plane in uploads that may be repeated.  The     *)
(* list of players (job PLAYER_LIST_SYNC) has the identities and is a      *)
(* snapshot, handled some time after it was taken.  Each has a handler,    *)
(* and the Players page has one too, which merges a row known by name into *)
(* the row known by identity.  A step of a handler is one query.           *)
(***************************************************************************)
EXTENDS Integers, Sequences, FiniteSets

CONSTANTS
    Players, Rows, None,
    MaxMoves, MaxFaults \* bounds, Rows is one too

Keys     == Players \X {"id", "name"}
Handlers == {"log", "list", "page"}

PlayersAssumption ==
    /\ None \notin Rows /\ MaxMoves \in Nat /\ MaxFaults \in Nat

VARIABLES
    inGame,    \* the game: who plays
    log,       \*   the lines about it
    acked,     \* the agent: lines uploaded
    batch,     \*   the last line of the upload that is on its way
    listing,   \*   a list taken and not yet reported, or None
    rowOf,     \* the row of Player with each key
    online,    \* the rows marked online
    open,      \* PlayerSession: the open ones of each row
    at,        \* what each handler of the control plane is doing
    moves, faults, happened

game    == <<inGame, log, moves>>
agent   == <<acked, batch, listing>>
players == <<rowOf, online, open>>
vars == <<inGame, log, acked, batch, listing, rowOf, online, open, at,
          moves, faults, happened>>

Happens(kind) == happened' = happened \cup {kind}
Fault(kind)   == faults < MaxFaults /\ faults' = faults + 1 /\ Happens(kind)
NoFault       == UNCHANGED <<faults, happened>>

\* A handler at work, with what it has read; todo is what is left to do.
Work(todo) == [stage |-> "next", todo |-> todo, p |-> None, by |-> "id", kind |-> "joined",
               row |-> None, on |-> FALSE, into |-> None, intoOn |-> FALSE, seen |-> {}]
Idle == [Work({}) EXCEPT !.stage = "idle"]
Is(h, stage) == at[h].stage = stage

Init ==
    /\ inGame = {} /\ log = <<>> /\ acked = 0 /\ batch = 0 /\ listing = None
    /\ \E played \in [Players -> Rows \cup {None}] :   \* who played before
         /\ \A p, q \in Players : played[p] = played[q] => p = q \/ played[p] = None
         /\ rowOf = [k \in Keys |-> IF k[2] = "id" THEN played[k[1]] ELSE None]
    /\ online = {} /\ open = [r \in Rows |-> 0]
    /\ at = [h \in Handlers |-> Idle]
    /\ moves = 0 /\ faults = 0 /\ happened = {}

-----------------------------------------------------------------------------
(* The game and the agent.                                                 *)

\* A player enters, and the log has the name before the identity, or leaves,
\* the other way round.  A list on its way is no longer up to date.
Line(p, by) == [p |-> p, by |-> by, kind |-> IF p \in inGame THEN "left" ELSE "joined"]
Lines(p)    == IF p \in inGame THEN <<Line(p, "id"), Line(p, "name")>>
                               ELSE <<Line(p, "name"), Line(p, "id")>>
Move(p) ==
    /\ moves < MaxMoves /\ moves' = moves + 1
    /\ inGame' = IF p \in inGame THEN inGame \ {p} ELSE inGame \cup {p}
    /\ log' = log \o Lines(p)
    /\ IF listing = None /\ Is("list", "idle") THEN UNCHANGED happened ELSE Happens("disturbed")
    /\ UNCHANGED <<agent, players, at, faults>>

\* pollPlayers asks for a list; the agent's job takes it from the game.
TakeList ==
    /\ listing = None /\ Is("list", "idle") /\ listing' = inGame
    /\ UNCHANGED <<game, acked, batch, players, at, faults, happened>>

-----------------------------------------------------------------------------
(* The handlers.  What is left to do are lines, players or rows.           *)

Goes(h, new)  == at' = [at EXCEPT ![h] = new]
\* One line, player or row is done.
Fresh(h)      == [Work(at[h].todo) EXCEPT !.seen = at[h].seen]
NextOf(h)     == IF h = "page" /\ at[h].todo = {} THEN Idle ELSE Fresh(h)
Stored(r)     == \E k \in Keys : rowOf[k] = r
\* A query throws: the upload skips its other lines, a report or a page ends.
Throw(h) ==
    /\ Goes(h, IF h = "log" THEN Work({}) ELSE Idle) /\ Happens("disturbed")
    /\ UNCHANGED players

Upload ==
    /\ Is("log", "idle") /\ acked < Len(log)
    /\ batch' = IF batch > acked THEN batch ELSE Len(log)
    /\ Goes("log", Work((acked + 1)..batch'))
    /\ UNCHANGED <<game, acked, listing, players, faults, happened>>
\* The upload is answered; the answer may be lost, and the lines come again.
Answer ==
    /\ Is("log", "next") /\ at["log"].todo = {} /\ Goes("log", Idle)
    /\ \/ acked' = batch /\ NoFault
       \/ acked' = acked /\ Fault("replay")
    /\ UNCHANGED <<game, batch, listing, players>>
\* reportJobResult.  A list may know of players whose lines are not handled.
Report ==
    /\ listing # None /\ listing' = None
    /\ Goes("list", [Work(listing) EXCEPT !.seen = listing])
    /\ IF \E i \in (acked + 1)..Len(log) : log[i].kind = "joined"
       THEN Happens("disturbed") ELSE UNCHANGED happened
    /\ UNCHANGED <<game, acked, batch, players, faults>>
\* PlayersService.list
Stable == {p \in Players : rowOf[<<p, "id">>] # None}
OpenPage ==
    /\ Is("page", "idle") /\ Stable # {} /\ Goes("page", Work(Stable))
    /\ UNCHANGED <<game, agent, players, faults, happened>>

-----------------------------------------------------------------------------
(* reconcileNameFallback: its values are read before the row is changed.   *)

First(h, x) == h = "log" => \A y \in at[h].todo : x <= y
Item(h, x)  == IF h = "log" THEN log[x] ELSE [p |-> x, by |-> "id", kind |-> "joined"]
Fallback(h) ==
    /\ Is(h, "next")
    /\ \E x \in at[h].todo :
         /\ First(h, x)
         /\ LET item == Item(h, x)
                name == rowOf[<<item.p, "name">>]
                work == [Fresh(h) EXCEPT !.todo = @ \ {x},
                           !.p = item.p, !.by = item.by, !.kind = item.kind]
            IN  Goes(h, IF item.by = "id" /\ name # None
                        THEN [work EXCEPT !.stage = "canonical", !.row = name,
                                          !.on = name \in online]
                        ELSE IF h = "page" /\ at[h].todo = {x} THEN Idle
                        ELSE IF h = "page" THEN Work(at[h].todo \ {x})
                        ELSE [work EXCEPT !.stage = "existing"])
    /\ UNCHANGED <<players, happened>>

Reconciled(h) == IF h = "page" THEN NextOf(h)
                 ELSE [Fresh(h) EXCEPT !.stage = "existing", !.p = at[h].p,
                                               !.by = at[h].by, !.kind = at[h].kind]
Canonical(h) ==
    /\ Is(h, "canonical")
    /\ LET row == rowOf[<<at[h].p, "id">>]
       IN  Goes(h, [at[h] EXCEPT !.stage = IF row = None THEN "promote" ELSE "merge",
                                 !.into = row, !.intoOn = row \in online])
    /\ UNCHANGED <<players, happened>>

\* The row known by name gets the identity.
Promote(h) ==
    /\ Is(h, "promote")
    /\ LET row == at[h].row
           key == <<at[h].p, "id">>
       IN  IF Stored(row) /\ rowOf[key] \in {None, row}
           THEN /\ rowOf' = [k \in Keys |-> IF k = key THEN row
                                            ELSE IF rowOf[k] = row THEN None ELSE rowOf[k]]
                /\ Goes(h, Reconciled(h)) /\ UNCHANGED <<online, open, happened>>
           ELSE Throw(h)

\* One transaction: the sessions move, the flags are joined, the row known by
\* name goes; when another handler promoted it, the row itself.
MergedOpenDropped(row, into) == [open EXCEPT ![row] = 0]
MergedOpen(row, into) == [open EXCEPT ![into] = @ + open[row], ![row] = 0]
Merge(h) ==
    /\ Is(h, "merge")
    /\ LET row  == at[h].row
           into == at[h].into
       IN  IF Stored(row) /\ Stored(into)
           THEN /\ rowOf' = [k \in Keys |-> IF rowOf[k] = row THEN None ELSE rowOf[k]]
                /\ online' = (IF at[h].on \/ at[h].intoOn THEN online \cup {into}
                              ELSE online \ {into}) \ {row}
                /\ open' = MergedOpen(row, into)
                /\ Goes(h, Reconciled(h)) /\ UNCHANGED happened
           ELSE Throw(h)

-----------------------------------------------------------------------------
(* parsePlayers and reconcilePlayers.                                      *)

Existing(h) ==
    /\ Is(h, "existing")
    /\ LET row == rowOf[<<at[h].p, at[h].by>>]
           was == row \in online
       IN  Goes(h, IF at[h].kind = "joined"
                   THEN [at[h] EXCEPT !.stage = "enter", !.on = was]
                   ELSE IF was THEN [at[h] EXCEPT !.stage = "close", !.row = row]
                   ELSE NextOf(h))
    /\ UNCHANGED <<players, happened>>

\* A new row is one that is neither stored nor in the hands of a handler.
Unused == {r \in Rows : ~Stored(r) /\ r \notin at["list"].todo
             /\ \A h \in Handlers : r \notin {at[h].row, at[h].into}}
Enter(h) ==
    /\ Is(h, "enter")
    /\ LET key == <<at[h].p, at[h].by>>
           row == IF rowOf[key] = None THEN CHOOSE r \in Unused : TRUE ELSE rowOf[key]
       IN  /\ rowOf[key] = None => Unused # {}
           /\ rowOf' = [rowOf EXCEPT ![key] = row]
           /\ online' = online \cup {row} /\ UNCHANGED open
           /\ Goes(h, IF at[h].on THEN NextOf(h)
                      ELSE [at[h] EXCEPT !.stage = "session", !.row = row])
    /\ UNCHANGED happened
Session(h) ==
    /\ Is(h, "session")
    /\ IF Stored(at[h].row)
       THEN /\ open' = [open EXCEPT ![at[h].row] = @ + 1] /\ UNCHANGED <<rowOf, online>>
            /\ Goes(h, NextOf(h)) /\ UNCHANGED happened
       ELSE Throw(h)

\* The list closes the rows still online that it does not name, those known by
\* name among them.
MissingById(seen) == {row \in online : \E p \in Players \ seen : rowOf[<<p, "id">>] = row}
Missing(seen) == {row \in online : \A p \in seen : rowOf[<<p, "id">>] # row}
FindMissing ==
    /\ Is("list", "next") /\ at["list"].todo = {}
    /\ Goes("list", [at["list"] EXCEPT !.stage = "missing", !.todo = Missing(at["list"].seen),
                                       !.seen = {}])
    /\ UNCHANGED <<players, happened>>
Reported ==
    /\ Is("list", "missing") /\ at["list"].todo = {} /\ Goes("list", Idle)
    /\ UNCHANGED <<players, happened>>

Closes(row) == online' = online \ {row} /\ open' = [open EXCEPT ![row] = 0] /\ UNCHANGED rowOf
Close ==
    /\ Is("log", "close")
    /\ IF Stored(at["log"].row)
       THEN Closes(at["log"].row) /\ Goes("log", NextOf("log")) /\ UNCHANGED happened
       ELSE Throw("log")
CloseMissing ==
    /\ Is("list", "missing")
    /\ \E row \in at["list"].todo :
         IF Stored(row)
         THEN /\ Closes(row) /\ UNCHANGED happened
              /\ Goes("list", [at["list"] EXCEPT !.todo = @ \ {row}])
         ELSE Throw("list")

-----------------------------------------------------------------------------
Crash ==
    /\ at' = [h \in Handlers |-> Idle] /\ Fault("disturbed")
    /\ UNCHANGED <<game, agent, players>>

Step(h) ==
    /\ \/ Fallback(h) \/ Canonical(h) \/ Promote(h) \/ Merge(h)
       \/ h # "page" /\ (Existing(h) \/ Enter(h) \/ Session(h))
       \/ h = "log" /\ Close
       \/ h = "list" /\ (FindMissing \/ CloseMissing \/ Reported)
    /\ UNCHANGED <<game, agent, faults>>

Next ==
    \/ \E p \in Players : Move(p)
    \/ TakeList \/ Upload \/ Answer \/ Report \/ OpenPage
    \/ \E h \in Handlers : Step(h)
    \/ Crash

Spec == Init /\ [][Next]_vars
\* The timers of pollPlayers and of the agent's tailer, and handlers that run on.
FairSpec ==
    /\ Spec
    /\ WF_vars(TakeList) /\ WF_vars(Report) /\ WF_vars(Upload)
    /\ WF_vars(Answer) /\ WF_vars(Step("log")) /\ WF_vars(Step("list"))

-----------------------------------------------------------------------------
\* Whatever was lost, repeated or out of date, the roster comes to show who is
\* in the game, and nobody twice: the next lists put it right.
InGameOnline ==
    \A p \in Players : /\ p \in inGame <=> rowOf[<<p, "id">>] \in online
                       /\ rowOf[<<p, "name">>] \notin online
RosterCatchesUp == <>[]InGameOnline

\* Whatever rows are promoted and merged in between, a player is online exactly
\* while a session is open, and one session unless lines were repeated.  It holds
\* as long as no list was overtaken by the game or knew of a player before the
\* log, no query threw and the control plane did not restart ("disturbed").
SessionsFollowPresence ==
    ("disturbed" \notin happened /\ \A h \in Handlers : Is(h, "idle"))
      => \A r \in Rows : /\ r \in online <=> open[r] > 0
                         /\ "replay" \notin happened => open[r] <= 1

=============================================================================
