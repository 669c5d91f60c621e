------------------------------ MODULE LogView -------------------------------
(***************************************************************************)
(* The Server Logs page: the rows it shows of the server selected.         *)
(*                                                                         *)
(* A timer asks for the rows after the last one the page has.  The control *)
(* plane orders them by the time of their creation, which several rows may *)
(* share, and old rows are pruned.  A server may be selected while a fetch *)
(* for another one is in progress, and that one's answer is shown.         *)
(***************************************************************************)
EXTENDS Integers, Sequences

CONSTANTS
    Servers, None,
    Initial, Take,  \* rows of the first and of a later answer
    Longest,        \* rows the page keeps
    Retentions, Default,  \* logRetentionDays on offer, and at first
    MaxRows, MaxNow \* bounds

LogViewAssumption ==
    /\ None \notin Servers
    /\ {Initial, Take, Longest} \subseteq Nat \ {0}
    /\ Retentions \subseteq Nat /\ Default \in Retentions

VARIABLES
    now,
    rows,       \* every row recorded: its server and createdAt; its place is its id
    stored,     \* the ids still in the table
    pruning,    \* an upload has still to prune
    lastPrune, retention,
    server,     \* serverId of the page
    view,       \* logs: the ids it shows
    latest,     \* latestLogId; 0 for none
    paused,
    fetch,      \* the fetch in progress, and its answer
    crossed,    \* an answer for another server came after the selection
    broken      \* a fetch found latestLogId gone

tableVars == <<rows, stored, pruning, lastPrune, retention>>
pageVars  == <<server, view, latest, paused, fetch, crossed, broken>>
vars == <<now, rows, stored, pruning, lastPrune, retention, server, view, latest,
          paused, fetch, crossed, broken>>

Kept(s) == {i \in stored : rows[i].server = s}
At(i)   == rows[i].at

Init ==
    /\ now = 1 /\ rows = <<>> /\ stored = {} /\ pruning = FALSE
    /\ lastPrune = 0 /\ retention = Default
    /\ server \in Servers /\ view = <<>> /\ latest = 0 /\ paused = FALSE
    /\ fetch = [of |-> server, initial |-> TRUE, after |-> 0, answer |-> None]
    /\ crossed = FALSE /\ broken = FALSE

-----------------------------------------------------------------------------
(* The control plane.                                                      *)

Tick ==
    /\ now < MaxNow /\ now' = now + 1
    /\ UNCHANGED <<tableVars, pageVars>>

\* append: the row, and at its end, after the parsers, prune.
Record(s) ==
    /\ Len(rows) < MaxRows
    /\ rows' = Append(rows, [server |-> s, at |-> now])
    /\ stored' = stored \cup {Len(rows) + 1}
    /\ pruning' = TRUE
    /\ UNCHANGED <<now, lastPrune, retention, pageVars>>

Due(r) == {i \in stored : At(i) < now - r}
Prune ==
    /\ pruning /\ pruning' = FALSE
    /\ stored' = IF now > lastPrune THEN stored \ Due(retention) ELSE stored
    /\ lastPrune' = now
    /\ UNCHANGED <<now, rows, retention, pageVars>>
\* updateSettings prunes at once.
SetRetention(r) ==
    /\ r # retention /\ retention' = r
    /\ stored' = stored \ Due(r) /\ lastPrune' = now
    /\ UNCHANGED <<now, rows, pruning, pageVars>>

\* The sequences that have each member of S once.
Ids(o) == {o[a] : a \in 1..Len(o)}
Orders(S) == {o \in UNION {[1..n -> S] : n \in 0..Len(rows)} :
                Ids(o) = S /\ \A a, b \in 1..Len(o) : o[a] = o[b] => a = b}

\* After a cursor the id orders rows of one moment; without one nothing does.
Older(i, j)   == At(i) < At(j) \/ (At(i) = At(j) /\ i < j)
OldestFirst(o) == \A a, b \in 1..Len(o) : a < b => Older(o[a], o[b])
ByTime(o)     == \A a, b \in 1..Len(o) : a < b => At(o[a]) <= At(o[b])

FirstOf(o, n) == SubSeq(o, 1, IF Len(o) > n THEN n ELSE Len(o))
LastOf(o, n)  == SubSeq(o, IF Len(o) > n THEN Len(o) - n + 1 ELSE 1, Len(o))
Oldest(S, n)  == {FirstOf(o, n) : o \in {o \in Orders(S) : OldestFirst(o)}}
Newest(S, n)  == {LastOf(o, n) : o \in {o \in Orders(S) : ByTime(o)}}

\* The rows created when the cursor was, or later.
FollowingLater(s, c) == {i \in Kept(s) : At(i) > At(c)}
Following(s, c)      == {i \in Kept(s) : At(i) >= At(c)} \ {c}

\* list: a cursor that is gone, or of another server, is ignored.
HasCursor == fetch.after \in Kept(fetch.of)
List ==
    /\ fetch # None /\ fetch.answer = None
    /\ \E answer \in (IF HasCursor THEN Oldest(Following(fetch.of, fetch.after), Take)
                      ELSE Newest(Kept(fetch.of), IF fetch.initial THEN Initial ELSE Take)) :
         fetch' = [fetch EXCEPT !.answer = answer]
    /\ broken' = (broken \/ (fetch.after # 0 /\ ~HasCursor))
    /\ UNCHANGED <<now, tableVars, server, view, latest, paused, crossed>>

-----------------------------------------------------------------------------
(* The page.                                                               *)

\* loadLogs does nothing while paused or while a fetch is in progress.
MayLoad == ~paused /\ fetch = None
Load(s, initial, after) ==
    fetch' = [of |-> s, initial |-> initial, after |-> after, answer |-> None]

\* The effect of a new serverId empties the page.
KeptView    == view
EmptiedView == <<>>
SelectServer(s) ==
    /\ s # server
    /\ server' = s /\ latest' = 0 /\ view' = EmptiedView
    /\ IF MayLoad THEN Load(s, TRUE, 0) ELSE UNCHANGED fetch
    /\ crossed' = FALSE /\ broken' = FALSE
    /\ UNCHANGED <<now, tableVars, paused>>

Poll ==
    /\ MayLoad /\ Load(server, FALSE, latest)
    /\ UNCHANGED <<now, tableVars, server, view, latest, paused, crossed, broken>>

TogglePaused ==
    /\ paused' = ~paused
    /\ UNCHANGED <<now, tableVars, server, view, latest, fetch, crossed, broken>>

\* A first answer replaces the rows shown, a later one adds those not shown yet.
NewRows(new) ==
    {o \in Orders(Ids(new) \ Ids(view)) :
       \A a, b \in 1..Len(o) : a < b =>
         \E c, d \in 1..Len(new) : c < d /\ new[c] = o[a] /\ new[d] = o[b]}
Shown(new)   == IF fetch.initial THEN {new}
                ELSE {LastOf(view \o o, Longest) : o \in NewRows(new)}
RowsArrive ==
    /\ fetch # None /\ fetch.answer # None
    /\ LET new == fetch.answer
       IN  /\ latest' = IF new = <<>> THEN latest ELSE new[Len(new)]
           /\ view' \in IF new = <<>> /\ ~fetch.initial THEN {view} ELSE Shown(new)
           /\ crossed' = (crossed \/ (fetch.of # server /\ new # <<>>))
    /\ fetch' = None
    /\ UNCHANGED <<now, tableVars, server, paused, broken>>
FetchFails ==
    /\ fetch # None /\ fetch' = None
    /\ UNCHANGED <<now, tableVars, server, view, latest, paused, crossed, broken>>

Next ==
    \/ Tick \/ Prune \/ List \/ Poll \/ TogglePaused \/ RowsArrive \/ FetchFails
    \/ \E s \in Servers : Record(s) \/ SelectServer(s)
    \/ \E r \in Retentions : SetRetention(r)

Spec == Init /\ [][Next]_vars

-----------------------------------------------------------------------------

\* The page shows rows of the server selected, and of another one only if their
\* fetch was in progress when the server was selected: loadingLogs makes the
\* page skip its own first fetch, and nothing removes the other's rows.
ShowsSelected == \A i \in Ids(view) : rows[i].server = server \/ crossed

\* Of the rows shown no earlier one is missing between two others, as long as
\* latestLogId is found: rows of the moment of the last one come with the next
\* answer, and a long answer goes on where the last one ended.
NoRowSkipped ==
    broken \/ \A i, k \in Ids(view), j \in stored :
        /\ rows[i].server = server /\ rows[j].server = server /\ rows[k].server = server
        /\ At(i) < At(j) /\ At(j) < At(k)
        => j \in Ids(view)
=============================================================================
