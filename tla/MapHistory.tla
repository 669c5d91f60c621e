----------------------------- MODULE MapHistory -----------------------------
(***************************************************************************)
(* The history a browser keeps for the Live Map: the snapshots it polls,   *)
(* what it stores of them, and the moment its slider shows.                *)
(*                                                                         *)
(* The slider holds a position in the part of the history its timeframe    *)
(* selects, and that part moves on while the slider stands still.  A page  *)
(* is drawn when its state changes, not when time passes.                  *)
(***************************************************************************)
EXTENDS Integers, Sequences

CONSTANTS
    Players, None,
    Windows,      \* the timeframes on offer, in polls
    Default,      \* the one a page opens with
    Retention,    \* HISTORY_RETENTION_MS, in polls
    MaxHistory,   \* MAX_HISTORY
    MaxNow        \* bound

MapHistoryAssumption ==
    /\ None \notin Players
    /\ Windows \subseteq Nat /\ Default \in Windows
    /\ {Retention, MaxHistory} \subseteq Nat \ {0}

VARIABLES
    now,
    history,   \* snapshots: the time and the players seen
    stored,    \* its copy in localStorage
    live,      \* the players of the last answer
    index,     \* historyIndex, from 1; Live for null
    window,    \* historyWindow
    tracked,   \* trackedPlayer
    drawn,     \* when the page was last drawn
    cut        \* when an answer last came or the page was opened

vars == <<now, history, stored, live, index, window, tracked, drawn, cut>>
Live == 0

Last(s, n) == SubSeq(s, IF Len(s) > n THEN Len(s) - n + 1 ELSE 1, Len(s))

\* The snapshots taken at time t or later.  A history is in the order of its
\* times, so that the others are the first ones.
Since(h, t) ==
    LET n == CHOOSE n \in 0..Len(h) : \A i \in 1..Len(h) : i <= n <=> h[i].at < t
    IN  SubSeq(h, n + 1, Len(h))

\* What is kept of a history at time t.
Recent(h, t) == Since(h, t - Retention + 1)
Kept(h, t)   == Last(Recent(h, t), MaxHistory)

-----------------------------------------------------------------------------
(* What the page shows.                                                    *)

Windowed == Since(history, drawn - window)
InPast   == index \in 1..Len(Windowed)
Viewed   == IF InPast THEN Windowed[index] ELSE [at |-> drawn, seen |-> live]

-----------------------------------------------------------------------------
Opens(h) ==
    /\ history = h /\ live = {} /\ index = Live /\ window = Default /\ tracked = None

Init ==
    /\ now = 1 /\ stored = <<>> /\ Opens(<<>>)
    /\ drawn = 1 /\ cut = 1

Tick ==
    /\ now < MaxNow /\ now' = now + 1
    /\ UNCHANGED <<history, stored, live, index, window, tracked, drawn, cut>>

\* The entities of a poll arrive; the storage may be full.
EntitiesArrive ==
    \E seen \in SUBSET Players :
      LET entry == [at |-> now, seen |-> seen]
      IN  /\ cut < now
          /\ history' = Kept(Append(history, entry), now)
          /\ stored' \in {history', stored}
          /\ live' = seen /\ drawn' = now /\ cut' = now
          /\ UNCHANGED <<now, index, window, tracked>>

\* The page is opened again.
Reload ==
    /\ history' = Kept(stored, now)
    /\ cut' = now /\ drawn' = now
    /\ live' = {} /\ index' = Live /\ window' = Default /\ tracked' = None
    /\ UNCHANGED <<now, stored>>

WindowKeepsIndex(w) ==
    /\ window' = w /\ drawn' = now
    /\ UNCHANGED <<now, history, stored, live, index, tracked, cut>>
SelectWindow(w) ==
    /\ window' = w /\ index' = Live /\ drawn' = now
    /\ UNCHANGED <<now, history, stored, live, tracked, cut>>

\* The slider's range is that of the page as it was drawn; its end is live.
Slide ==
    /\ Windowed # <<>>
    /\ \E n \in 1..Len(Windowed) + 1 :
         index' = IF n = Len(Windowed) + 1 THEN Live ELSE n
    /\ drawn' = now
    /\ UNCHANGED <<now, history, stored, live, window, tracked, cut>>

\* The choices are the players of the history and of the last answer.
Track(p) ==
    /\ p # None => p \in live \/ \E i \in 1..Len(history) : p \in history[i].seen
    /\ tracked' = p /\ drawn' = now
    /\ UNCHANGED <<now, history, stored, live, index, window, cut>>

Next ==
    \/ Tick \/ EntitiesArrive \/ Reload \/ Slide
    \/ \E w \in Windows : SelectWindow(w)
    \/ \E p \in Players \cup {None} : Track(p)

Spec == Init /\ [][Next]_vars

-----------------------------------------------------------------------------
\* While the slider stands still in the past, the moment it shows moves
\* forward only: new snapshots go to the end, and what leaves the timeframe
\* leaves it at the front, also when a part of it is gone for good.
PausedNeverRewinds ==
    [][index # Live /\ index' = index => Viewed'.at >= Viewed.at]_vars
=============================================================================
