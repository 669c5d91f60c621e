-------------------------------- MODULE Pages -------------------------------
(***************************************************************************)
(* Three pages of the dashboard: the commands of the Live Map, its history *)
(* and the Server Logs.  They share no variable.                           *)
(***************************************************************************)
EXTENDS LiveMap

CONSTANTS
    Players, Windows, DefaultWindow, Retention, MaxHistory, MaxPolls,
    Servers, Initial, Take, Longest, Retentions, DefaultRetention,
    MaxRows, MaxMoments

VARIABLES
    hNow, history, hStored, live, index, window, tracked, drawn, cut,
    lNow, rows, lStored, pruning, lastPrune, retention, serverId, view, latest,
    paused, fetch, crossed, broken

H == INSTANCE MapHistory WITH
       now <- hNow, stored <- hStored, Default <- DefaultWindow, MaxNow <- MaxPolls
L == INSTANCE LogView WITH
       now <- lNow, stored <- lStored, server <- serverId,
       Default <- DefaultRetention, MaxNow <- MaxMoments

ASSUME PagesAssumption == H!MapHistoryAssumption /\ L!LogViewAssumption

\* A slider left in the past moves forward only (MapHistory).
PausedNeverRewinds == H!PausedNeverRewinds
\* The log page shows the server selected, but for one race (LogView).
ShowsSelected == L!ShowsSelected
\* No row is missing between rows the log page shows (LogView).
NoRowSkipped == L!NoRowSkipped
=============================================================================
