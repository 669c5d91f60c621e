------------------------------ MODULE MCPages -------------------------------
(***************************************************************************)
(* Three pages of the dashboard for TLC.  What holds while each runs alone *)
(* holds while they run together: a run picks one.                         *)
(***************************************************************************)
EXTENDS Pages, TLC

VARIABLE page

historyVars == <<hNow, history, hStored, live, index, window, tracked, drawn, cut>>
logVars == <<lNow, rows, lStored, pruning, lastPrune, retention, serverId, view, latest,
             paused, fetch, crossed, broken>>

\* A world whose sides are no multiples of four; more polls of the history than
\* are kept, a retention longer than its timeframes; four rows of two servers.
MCSizes == {<<10, 11>>}

\* The sixteen sections divide every world of 10 to 40 blocks a side.
ASSUME \A blocks \in 10..40 : SectionsTile(blocks)

Symmetry == {p @@ s : p \in Permutations(Players), s \in Permutations(Servers)}

PagesInit ==
    /\ page \in {"map", "history", "logs"}
    /\ Init /\ H!Init /\ L!Init
    /\ page # "map" => ~online

PagesNext ==
    /\ UNCHANGED page
    /\ \/ page = "map"     /\ Next   /\ UNCHANGED <<historyVars, logVars>>
       \/ page = "history" /\ H!Next /\ UNCHANGED <<vars, logVars>>
       \/ page = "logs"    /\ L!Next /\ UNCHANGED <<vars, historyVars>>

PagesSpec == PagesInit /\ [][PagesNext]_<<page, vars, historyVars, logVars>>
=============================================================================
