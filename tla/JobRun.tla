------------------------------- MODULE JobRun -------------------------------
(***************************************************************************)
(* What the jobs service promises about the job runs created one by one,   *)
(* with no queue, poll, handler or process in sight: a run is created,     *)
(* started once, executed at most once and only after it was started, and  *)
(* ends with the report of its execution or, when nothing is heard of it,  *)
(* released as failed.  A late report may still replace that release; a    *)
(* release never replaces a report, and nothing undoes a success.          *)
(***************************************************************************)
CONSTANT Runs

VARIABLES
    status,    \* what the user sees: the status of each run
    executed   \* runs whose execution has begun on an agent

vars == <<status, executed>>

Init ==
    /\ status = [r \in Runs |-> "none"]
    /\ executed = {}

Becomes(r, v) == status' = [status EXCEPT ![r] = v] /\ UNCHANGED executed

Create(r) == status[r] = "none" /\ Becomes(r, "pending")

Start(r) == status[r] = "pending" /\ Becomes(r, "running")

\* The reply that hands the run over may be slow: it may be released already.
Execute(r) ==
    /\ status[r] \notin {"none", "pending"}
    /\ r \notin executed
    /\ executed' = executed \cup {r}
    /\ UNCHANGED status

Report(r, v) ==
    /\ r \in executed
    /\ status[r] \in {"running", "failed"}
    /\ Becomes(r, v)

Release(r) == status[r] = "running" /\ Becomes(r, "failed")

Next ==
    \E r \in Runs :
        \/ Create(r) \/ Start(r) \/ Execute(r) \/ Release(r)
        \/ \E v \in {"success", "failed"} : Report(r, v)

Spec == Init /\ [][Next]_vars
=============================================================================
