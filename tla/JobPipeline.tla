---------------------------- MODULE JobPipeline ----------------------------
(***************************************************************************)
(* The job pipeline of the Mastermind control plane and its host agents.   *)
(*                                                                         *)
(* A job run is a row in Postgres (status, result, heartbeat) and an entry *)
(* of the organisation's BullMQ queue.  The agent's poll loop asks the     *)
(* control plane for one run at a time; the poll handler claims the run by *)
(* removing it from the queue, marks it running and replies.  The agent    *)
(* executes mutations one at a time behind a gate and reads in parallel,   *)
(* reports progress while it works and the result once.  A sweeper fails   *)
(* runs whose agent stopped reporting.  A batch keeps denormalised counters*)
(* of the runs it created and may be cancelled.                            *)
(*                                                                         *)
(* Every await of a handler is a step boundary: a handler that reads a row *)
(* and writes it later is two actions, and the other handlers interleave.  *)
(***************************************************************************)
EXTENDS Integers, FiniteSets

CONSTANTS
    Hosts,      \* paired hosts, one agent process each
    Runs,       \* identities of job runs that may be created
    Batched,    \* the runs the (single) batch creates; the rest are single jobs
    HostOf,     \* [Runs -> Hosts]: the host of the run's server instance
    JobType,    \* [Runs -> STRING]: the job type of the run
    ReadLimit,  \* jobs.max_concurrent_reads of the agent
    Cancels,    \* identities of cancel requests for the batch
    MaxFaults,  \* bound: crashes, lost messages and failed Redis calls
    MaxProgress \* bound: progress reports in a behaviour

ASSUME PipelineAssumption ==
    /\ IsFiniteSet(Runs)
    /\ Batched \subseteq Runs
    /\ HostOf \in [Runs -> Hosts]
    /\ JobType \in [Runs -> STRING]
    /\ ReadLimit \in Nat \ {0}
    /\ MaxFaults \in Nat
    /\ MaxProgress \in Nat

VARIABLES
    \* Postgres and Redis
    status,     \* job_runs.status; "none" before the row exists
    outcome,    \* what job_runs.result holds
    fresh,      \* runs whose heartbeat is younger than three minutes
    queue,      \* runs waiting in the BullMQ queue
    batch,      \* job_batches.status; "none" before the row exists
    counts,     \* job_batches' counters
    \* handlers in progress in the control plane
    creating,   \* createJob / createBatch: row written, queue.add pending
    batchLeft,  \* createBatch: runs it still has to create
    polls,      \* poll requests that have not claimed a run yet
    claim,      \* where the poll handler that claimed a run is
    live,       \* claimed runs whose requesting agent still waits for the reply
    res,        \* result requests: where the handler is ...
    report,     \* ... and the status they carry
    prog,       \* progress requests
    sweep,      \* runs failStaleRunningJobs has read as stale
    cancel,     \* cancelBatch requests: where each is and its local variables
    \* the agents
    loop,       \* the poll loop: "ready" to poll or "polling"
    hand,       \* runs returned by a poll and waiting for a slot
    ex,         \* execution of a run: "no", "exec", "ended" (result submitted)
    gate,       \* the one-slot mutation gate and its mutationBusy flag
    \* history and bounds
    ran,        \* runs some agent has started to execute
    faults, progresses

dbVars      == <<status, outcome, fresh, queue>>
batchVars   == <<batch, counts>>
handlerVars == <<creating, batchLeft, polls, claim, live, res, report, prog,
                 sweep, cancel>>
agentVars   == <<loop, hand, ex, gate, ran>>
boundVars   == <<faults, progresses>>
vars == <<status, outcome, fresh, queue, batch, counts, creating, batchLeft,
          polls, claim, live, res, report, prog, sweep, cancel, loop, hand,
          ex, gate, ran, faults, progresses>>

Terminal     == {"success", "failed", "cancelled"}
RunStatus    == {"none", "pending", "running"} \cup Terminal
BatchStatus  == {"none", "running", "completed", "completed_with_failures", "cancelled"}
ClaimState   == {"no", "taken", "seen", "skip", "marked", "counted"}
ResultState  == {"no", "sent", "seen", "written", "final_ok", "final_failures"}
Idle         == [pc |-> "new", todo |-> {}, rm |-> {}, done |-> {}]
Ended        == [pc |-> "end", todo |-> {}, rm |-> {}, done |-> {}]
CancelState  == [pc : {"new", "open", "end"}, todo : SUBSET Batched,
                 rm : SUBSET Batched, done : SUBSET Batched]
\* lost = 0 while the agent waits for the reply; otherwise the number of the
\* fault that lost it, which keeps lost requests of one host apart.
Poll         == [host : Hosts, busy : BOOLEAN, lost : 0..MaxFaults]
Counters     == {"pending", "running", "success", "failed", "cancelled"}

-----------------------------------------------------------------------------
(* Classification of job types.  The two allowlists live in two programs.  *)

\* The control plane's allowlist, used when the poll says a mutation is busy.
CPReadOnly ==
    {"MOD_LIST", "MOD_QUARANTINE_LIST", "MOD_CONFIG_READ", "PROFILE_LIST",
     "PROFILE_READ", "PLAYER_LIST_SYNC", "PLAYER_ADMIN_LIST", "SAVE_LIST"}

\* The agent's allowlist, used to choose between a read slot and the gate.
AgentReadOnly ==
    {"MOD_LIST", "MOD_QUARANTINE_LIST", "MOD_CONFIG_READ", "PROFILE_LIST",
     "PROFILE_READ", "PLAYER_LIST_SYNC", "PLAYER_ADMIN_LIST", "SAVE_LIST"}

IsRead(r)     == JobType[r] \in AgentReadOnly
IsMutation(r) == ~IsRead(r)

-----------------------------------------------------------------------------
Init ==
    /\ status = [r \in Runs |-> "none"]
    /\ outcome = [r \in Runs |-> "empty"]
    /\ fresh = {}
    /\ queue = {}
    /\ batch = "none"
    /\ counts = [c \in Counters |-> 0]
    /\ creating = {}
    /\ batchLeft = {}
    /\ polls = {}
    /\ claim = [r \in Runs |-> "no"]
    /\ live = {}
    /\ res = [r \in Runs |-> "no"]
    /\ report = [r \in Runs |-> "failed"]
    /\ prog = [r \in Runs |-> "no"]
    /\ sweep = {}
    /\ cancel = [c \in Cancels |-> Idle]
    /\ loop = [h \in Hosts |-> "ready"]
    /\ hand = {}
    /\ ex = [r \in Runs |-> "no"]
    /\ gate = [h \in Hosts |-> "free"]
    /\ ran = {}
    /\ faults = 0
    /\ progresses = 0

Fault == faults < MaxFaults /\ faults' = faults + 1

-----------------------------------------------------------------------------
(* Creating runs                                                           *)

\* createJob up to the jobRun row; the checks it makes before only refuse.
CreateJob(r) ==
    /\ r \notin Batched
    /\ status[r] = "none"
    /\ status' = [status EXCEPT ![r] = "pending"]
    /\ creating' = creating \cup {r}
    /\ UNCHANGED <<outcome, fresh, queue, batchVars, batchLeft, polls, claim,
                   live, res, report, prog, sweep, cancel, agentVars,
                   boundVars>>

\* createBatch's batch row: every run is counted as pending before it exists.
CreateBatch ==
    /\ batch = "none"
    /\ Batched # {}
    /\ batch' = "running"
    /\ counts' = [counts EXCEPT !["pending"] = Cardinality(Batched)]
    /\ batchLeft' = Batched
    /\ UNCHANGED <<dbVars, creating, polls, claim, live, res, report, prog,
                   sweep, cancel, agentVars, boundVars>>

\* One turn of createBatch's loop up to the jobRun row.
CreateBatchRun(r) ==
    /\ r \in batchLeft
    /\ creating \cap Batched = {}
    /\ status' = [status EXCEPT ![r] = "pending"]
    /\ creating' = creating \cup {r}
    /\ batchLeft' = batchLeft \ {r}
    /\ UNCHANGED <<outcome, fresh, queue, batchVars, polls, claim, live, res,
                   report, prog, sweep, cancel, agentVars, boundVars>>

\* queue.add
AddJob(r) ==
    /\ r \in creating
    /\ creating' = creating \ {r}
    /\ queue' = queue \cup {r}
    /\ UNCHANGED <<status, outcome, fresh, batchVars, batchLeft, polls, claim,
                   live, res, report, prog, sweep, cancel, agentVars,
                   boundVars>>

\* queue.add throws: the request fails and the rows written so far remain.
AddJobFails(r) ==
    /\ Fault
    /\ r \in creating
    /\ creating' = creating \ {r}
    /\ batchLeft' = IF r \in Batched THEN {} ELSE batchLeft
    /\ UNCHANGED <<dbVars, batchVars, polls, claim, live, res, report, prog,
                   sweep, cancel, agentVars, progresses>>

-----------------------------------------------------------------------------
(* Polling: the agent's loop and the control plane's poll handler          *)

\* Mutant of SendPoll: the poll does not say that a mutation is busy.
SendPollNeverBusy(h) ==
    /\ loop[h] = "ready"
    /\ \A r \in hand : HostOf[r] # h
    /\ loop' = [loop EXCEPT ![h] = "polling"]
    /\ polls' = polls \cup {[host |-> h, busy |-> FALSE, lost |-> 0]}
    /\ UNCHANGED <<dbVars, batchVars, creating, batchLeft, claim, live, res,
                   report, prog, sweep, cancel, hand, ex, gate, ran,
                   boundVars>>

\* The loop is free to poll only when it holds no run it still has to start.
SendPoll(h) ==
    /\ loop[h] = "ready"
    /\ \A r \in hand : HostOf[r] # h
    /\ loop' = [loop EXCEPT ![h] = "polling"]
    /\ polls' = polls \cup {[host |-> h, busy |-> gate[h] = "held", lost |-> 0]}
    /\ UNCHANGED <<dbVars, batchVars, creating, batchLeft, claim, live, res,
                   report, prog, sweep, cancel, hand, ex, gate, ran,
                   boundVars>>

Eligible(p) ==
    {r \in queue : HostOf[r] = p.host /\ (p.busy => JobType[r] \in CPReadOnly)}

\* Mutant of ClaimJob: the entry is read, not removed.
ClaimJobKeepsEntry(p, r) ==
    /\ p \in polls
    /\ r \in Eligible(p)
    /\ polls' = polls \ {p}
    /\ claim' = [claim EXCEPT ![r] = "taken"]
    /\ live' = IF p.lost = 0 THEN live \cup {r} ELSE live
    /\ UNCHANGED <<dbVars, batchVars, creating, batchLeft, res, report, prog,
                   sweep, cancel, agentVars, boundVars>>

\* getNextJobForHost claims a run by removing it from the queue.
ClaimJob(p, r) ==
    /\ p \in polls
    /\ r \in Eligible(p)
    /\ polls' = polls \ {p}
    /\ queue' = queue \ {r}
    /\ claim' = [claim EXCEPT ![r] = "taken"]
    /\ live' = IF p.lost = 0 THEN live \cup {r} ELSE live
    /\ UNCHANGED <<status, outcome, fresh, batchVars, creating, batchLeft, res,
                   report, prog, sweep, cancel, agentVars, boundVars>>

\* Mutant of PollEmpty: an empty reply ends the loop.
PollEmptyStops(p) ==
    /\ p \in polls
    /\ Eligible(p) = {}
    /\ polls' = polls \ {p}
    /\ UNCHANGED <<dbVars, batchVars, creating, batchLeft, claim, live, res,
                   report, prog, sweep, cancel, agentVars, boundVars>>

\* Nothing to hand out: { job: null }, and the loop waits before it polls again.
PollEmpty(p) ==
    /\ p \in polls
    /\ Eligible(p) = {}
    /\ polls' = polls \ {p}
    /\ loop' = IF p.lost = 0 THEN [loop EXCEPT ![p.host] = "ready"] ELSE loop
    /\ UNCHANGED <<dbVars, batchVars, creating, batchLeft, claim, live, res,
                   report, prog, sweep, cancel, hand, ex, gate, ran,
                   boundVars>>

\* markJobRunStarted reads the run; one that is not pending is left alone.
MarkRead(r) ==
    /\ claim[r] = "taken"
    /\ claim' = [claim EXCEPT ![r] = IF status[r] = "pending" THEN "seen" ELSE "skip"]
    /\ UNCHANGED <<dbVars, batchVars, creating, batchLeft, polls, live, res,
                   report, prog, sweep, cancel, agentVars, boundVars>>

\* ... and writes it by id, whatever its status has become since.
MarkWrite(r) ==
    /\ claim[r] = "seen"
    /\ status' = [status EXCEPT ![r] = "running"]
    /\ fresh' = fresh \cup {r}
    /\ claim' = [claim EXCEPT ![r] = IF r \in Batched THEN "marked" ELSE "counted"]
    /\ UNCHANGED <<outcome, queue, batchVars, creating, batchLeft, polls, live,
                   res, report, prog, sweep, cancel, agentVars, boundVars>>

\* recordJobRunStarted
CountStarted(r) ==
    /\ claim[r] = "marked"
    /\ claim' = [claim EXCEPT ![r] = "counted"]
    /\ counts' = [counts EXCEPT !["pending"] = @ - 1, !["running"] = @ + 1]
    /\ UNCHANGED <<dbVars, batch, creating, batchLeft, polls, live, res,
                   report, prog, sweep, cancel, agentVars, boundVars>>

\* The poll's reply carries the run even when markJobRunStarted left it alone;
\* it reaches the agent only if the agent still waits for it.
PollReply(r) ==
    /\ claim[r] \in {"skip", "counted"}
    /\ claim' = [claim EXCEPT ![r] = "no"]
    /\ live' = live \ {r}
    /\ IF r \in live
       THEN /\ hand' = hand \cup {r}
            /\ loop' = [loop EXCEPT ![HostOf[r]] = "ready"]
       ELSE UNCHANGED <<hand, loop>>
    /\ UNCHANGED <<dbVars, batchVars, creating, batchLeft, polls, res, report,
                   prog, sweep, cancel, ex, gate, ran, boundVars>>

\* The agent gives the poll up (timeout, broken connection); the control plane
\* goes on with the request.
Disown(h) ==
    /\ live' = {r \in live : HostOf[r] # h}
    /\ polls' = {IF p.host = h /\ p.lost = 0
                 THEN [host |-> h, busy |-> p.busy, lost |-> faults + 1]
                 ELSE p : p \in polls}

PollFails(h) ==
    /\ Fault
    /\ loop[h] = "polling"
    /\ loop' = [loop EXCEPT ![h] = "ready"]
    /\ Disown(h)
    /\ UNCHANGED <<dbVars, batchVars, creating, batchLeft, claim, res, report,
                   prog, sweep, cancel, hand, ex, gate, ran, progresses>>

-----------------------------------------------------------------------------
(* Execution on the agent                                                  *)

ActiveReads(h) == {r \in Runs : HostOf[r] = h /\ ex[r] # "no" /\ IsRead(r)}

\* acquireRead, then a goroutine runs the job.
StartRead(r) ==
    /\ r \in hand
    /\ IsRead(r)
    /\ Cardinality(ActiveReads(HostOf[r])) < ReadLimit
    /\ hand' = hand \ {r}
    /\ ex' = [ex EXCEPT ![r] = "exec"]
    /\ ran' = ran \cup {r}
    /\ UNCHANGED <<dbVars, batchVars, handlerVars, loop, gate, boundVars>>

\* acquireMutation takes the token and raises mutationBusy.
StartMutation(r) ==
    /\ r \in hand
    /\ IsMutation(r)
    /\ gate[HostOf[r]] = "free"
    /\ hand' = hand \ {r}
    /\ ex' = [ex EXCEPT ![r] = "exec"]
    /\ gate' = [gate EXCEPT ![HostOf[r]] = "held"]
    /\ ran' = ran \cup {r}
    /\ UNCHANGED <<dbVars, batchVars, handlerVars, loop, boundVars>>

\* The ticker or the adapter reports progress; the request may be lost.
SendProgress(r) ==
    /\ ex[r] = "exec"
    /\ prog[r] = "no"
    /\ progresses < MaxProgress
    /\ progresses' = progresses + 1
    /\ prog' = [prog EXCEPT ![r] = "sent"]
    /\ UNCHANGED <<dbVars, batchVars, creating, batchLeft, polls, claim, live,
                   res, report, sweep, cancel, agentVars, faults>>

\* Mutant of Finish: the mutation gate is released before the result is sent.
FinishFreesGate(r, v) ==
    /\ ex[r] = "exec"
    /\ ex' = [ex EXCEPT ![r] = "ended"]
    /\ gate' = [gate EXCEPT ![HostOf[r]] = "free"]
    /\ res' = [res EXCEPT ![r] = "sent"] /\ report' = [report EXCEPT ![r] = v]
    /\ UNCHANGED <<dbVars, batchVars, creating, batchLeft, polls, claim, live,
                   prog, sweep, cancel, loop, hand, ran, boundVars>>

\* Execute returns and SubmitJobResult sends the result, once.
Finish(r, v) ==
    /\ ex[r] = "exec"
    /\ ex' = [ex EXCEPT ![r] = "ended"]
    /\ \/ /\ res' = [res EXCEPT ![r] = "sent"] /\ report' = [report EXCEPT ![r] = v]
          /\ UNCHANGED faults
       \/ /\ Fault
          /\ UNCHANGED <<res, report>>
    /\ UNCHANGED <<dbVars, batchVars, creating, batchLeft, polls, claim, live,
                   prog, sweep, cancel, loop, hand, gate, ran, progresses>>

\* runOne returns: a read frees its slot; releaseMutation lowers the flag ...
EndRun(r) ==
    /\ ex[r] = "ended"
    /\ ex' = [ex EXCEPT ![r] = "no"]
    /\ gate' = IF IsMutation(r) THEN [gate EXCEPT ![HostOf[r]] = "releasing"] ELSE gate
    /\ UNCHANGED <<dbVars, batchVars, handlerVars, loop, hand, ran, boundVars>>

\* ... and then returns the token.
ReturnToken(h) ==
    /\ gate[h] = "releasing"
    /\ gate' = [gate EXCEPT ![h] = "free"]
    /\ UNCHANGED <<dbVars, batchVars, handlerVars, loop, hand, ex, ran, boundVars>>

-----------------------------------------------------------------------------
(* Progress and results in the control plane                               *)

\* reportJobProgress reads the run and refuses one that is not running ...
ProgressRead(r) ==
    /\ prog[r] = "sent"
    /\ prog' = [prog EXCEPT ![r] = IF status[r] = "running" THEN "seen" ELSE "no"]
    /\ UNCHANGED <<dbVars, batchVars, creating, batchLeft, polls, claim, live,
                   res, report, sweep, cancel, agentVars, boundVars>>

\* Mutants of ProgressWrite: the report's phase goes into the status column, or
\* the row is set to running again.
ProgressWriteStatus(r, s) ==
    /\ prog[r] = "seen"
    /\ prog' = [prog EXCEPT ![r] = "no"]
    /\ status' = [status EXCEPT ![r] = s]
    /\ UNCHANGED <<outcome, fresh, queue, batchVars, creating, batchLeft, polls,
                   claim, live, res, report, sweep, cancel, agentVars,
                   boundVars>>
ProgressWritesPhase(r) == ProgressWriteStatus(r, "queued")

\* ... and writes result by id, whatever the status has become since.

ProgressWrite(r) ==
    /\ prog[r] = "seen"
    /\ prog' = [prog EXCEPT ![r] = "no"]
    /\ outcome' = [outcome EXCEPT ![r] = "progress"]
    /\ fresh' = fresh \cup {r}
    /\ UNCHANGED <<status, queue, batchVars, creating, batchLeft, polls, claim,
                   live, res, report, sweep, cancel, agentVars, boundVars>>

\* reportJobResult reads the run and refuses one that is not running ...
ResultRead(r) ==
    /\ res[r] = "sent"
    /\ res' = [res EXCEPT ![r] = IF status[r] = "running" THEN "seen" ELSE "no"]
    /\ UNCHANGED <<dbVars, batchVars, creating, batchLeft, polls, claim, live,
                   report, prog, sweep, cancel, agentVars, boundVars>>

\* ... and writes the outcome by id.
ResultWrite(r) ==
    /\ res[r] = "seen"
    /\ status' = [status EXCEPT ![r] = report[r]]
    /\ outcome' = [outcome EXCEPT ![r] = "report"]
    /\ res' = [res EXCEPT ![r] = IF r \in Batched THEN "written" ELSE "no"]
    /\ UNCHANGED <<fresh, queue, batchVars, creating, batchLeft, polls, claim,
                   live, report, prog, sweep, cancel, agentVars, boundVars>>

\* Mutant of CountCompleted: the verdict looks at the last run alone.
CountCompletedLastRun(r) ==
    /\ res[r] = "written"
    /\ LET updated == [counts EXCEPT ![report[r]] = @ + 1, !["running"] = @ - 1]
       IN  /\ counts' = updated
           /\ res' = [res EXCEPT ![r] =
                 IF updated["pending"] <= 0 /\ updated["running"] <= 0
                 THEN IF report[r] = "failed" THEN "final_failures" ELSE "final_ok"
                 ELSE "no"]
    /\ UNCHANGED <<dbVars, batch, creating, batchLeft, polls, claim, live,
                   report, prog, sweep, cancel, agentVars, boundVars>>

\* recordJobRunCompleted: the counters, and the decision on the updated row ...
CountCompleted(r) ==
    /\ res[r] = "written"
    /\ LET updated == [counts EXCEPT ![report[r]] = @ + 1, !["running"] = @ - 1]
       IN  /\ counts' = updated
           /\ res' = [res EXCEPT ![r] =
                 IF updated["pending"] <= 0 /\ updated["running"] <= 0
                 THEN IF updated["failed"] > 0 THEN "final_failures" ELSE "final_ok"
                 ELSE "no"]
    /\ UNCHANGED <<dbVars, batch, creating, batchLeft, polls, claim, live,
                   report, prog, sweep, cancel, agentVars, boundVars>>

\* ... and the batch's final status.
CompleteBatch(r) ==
    /\ res[r] \in {"final_ok", "final_failures"}
    /\ batch' = IF res[r] = "final_ok" THEN "completed" ELSE "completed_with_failures"
    /\ res' = [res EXCEPT ![r] = "no"]
    /\ UNCHANGED <<dbVars, counts, creating, batchLeft, polls, claim, live,
                   report, prog, sweep, cancel, agentVars, boundVars>>

-----------------------------------------------------------------------------
(* Recovery of stale runs                                                  *)

\* Three minutes pass without a heartbeat of the run.
GrowStale(r) ==
    /\ status[r] = "running"
    /\ r \in fresh
    /\ fresh' = fresh \ {r}
    /\ UNCHANGED <<status, outcome, queue, batchVars, handlerVars, agentVars, boundVars>>

\* Mutant of Stale: a run that never reported progress has no heartbeat to miss.
StaleReportersOnly == {r \in Runs : status[r] = "running" /\ r \notin fresh /\ outcome[r] = "progress"}

\* The runs whose heartbeat (result.updatedAt, or else startedAt) is too old.

Stale == {r \in Runs : status[r] = "running" /\ r \notin fresh}

\* failStaleRunningJobs reads the running rows ...
SweepRead ==
    /\ ~(Stale \subseteq sweep)
    /\ sweep' = sweep \cup Stale
    /\ UNCHANGED <<dbVars, batchVars, creating, batchLeft, polls, claim, live,
                   res, report, prog, cancel, agentVars, boundVars>>

\* Mutant of SweepWrite: the row is updated by id, without the status guard.
SweepWriteById(r) ==
    /\ r \in sweep
    /\ sweep' = sweep \ {r}
    /\ status' = [status EXCEPT ![r] = "failed"]
    /\ outcome' = [outcome EXCEPT ![r] = "stale"]
    /\ UNCHANGED <<fresh, queue, batchVars, creating, batchLeft, polls, claim,
                   live, res, report, prog, cancel, agentVars, boundVars>>

\* ... and fails each one that is still running; no batch is told.
SweepWrite(r) ==
    /\ r \in sweep
    /\ sweep' = sweep \ {r}
    /\ IF status[r] = "running"
       THEN /\ status' = [status EXCEPT ![r] = "failed"]
            /\ outcome' = [outcome EXCEPT ![r] = "stale"]
       ELSE UNCHANGED <<status, outcome>>
    /\ UNCHANGED <<fresh, queue, batchVars, creating, batchLeft, polls, claim,
                   live, res, report, prog, cancel, agentVars, boundVars>>

-----------------------------------------------------------------------------
(* Cancelling the batch                                                    *)

\* cancelBatch reads the batch and the runs that are pending ...
CancelRead(c) ==
    /\ cancel[c].pc = "new"
    /\ batch = "running"
    /\ cancel' = [cancel EXCEPT ![c] =
                     [pc |-> "open", todo |-> {r \in Batched : status[r] = "pending"},
                      rm |-> {}, done |-> {}]]
    /\ UNCHANGED <<dbVars, batchVars, creating, batchLeft, polls, claim, live,
                   res, report, prog, sweep, agentVars, boundVars>>

\* ... cancels each of them by id ...
CancelWrite(c, r) ==
    /\ r \in cancel[c].todo
    /\ cancel[c].rm = {}
    /\ status' = [status EXCEPT ![r] = "cancelled"]
    /\ cancel' = [cancel EXCEPT ![c] =
                     [pc |-> "open", todo |-> cancel[c].todo \ {r},
                      rm |-> {r}, done |-> cancel[c].done]]
    /\ UNCHANGED <<outcome, fresh, queue, batchVars, creating, batchLeft, polls,
                   claim, live, res, report, prog, sweep, agentVars,
                   boundVars>>

\* ... removes it from the queue if it is still there ...
CancelRemove(c, r) ==
    /\ r \in cancel[c].rm
    /\ queue' = queue \ {r}
    /\ cancel' = [cancel EXCEPT ![c] =
                     [pc |-> "open", todo |-> cancel[c].todo,
                      rm |-> {}, done |-> cancel[c].done \cup {r}]]
    /\ UNCHANGED <<status, outcome, fresh, batchVars, creating, batchLeft,
                   polls, claim, live, res, report, prog, sweep, agentVars,
                   boundVars>>

\* Mutant of CancelFinish: pendingCount is set to zero instead of decremented.
CancelFinishZeroes(c) ==
    /\ cancel[c].pc = "open"
    /\ cancel[c].todo = {}
    /\ cancel[c].rm = {}
    /\ batch' = "cancelled"
    /\ counts' = [counts EXCEPT !["pending"] = 0,
                                !["cancelled"] = @ + Cardinality(cancel[c].done)]
    /\ cancel' = [cancel EXCEPT ![c] = Ended]
    /\ UNCHANGED <<dbVars, creating, batchLeft, polls, claim, live, res,
                   report, prog, sweep, agentVars, boundVars>>

\* ... and settles the batch row.
CancelFinish(c) ==
    /\ cancel[c].pc = "open"
    /\ cancel[c].todo = {}
    /\ cancel[c].rm = {}
    /\ batch' = "cancelled"
    /\ LET cancelled == Cardinality(cancel[c].done)
       IN  counts' = [counts EXCEPT !["pending"] = @ - cancelled,
                                    !["cancelled"] = @ + cancelled]
    /\ cancel' = [cancel EXCEPT ![c] = Ended]
    /\ UNCHANGED <<dbVars, creating, batchLeft, polls, claim, live, res,
                   report, prog, sweep, agentVars, boundVars>>

-----------------------------------------------------------------------------
(* Crashes                                                                 *)

\* The agent process dies and is restarted: whatever it held is gone.
AgentCrash(h) ==
    /\ Fault
    /\ loop' = [loop EXCEPT ![h] = "ready"]
    /\ hand' = {r \in hand : HostOf[r] # h}
    /\ ex' = [r \in Runs |-> IF HostOf[r] = h THEN "no" ELSE ex[r]]
    /\ gate' = [gate EXCEPT ![h] = "free"]
    /\ Disown(h)
    /\ UNCHANGED <<dbVars, batchVars, creating, batchLeft, claim, res, report,
                   prog, sweep, cancel, ran, progresses>>

\* The control plane restarts: every handler in progress disappears, and the
\* agents' outstanding polls fail.
ControlPlaneRestart ==
    /\ Fault
    /\ creating' = {}
    /\ batchLeft' = {}
    /\ polls' = {}
    /\ claim' = [r \in Runs |-> "no"]
    /\ live' = {}
    /\ res' = [r \in Runs |-> "no"]
    /\ prog' = [r \in Runs |-> "no"]
    /\ sweep' = {}
    /\ cancel' = [c \in Cancels |->
                     IF cancel[c].pc = "open" THEN Ended ELSE cancel[c]]
    /\ loop' = [h \in Hosts |-> "ready"]
    /\ UNCHANGED <<report, dbVars, batchVars, hand, ex, gate, ran, progresses>>

-----------------------------------------------------------------------------
Creation ==
    \/ CreateBatch
    \/ \E r \in Runs : CreateJob(r) \/ CreateBatchRun(r) \/ AddJob(r) \/ AddJobFails(r)

PollHandler(h) == \E p \in polls : p.host = h /\ (PollEmpty(p) \/ \E r \in Runs : ClaimJob(p, r))

Polling ==
    \/ \E h \in Hosts : SendPoll(h) \/ PollHandler(h) \/ PollFails(h)
    \/ \E r \in Runs : MarkRead(r) \/ MarkWrite(r) \/ CountStarted(r) \/ PollReply(r)

Execution ==
    \/ \E r \in Runs :
          \/ StartRead(r) \/ StartMutation(r) \/ SendProgress(r) \/ EndRun(r)
          \/ \E v \in {"success", "failed"} : Finish(r, v)
    \/ \E h \in Hosts : ReturnToken(h)

Reporting ==
    \E r \in Runs :
        \/ ProgressRead(r) \/ ProgressWrite(r)
        \/ ResultRead(r) \/ ResultWrite(r) \/ CountCompleted(r) \/ CompleteBatch(r)

Recovery == SweepRead \/ \E r \in Runs : GrowStale(r) \/ SweepWrite(r)

Cancelling ==
    \E c \in Cancels :
        \/ CancelRead(c) \/ CancelFinish(c)
        \/ \E r \in Runs : CancelWrite(c, r) \/ CancelRemove(c, r)

Crashes == ControlPlaneRestart \/ \E h \in Hosts : AgentCrash(h)

Next == Creation \/ Polling \/ Execution \/ Reporting \/ Recovery \/ Cancelling \/ Crashes

Spec == Init /\ [][Next]_vars

\* A handler that runs goes on to its end, an agent's loop goes on polling,
\* every execution ends (its context has a deadline), time passes and the
\* sweep's timer fires.  Users and faults owe nothing.
Fairness ==
    /\ \A r \in Runs :
          /\ WF_vars(CreateBatchRun(r) \/ AddJob(r))
          /\ WF_vars(MarkRead(r) \/ MarkWrite(r) \/ CountStarted(r) \/ PollReply(r))
          /\ WF_vars(StartRead(r) \/ StartMutation(r))
          /\ WF_vars(EndRun(r) \/ \E v \in {"success", "failed"} : Finish(r, v))
          /\ WF_vars(ProgressRead(r) \/ ProgressWrite(r))
          /\ WF_vars(ResultRead(r) \/ ResultWrite(r) \/ CountCompleted(r) \/ CompleteBatch(r))
          /\ WF_vars(GrowStale(r))
          /\ WF_vars(SweepWrite(r))
    /\ \A h \in Hosts :
          /\ WF_vars(SendPoll(h))
          /\ WF_vars(PollHandler(h))
          /\ WF_vars(ReturnToken(h))
    /\ WF_vars(SweepRead)
    /\ \A c \in Cancels :
          WF_vars(CancelFinish(c) \/ \E r \in Runs : CancelWrite(c, r) \/ CancelRemove(c, r))

FairSpec == Spec /\ Fairness

-----------------------------------------------------------------------------
(* Types                                                                   *)

\* Every variable has the shape its Prisma row, Redis set, handler or
\* goroutine gives it; statuses are the ones jobs/constants.ts lists.
TypeOK ==
    /\ status \in [Runs -> RunStatus]
    /\ outcome \in [Runs -> {"empty", "progress", "report", "stale"}]
    /\ fresh \subseteq Runs
    /\ queue \subseteq Runs
    /\ batch \in BatchStatus
    /\ counts \in [Counters -> Int]
    /\ creating \subseteq Runs
    /\ batchLeft \subseteq Batched
    /\ polls \subseteq Poll
    /\ claim \in [Runs -> ClaimState]
    /\ live \subseteq Runs
    /\ res \in [Runs -> ResultState]
    /\ report \in [Runs -> {"success", "failed"}]
    /\ prog \in [Runs -> {"no", "sent", "seen"}]
    /\ sweep \subseteq Runs
    /\ cancel \in [Cancels -> CancelState]
    /\ loop \in [Hosts -> {"ready", "polling"}]
    /\ hand \subseteq Runs
    /\ ex \in [Runs -> {"no", "exec", "ended"}]
    /\ gate \in [Hosts -> {"free", "held", "releasing"}]
    /\ ran \subseteq Runs
    /\ faults \in 0..MaxFaults
    /\ progresses \in 0..MaxProgress

-----------------------------------------------------------------------------
(* Safety of execution                                                     *)

Starts(r) == ex[r] = "no" /\ ex'[r] = "exec"

\* A run is handed to an agent and executed at most once, whatever polls,
\* replies and processes are lost: getNextJobForHost's job.remove() is the only
\* claim, and nothing puts a claimed run back.
NoDoubleExecution == [][\A r \in Runs : Starts(r) => r \notin ran]_vars

\* The agent never executes two mutations of its host at once: the one-slot
\* gate of executionLimiter holds over crashes and lost polls.
MutationsSerialized ==
    \A r, s \in Runs :
        /\ HostOf[r] = HostOf[s]
        /\ IsMutation(r) /\ IsMutation(s)
        /\ ex[r] # "no" /\ ex[s] # "no"
        => r = s

\* loop.go: "durable queue remains the sole backlog and the UI only says running
\* for work truly executing": no agent holds, or is about to be handed, a
\* mutation while another one of its host executes.
NoParkedMutation ==
    \A r \in hand \cup live :
        IsMutation(r) => gate[HostOf[r]] # "held"

\* The job runs of createJob never leave a terminal status: no late mark,
\* result, progress report or sweep reopens a finished run.
FinishedStaysFinished ==
    [][\A r \in Runs \ Batched : status[r] \in Terminal => status'[r] \in Terminal]_vars

\* The job runs of createJob behave as JobRun says, although the poll handler,
\* the reports and failStaleRunningJobs read a row and write it later, and any
\* request or process may be lost in between: no run executes before its row
\* says running, a success comes from an execution, and no sweep, however old
\* its reading of the row, replaces a report.
Single == INSTANCE JobRun WITH
    Runs     <- Runs \ Batched,
    status   <- [r \in Runs \ Batched |-> status[r]],
    executed <- ran \ Batched

ImplementsJobRun == Single!Spec

-----------------------------------------------------------------------------
(* Batches                                                                 *)

\* docs/design-bulk-server-operations.md: "total = pending + running + success
\* + failed + cancelled", in every state, whatever handlers run or die.
CountsAddUp ==
    batch # "none" =>
        counts["pending"] + counts["running"] + counts["success"]
          + counts["failed"] + counts["cancelled"] = Cardinality(Batched)

\* A batch that nobody cancels is called completed only when every one of its
\* runs succeeded, and completed_with_failures only when every one ended and
\* one failed, although the counters are updated after the runs' rows.
BatchVerdict ==
    (\A c \in Cancels : cancel[c].pc = "new") =>
        /\ batch = "completed" => \A r \in Batched : status[r] = "success"
        /\ batch = "completed_with_failures" =>
              /\ \A r \in Batched : status[r] \in {"success", "failed"}
              /\ \E r \in Batched : status[r] = "failed"

-----------------------------------------------------------------------------
(* Liveness, under Fairness                                                *)

\* A run that is marked running is resolved: by its agent's report or, when
\* the agent or the report is lost, by failStaleRunningJobs.
RunningResolves == \A r \in Runs : status[r] = "running" ~> status[r] # "running"

\* A queued run is handed out: reads are not blocked by a mutation, and the
\* gate and the flag of a mutation that ended do not keep the next one waiting.
QueuedClaimed == \A r \in Runs : r \in queue ~> r \notin queue

=============================================================================
