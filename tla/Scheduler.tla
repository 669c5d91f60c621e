----------------------------- MODULE Scheduler ------------------------------
(***************************************************************************)
(* Recurring schedules of the control plane.                               *)
(*                                                                         *)
(* A schedule is a row (enabled, cron, nextRunAt).  Its chain is kept alive *)
(* by delayed entries of the BullMQ queue "scheduler": an entry for the    *)
(* time t has the id schedule:<id>:<t>, and BullMQ ignores an entry whose  *)
(* id it already knows, finished ones included.  The worker handles a due  *)
(* entry in several awaits and adds the next one itself.  Edits, deletion  *)
(* and restarts interleave with it.                                        *)
(*                                                                         *)
(* Time counts the smallest steps of one cron field, minutes or days.  A   *)
(* cron expression is its step in that field, "*/n"; the job runs are      *)
(* followed only as far as the overlap check can tell them apart.          *)
(***************************************************************************)
EXTENDS Integers, FiniteSets

CONSTANTS
    Schedules,  \* identities of schedules
    Runs,       \* slots for unfinished job runs; a finished run frees its slot
    NoRun,      \* no job run
    Crons,      \* steps n of cron fields "*/n"; 1 for "*"
    Field,      \* values of the field: 60 minutes, 24 hours, the days of a month
    Horizon,    \* bound: the clock stops here
    MaxChanges, \* bound: update requests and restarts, together
    MaxFaults   \* bound: failed database or Redis calls, lost claims

ASSUME SchedulerAssumption ==
    /\ IsFiniteSet(Crons) /\ Crons # {} /\ Crons \subseteq Nat \ {0}
    /\ Field \in Nat /\ \A c \in Crons : c <= Field
    /\ NoRun \notin Runs
    /\ {Horizon, MaxChanges, MaxFaults} \subseteq Nat

\* parseSet: the values of "*/n" are counted from the field's first one.
Values(c) == {v \in 0..(Field - 1) : v % c = 0}
\* getNextCronRun: the first matching time after t, at latest when the field
\* starts again.
NextRun(c, t) == CHOOSE u \in (t + 1)..(t + c) :
    /\ u % Field \in Values(c)
    /\ \A w \in (t + 1)..(u - 1) : w % Field \notin Values(c)

\* computeNextRun never gives a time further ahead than the longest step.
Times == 1..(Horizon + CHOOSE c \in Crons : \A d \in Crons : d <= c)
Ids   == Schedules \X Times

VARIABLES
    now,
    row,        \* "none" before it is created, "on" (enabled), "off", "gone"
    cron,       \* the row's cronExpression
    nextRunAt,  \* the row's nextRunAt; 0 when it has none
    lastRunStatus,
    entries,    \* ids that are delayed or waiting in the scheduler queue
    finished,   \* ids of completed and failed entries, which BullMQ keeps
    fire,       \* where the worker's handler of an active entry is
    seen,       \* the cron of the row that handler loaded
    next,       \* the nextRun it computed
    made,       \* the job run it created
    run,        \* job runs: "free", "row", "queued", "running"
    ofSched,    \* the schedule_id in the payload of a run's job
    upd,        \* createSchedule and updateSchedule requests in progress
    hydrating,  \* schedules hydrateSchedules read and has still to enqueue
    faults, changes

rowVars  == <<row, cron, nextRunAt, lastRunStatus>>
fireVars == <<fire, seen, next, made>>
runVars  == <<run, ofSched>>
bounds   == <<faults, changes>>
vars == <<now, row, cron, nextRunAt, lastRunStatus, entries, finished, fire, seen,
          next, made, run, ofSched, upd, hydrating, faults, changes>>


Active(s) == {r \in Runs : run[r] # "free" /\ ofSched[r] = s}
Fault     == faults < MaxFaults /\ faults' = faults + 1 /\ UNCHANGED changes

-----------------------------------------------------------------------------
Init ==
    /\ now = 0
    /\ row = [s \in Schedules |-> "none"]
    /\ cron \in [Schedules -> Crons]
    /\ nextRunAt = [s \in Schedules |-> 0]
    /\ lastRunStatus = [s \in Schedules |-> "none"]
    /\ entries = {}
    /\ finished = {}
    /\ fire = [i \in Ids |-> "no"]
    /\ seen = [i \in Ids |-> 0]
    /\ next = [i \in Ids |-> 0]
    /\ made = [i \in Ids |-> NoRun]
    /\ run = [r \in Runs |-> "free"]
    /\ ofSched \in [Runs -> Schedules]
    /\ upd = {}
    /\ hydrating = {}
    /\ faults = 0
    /\ changes = 0

\* queue.add with a jobId: an id that the queue knows in any state is ignored.
Known(i) == i \in entries \cup finished \/ fire[i] # "no"
Add(i)   == entries' = IF Known(i) THEN entries ELSE entries \cup {i}

-----------------------------------------------------------------------------
(* Requests of users                                                       *)

Serving == hydrating = {}

\* createSchedule: the row, then its first entry.
CreateSchedule(s, c, e) ==
    /\ Serving
    /\ row[s] = "none"
    /\ row' = [row EXCEPT ![s] = e]
    /\ cron' = [cron EXCEPT ![s] = c]
    /\ nextRunAt' = [nextRunAt EXCEPT ![s] = NextRun(c, now)]
    /\ upd' = IF e = "on"
              THEN upd \cup {[n |-> 0, s |-> s, pc |-> "add", old |-> 0,
                              at |-> NextRun(c, now), enabled |-> "same", cron |-> 0]}
              ELSE upd
    /\ UNCHANGED <<now, lastRunStatus, entries, finished, fireVars, runVars,
                   hydrating, bounds>>

\* What the Schedules page can submit: a step of 1 to 31 days or a cron typed
\* in, 0 if that is none; the server may be left out.
ScheduleForm == [server : BOOLEAN, cron : Crons \cup {0}, enabled : {"on", "off"}]
\* The controller refuses a body without a server, the service one without a
\* valid cron.
create(s, body) ==
    body.server /\ body.cron # 0 /\ CreateSchedule(s, body.cron, body.enabled)
handleCreate(s) == \E form \in ScheduleForm : create(s, form)

\* updateSchedule reads the row and computes the new time if the cron changes ...
UpdateRead(s, e, c) ==
    /\ Serving
    /\ changes < MaxChanges
    /\ row[s] \in {"on", "off"}
    /\ changes' = changes + 1
    /\ upd' = upd \cup {[n |-> changes + 1, s |-> s, pc |-> "write", old |-> nextRunAt[s],
                         at |-> IF c = 0 THEN 0 ELSE NextRun(c, now),
                         enabled |-> e, cron |-> c]}
    /\ UNCHANGED <<now, rowVars, entries, finished, fireVars, runVars, hydrating,
                   faults>>

\* ... writes it; a row deleted meanwhile makes the request fail ...
UpdateWrite(u) ==
    /\ u \in upd
    /\ u.pc = "write"
    /\ IF row[u.s] = "gone"
       THEN /\ upd' = upd \ {u}
            /\ UNCHANGED <<row, cron, nextRunAt>>
       ELSE /\ row' = IF u.enabled = "same" THEN row ELSE [row EXCEPT ![u.s] = u.enabled]
            /\ cron' = IF u.cron = 0 THEN cron ELSE [cron EXCEPT ![u.s] = u.cron]
            /\ nextRunAt' = IF u.cron = 0 THEN nextRunAt
                            ELSE [nextRunAt EXCEPT ![u.s] = u.at]
            /\ upd' = (upd \ {u}) \cup
                      {[n |-> u.n, s |-> u.s, pc |-> "remove", old |-> u.old,
                        at |-> IF row'[u.s] = "on" THEN nextRunAt'[u.s] ELSE 0,
                        enabled |-> u.enabled, cron |-> u.cron]}
    /\ UNCHANGED <<now, lastRunStatus, entries, finished, fireVars, runVars,
                   hydrating, bounds>>

\* ... removes the entry of the old time, unless the worker is at it ...
UpdateRemove(u) ==
    /\ u \in upd
    /\ u.pc = "remove"
    /\ entries' = entries \ {<<u.s, u.old>>}
    /\ finished' = finished \ {<<u.s, u.old>>}
    /\ upd' = (upd \ {u}) \cup
              (IF u.at = 0 THEN {}
               ELSE {[n |-> u.n, s |-> u.s, pc |-> "add", old |-> u.old, at |-> u.at,
                      enabled |-> u.enabled, cron |-> u.cron]})
    /\ UNCHANGED <<now, rowVars, fireVars, runVars, hydrating, bounds>>

\* ... and enqueues the time of the row it wrote, if that is enabled.
UpdateAdd(u) ==
    /\ u \in upd
    /\ u.pc = "add"
    /\ Add(<<u.s, u.at>>)
    /\ upd' = upd \ {u}
    /\ UNCHANGED <<now, rowVars, finished, fireVars, runVars, hydrating, bounds>>

\* A page asks for the opposite of what it shows, which may be old; other
\* clients may change both.
handleToggle(s) == \E e \in {"on", "off"} : UpdateRead(s, e, 0)
update(s) == \E c \in Crons \cup {0}, e \in {"same", "on", "off"} : UpdateRead(s, e, c)

\* deleteSchedule deletes the row and leaves the queue alone.
DeleteSchedule(s) ==
    /\ Serving
    /\ row[s] \in {"on", "off"}
    /\ row' = [row EXCEPT ![s] = "gone"]
    /\ UNCHANGED <<now, cron, nextRunAt, lastRunStatus, entries, finished, fireVars,
                   runVars, upd, hydrating, bounds>>

-----------------------------------------------------------------------------
(* processScheduleFire, one action per await                               *)

Goto(i, pc) == fire' = [fire EXCEPT ![i] = pc]

FireStart(i) ==
    /\ i \in entries
    /\ i[2] <= now
    /\ entries' = entries \ {i}
    /\ Goto(i, "load")
    /\ UNCHANGED <<now, rowVars, finished, seen, next, made, runVars, upd,
                   hydrating, bounds>>

\* A schedule that is gone or disabled ends its chain here.
FireLoad(i) ==
    /\ fire[i] = "load"
    /\ IF row[i[1]] = "on"
       THEN Goto(i, "check") /\ seen' = [seen EXCEPT ![i] = cron[i[1]]]
       ELSE Goto(i, "end") /\ UNCHANGED seen
    /\ UNCHANGED <<now, rowVars, entries, finished, next, made, runVars, upd,
                   hydrating, bounds>>

\* Mutant of FireCheck: only running runs count as a previous occurrence.
FireCheckRunningOnly(i) ==
    /\ fire[i] = "check"
    /\ IF \E r \in Active(i[1]) : run[r] = "running"
       THEN Goto(i, "skip") /\ next' = [next EXCEPT ![i] = NextRun(seen[i], now)]
       ELSE Goto(i, "create") /\ UNCHANGED next
    /\ UNCHANGED <<now, rowVars, entries, finished, seen, made, runVars, upd,
                   hydrating, bounds>>

\* The overlap check: a pending or running run of this schedule.
FireCheck(i) ==
    /\ fire[i] = "check"
    /\ IF Active(i[1]) # {}
       THEN Goto(i, "skip") /\ next' = [next EXCEPT ![i] = NextRun(seen[i], now)]
       ELSE Goto(i, "create") /\ UNCHANGED next
    /\ UNCHANGED <<now, rowVars, entries, finished, seen, made, runVars, upd,
                   hydrating, bounds>>

\* schedule.update: throws if the row is gone.
SetRow(i, st, n) ==
    /\ lastRunStatus' = [lastRunStatus EXCEPT ![i[1]] = st]
    /\ nextRunAt' = [nextRunAt EXCEPT ![i[1]] = n]

FireSkip(i) ==
    /\ fire[i] = "skip"
    /\ IF row[i[1]] = "gone"
       THEN Goto(i, "failed") /\ UNCHANGED <<lastRunStatus, nextRunAt>>
       ELSE Goto(i, "readd_skip") /\ SetRow(i, "skipped_busy", next[i])
    /\ UNCHANGED <<now, row, cron, entries, finished, seen, next, made, runVars, upd,
                   hydrating, bounds>>

\* job.create and jobRun.create
FireCreate(i) ==
    /\ fire[i] = "create"
    /\ \E r \in Runs :
          /\ run[r] = "free"
          /\ run' = [run EXCEPT ![r] = "row"]
          /\ ofSched' = [ofSched EXCEPT ![r] = i[1]]
          /\ made' = [made EXCEPT ![i] = r]
    /\ Goto(i, "add")
    /\ UNCHANGED <<now, rowVars, entries, finished, seen, next, upd, hydrating, bounds>>

\* orgQueue.add, and the time of the next occurrence
FireAdd(i) ==
    /\ fire[i] = "add"
    /\ run' = [run EXCEPT ![made[i]] = "queued"]
    /\ next' = [next EXCEPT ![i] = NextRun(seen[i], now)]
    /\ Goto(i, "update")
    /\ UNCHANGED <<now, rowVars, entries, finished, seen, made, ofSched, upd,
                   hydrating, bounds>>

FireUpdate(i) ==
    /\ fire[i] = "update"
    /\ IF row[i[1]] = "gone"
       THEN Goto(i, "catch") /\ UNCHANGED <<lastRunStatus, nextRunAt>>
       ELSE Goto(i, "readd") /\ SetRow(i, "success", next[i])
    /\ UNCHANGED <<now, row, cron, entries, finished, seen, next, made, runVars, upd,
                   hydrating, bounds>>

\* The catch block records the failure, if the row is still there.
FireCatch(i) ==
    /\ fire[i] = "catch"
    /\ IF row[i[1]] = "gone"
       THEN Goto(i, "failed") /\ UNCHANGED <<lastRunStatus, nextRunAt, next>>
       ELSE /\ Goto(i, "readd_catch")
            /\ next' = [next EXCEPT ![i] = NextRun(seen[i], now)]
            /\ SetRow(i, "scheduler_failed", NextRun(seen[i], now))
    /\ UNCHANGED <<now, row, cron, entries, finished, seen, made, runVars, upd,
                   hydrating, bounds>>

\* The next occurrence is enqueued on every path; the catch block then rethrows.
FireReadd(i) ==
    /\ fire[i] \in {"readd_skip", "readd", "readd_catch"}
    /\ Add(<<i[1], next[i]>>)
    /\ Goto(i, IF fire[i] = "readd_catch" THEN "failed" ELSE "end")
    /\ UNCHANGED <<now, rowVars, finished, seen, next, made, runVars, upd,
                   hydrating, bounds>>

\* A database or Redis call fails: inside the try block the catch block runs,
\* outside of it the entry fails.
FireThrows(i) ==
    /\ Fault
    /\ fire[i] \notin {"no", "failed", "end"}
    /\ Goto(i, IF fire[i] \in {"create", "add", "update", "readd"} THEN "catch" ELSE "failed")
    /\ UNCHANGED <<now, rowVars, entries, finished, seen, next, made, runVars, upd, hydrating>>

Forget(i) ==
    /\ fire' = [fire EXCEPT ![i] = "no"]
    /\ seen' = [seen EXCEPT ![i] = 0]
    /\ next' = [next EXCEPT ![i] = 0]
    /\ made' = [made EXCEPT ![i] = NoRun]
    /\ finished' = finished \cup {i}

FireEnd(i) ==
    /\ fire[i] = "end"
    /\ Forget(i)
    /\ UNCHANGED <<now, rowVars, entries, runVars, upd, hydrating, bounds>>

\* The worker's failed event: handleWorkerFailure.
FireFailed(i) ==
    /\ fire[i] = "failed"
    /\ row[i[1]] # "gone"
    /\ Forget(i)
    /\ lastRunStatus' = [lastRunStatus EXCEPT ![i[1]] = "scheduler_failed"]
    /\ UNCHANGED <<now, row, cron, nextRunAt, entries, runVars, upd, hydrating, bounds>>

-----------------------------------------------------------------------------
(* Restarts                                                                *)

\* The process ends: requests are gone, BullMQ gives the active entries back,
\* and the new process reads the enabled schedules.
Crash(kept) ==
    /\ fire' = [i \in Ids |-> "no"]
    /\ seen' = [i \in Ids |-> 0]
    /\ next' = [i \in Ids |-> 0]
    /\ made' = [i \in Ids |-> NoRun]
    /\ entries' = entries \cup {i \in Ids \ kept : fire[i] # "no"}
    /\ finished' = finished \cup kept
    /\ upd' = {}
    /\ hydrating' = {s \in Schedules : row[s] = "on"}
    /\ UNCHANGED <<now, rowVars, runVars>>

Restart ==
    /\ changes < MaxChanges
    /\ changes' = changes + 1
    /\ Crash({})
    /\ UNCHANGED faults

\* handleWorkerFailure updates a row that is gone: nobody handles the rejection,
\* and Node ends the process.
FireFailedGone(i) ==
    /\ fire[i] = "failed"
    /\ row[i[1]] = "gone"
    /\ Crash({i})
    /\ UNCHANGED bounds

\* Mutant of Hydrate: only schedules whose nextRunAt has passed are enqueued.
HydrateOverdue(s) ==
    /\ s \in hydrating
    /\ IF nextRunAt[s] <= now
       THEN /\ Add(<<s, NextRun(cron[s], now)>>)
            /\ nextRunAt' = [nextRunAt EXCEPT ![s] = NextRun(cron[s], now)]
       ELSE UNCHANGED <<entries, nextRunAt>>
    /\ hydrating' = hydrating \ {s}
    /\ UNCHANGED <<now, row, cron, lastRunStatus, finished, fireVars, runVars, upd, bounds>>

\* hydrateSchedules, before the server listens: entry, then nextRunAt.
Hydrate(s) ==
    /\ s \in hydrating
    /\ Add(<<s, NextRun(cron[s], now)>>)
    /\ nextRunAt' = [nextRunAt EXCEPT ![s] = NextRun(cron[s], now)]
    /\ hydrating' = hydrating \ {s}
    /\ UNCHANGED <<now, row, cron, lastRunStatus, finished, fireVars, runVars, upd, bounds>>

-----------------------------------------------------------------------------
(* The job pipeline, as far as the overlap check sees it, and the clock    *)

RunClaimed(r) ==
    /\ run[r] = "queued"
    /\ run' = [run EXCEPT ![r] = "running"]
    /\ UNCHANGED <<now, rowVars, entries, finished, fireVars, ofSched, upd, hydrating, bounds>>

\* The poll handler dies between claiming the run and marking it running.
RunLost(r) ==
    /\ Fault
    /\ run[r] = "queued"
    /\ run' = [run EXCEPT ![r] = "row"]
    /\ UNCHANGED <<now, rowVars, entries, finished, fireVars, ofSched, upd, hydrating>>

\* The agent's result or failStaleRunningJobs ends a running run.
RunEnds(r) ==
    /\ run[r] = "running"
    /\ run' = [run EXCEPT ![r] = "free"]
    /\ UNCHANGED <<now, rowVars, entries, finished, fireVars, ofSched, upd, hydrating, bounds>>

Tick ==
    /\ now < Horizon
    /\ now' = now + 1
    /\ UNCHANGED <<rowVars, entries, finished, fireVars, runVars, upd, hydrating, bounds>>

-----------------------------------------------------------------------------
Requests ==
    \/ \E s \in Schedules : handleCreate(s) \/ handleToggle(s) \/ update(s) \/ DeleteSchedule(s)
    \/ \E u \in upd : UpdateWrite(u) \/ UpdateRemove(u) \/ UpdateAdd(u)

Firing ==
    \E i \in Ids :
        \/ FireStart(i) \/ FireLoad(i) \/ FireCheck(i) \/ FireSkip(i) \/ FireCreate(i)
        \/ FireAdd(i) \/ FireUpdate(i) \/ FireCatch(i) \/ FireReadd(i) \/ FireThrows(i)
        \/ FireEnd(i) \/ FireFailed(i)

Restarting ==
    Restart \/ (\E i \in Ids : FireFailedGone(i)) \/ (\E s \in Schedules : Hydrate(s))

Pipeline == \E r \in Runs : RunClaimed(r) \/ RunLost(r) \/ RunEnds(r)

Next == Requests \/ Firing \/ Restarting \/ Pipeline \/ Tick

Spec == Init /\ [][Next]_vars

-----------------------------------------------------------------------------
(* Properties                                                              *)

\* "Overlap prevention that skips a recurrence while its previous job is still
\* pending/running" (README.md:95): a schedule never has two unfinished runs.
NoOverlap == \A s \in Schedules : \A q, r \in Active(s) : q = r

\* A worker that fails on a deleted schedule ends the process: the other
\* schedules then start a second chain.
Undisturbed(s) == \A t \in Schedules \ {s} : row[t] # "gone"

\* As long as no request edits a schedule and no process ends, also while calls
\* fail: both start a second chain, whose handler may look for unfinished runs
\* at the same time.  A schedule that is deleted itself ends in order.
NoOverlapUnedited ==
    changes = 0 => \A s \in Schedules : Undisturbed(s) => \A q, r \in Active(s) : q = r

\* An enabled schedule goes on through its fires and an edit or a restart that
\* races with them: it has an entry, or a handler or request that will add one,
\* as long as no call fails.  Two edits can end it: one that disables it while
\* its entry fires and one that enables it before the handler is done; and so
\* can an edit of a schedule that has a second chain.
ChainAlive ==
    faults = 0 /\ changes <= 1 => \A s \in Schedules :
        row[s] = "on" /\ Undisturbed(s) =>
            \/ \E i \in Ids : i[1] = s /\ (i \in entries \/ fire[i] \notin {"no", "end", "failed"})
            \/ \E u \in upd : u.s = s
            \/ s \in hydrating
=============================================================================
