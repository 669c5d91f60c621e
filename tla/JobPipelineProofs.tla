------------------------- MODULE JobPipelineProofs --------------------------
(***************************************************************************)
(* Proofs about JobPipeline for every number of hosts, runs, cancel        *)
(* requests, faults and progress reports; last, that it implements JobRun. *)
(***************************************************************************)
EXTENDS JobPipeline, FiniteSetTheorems, TLAPS

-----------------------------------------------------------------------------
(* The inductive invariant                                                 *)

\* A run is in at most one place: not created, in creation, in the queue,
\* claimed, in the hand of an agent, or executed.
OnePlace ==
    \A r \in Runs :
        /\ status[r] = "none" =>
              /\ r \notin creating \cup queue \cup hand \cup ran
              /\ claim[r] = "no"
        /\ r \in creating => r \notin queue \cup hand \cup ran /\ claim[r] = "no"
        /\ r \in queue => r \notin hand \cup ran /\ claim[r] = "no"
        /\ claim[r] # "no" => r \notin hand \cup ran
        /\ r \in hand => r \notin ran
        /\ ex[r] # "no" \/ res[r] # "no" => r \in ran

\* The runs of the batch exist only once the batch does, and createBatch and
\* cancelBatch know which of them exist.
BatchRuns ==
    /\ batch = "none" => /\ batchLeft = {}
                         /\ \A r \in Batched : status[r] = "none"
                         /\ \A c \in Cancels : cancel[c].pc # "open"
                         /\ counts = [k \in Counters |-> 0]
    /\ \A r \in batchLeft : status[r] = "none"
    /\ \A c \in Cancels : \A r \in cancel[c].todo : status[r] # "none"
    /\ \A c \in Cancels : cancel[c].rm # {} => cancel[c].pc = "open"
    /\ \A r \in Runs : /\ claim[r] = "marked" => r \in Batched
                       /\ res[r] \in {"written", "final_ok", "final_failures"} => r \in Batched

\* A mutation that executes holds its host's gate, alone.
GateHeld ==
    /\ \A r \in Runs : IsMutation(r) /\ ex[r] # "no" => gate[HostOf[r]] = "held"
    /\ MutationsSerialized

\* What an agent waits for: one poll, or one claimed run, or a run in its hand;
\* and none of them is a mutation while the gate is held.
OnePoll ==
    /\ \A p \in polls : p.lost = 0 => loop[p.host] = "polling"
    /\ \A p, q \in polls : p.lost = 0 /\ q.lost = 0 /\ p.host = q.host => p = q
    /\ \A p \in polls, r \in live : p.lost = 0 => p.host # HostOf[r]
    /\ \A r \in live : claim[r] # "no" /\ loop[HostOf[r]] = "polling"
    /\ \A r, s \in live : HostOf[r] = HostOf[s] => r = s
    /\ \A r \in hand : loop[HostOf[r]] = "ready"
    /\ \A r, s \in hand : HostOf[r] = HostOf[s] => r = s

PollIsHonest ==
    /\ \A p \in polls : p.lost = 0 /\ ~p.busy => gate[p.host] # "held"
    /\ NoParkedMutation

\* A single job that nobody has marked running yet is pending.
StillPending ==
    \A r \in Runs \ Batched :
        r \in creating \cup queue \/ claim[r] \in {"taken", "seen"} => status[r] = "pending"

-----------------------------------------------------------------------------
(* Type correctness                                                        *)

LEMMA BatchedFinite ==
    /\ IsFiniteSet(Batched)
    /\ Cardinality(Batched) \in Nat
    /\ \A S \in SUBSET Batched : IsFiniteSet(S) /\ Cardinality(S) \in Nat
  BY FS_Subset, FS_CardinalityType, PipelineAssumption DEF PipelineAssumption

LEMMA TypeInit == Init => TypeOK
  BY PipelineAssumption
  DEF Init, TypeOK, PipelineAssumption, RunStatus, Terminal, BatchStatus, Counters,
      ClaimState, ResultState, Idle, CancelState

LEMMA TypeStep == TypeOK /\ [Next]_vars => TypeOK'
  <1> SUFFICES ASSUME TypeOK, [Next]_vars PROVE TypeOK'
    OBVIOUS
  <1> USE PipelineAssumption
          DEF TypeOK, PipelineAssumption, RunStatus, Terminal, BatchStatus,
              ClaimState, ResultState, Fault,
              dbVars, batchVars, handlerVars, agentVars, boundVars
  <1>1. CASE Creation
    <2>1. ASSUME CreateBatch PROVE TypeOK'
      BY <2>1, BatchedFinite DEF CreateBatch, Counters
    <2>2. ASSUME NEW r \in Runs, CreateJob(r) PROVE TypeOK'
      BY <2>2 DEF CreateJob
    <2>3. ASSUME NEW r \in Runs, CreateBatchRun(r) PROVE TypeOK'
      BY <2>3 DEF CreateBatchRun
    <2>4. ASSUME NEW r \in Runs, AddJob(r) PROVE TypeOK'
      BY <2>4 DEF AddJob
    <2>5. ASSUME NEW r \in Runs, AddJobFails(r) PROVE TypeOK'
      BY <2>5 DEF AddJobFails
    <2> QED
      BY <1>1, <2>1, <2>2, <2>3, <2>4, <2>5 DEF Creation
  <1>2. CASE Polling
    <2>1. ASSUME NEW h \in Hosts, SendPoll(h) PROVE TypeOK'
      <3>1. [host |-> h, busy |-> gate[h] = "held", lost |-> 0] \in Poll
        <4>1. (gate[h] = "held") \in BOOLEAN
          OBVIOUS
        <4> QED
          BY <4>1 DEF Poll
      <3> QED
        BY <2>1, <3>1 DEF SendPoll
    <2>2. ASSUME NEW p \in polls, PollEmpty(p) PROVE TypeOK'
      BY <2>2 DEF PollEmpty, Poll
    <2>3. ASSUME NEW p \in polls, NEW r \in Runs, ClaimJob(p, r) PROVE TypeOK'
      BY <2>3 DEF ClaimJob, Eligible, Poll
    <2>4. ASSUME NEW h \in Hosts, PollFails(h) PROVE TypeOK'
      BY <2>4 DEF PollFails, Disown, Poll
    <2>5. ASSUME NEW r \in Runs, MarkRead(r) \/ MarkWrite(r) PROVE TypeOK'
      BY <2>5 DEF MarkRead, MarkWrite
    <2>6. ASSUME NEW r \in Runs, CountStarted(r) PROVE TypeOK'
      BY <2>6 DEF CountStarted, Counters
    <2>7. ASSUME NEW r \in Runs, PollReply(r) PROVE TypeOK'
      BY <2>7 DEF PollReply
    <2> QED
      BY <1>2, <2>1, <2>2, <2>3, <2>4, <2>5, <2>6, <2>7 DEF Polling, PollHandler
  <1>3. CASE Execution
    <2>1. ASSUME NEW r \in Runs, StartRead(r) PROVE TypeOK'
      BY <2>1 DEF StartRead
    <2>2. ASSUME NEW r \in Runs, StartMutation(r) PROVE TypeOK'
      BY <2>2 DEF StartMutation
    <2>3. ASSUME NEW r \in Runs, SendProgress(r) PROVE TypeOK'
      BY <2>3 DEF SendProgress
    <2>4. ASSUME NEW r \in Runs, NEW v \in {"success", "failed"}, Finish(r, v)
          PROVE TypeOK'
      BY <2>4 DEF Finish
    <2>5. ASSUME NEW r \in Runs, EndRun(r) PROVE TypeOK'
      BY <2>5 DEF EndRun
    <2>6. ASSUME NEW h \in Hosts, ReturnToken(h) PROVE TypeOK'
      BY <2>6 DEF ReturnToken
    <2> QED
      BY <1>3, <2>1, <2>2, <2>3, <2>4, <2>5, <2>6 DEF Execution
  <1>4. CASE Reporting
    <2>1. ASSUME NEW r \in Runs, ProgressRead(r) \/ ProgressWrite(r) PROVE TypeOK'
      BY <2>1 DEF ProgressRead, ProgressWrite
    <2>2. ASSUME NEW r \in Runs, ResultRead(r) \/ ResultWrite(r) PROVE TypeOK'
      BY <2>2 DEF ResultRead, ResultWrite
    <2>3. ASSUME NEW r \in Runs, CountCompleted(r) PROVE TypeOK'
      BY <2>3 DEF CountCompleted, Counters
    <2>4. ASSUME NEW r \in Runs, CompleteBatch(r) PROVE TypeOK'
      BY <2>4 DEF CompleteBatch
    <2> QED
      BY <1>4, <2>1, <2>2, <2>3, <2>4 DEF Reporting
  <1>5. CASE Recovery
    BY <1>5 DEF Recovery, GrowStale, SweepRead, SweepWrite, Stale
  <1>6. CASE Cancelling
    <2>1. ASSUME NEW c \in Cancels, CancelRead(c) PROVE TypeOK'
      BY <2>1 DEF CancelRead, CancelState
    <2>2. ASSUME NEW c \in Cancels, NEW r \in Runs, CancelWrite(c, r) PROVE TypeOK'
      BY <2>2 DEF CancelWrite, CancelState
    <2>3. ASSUME NEW c \in Cancels, NEW r \in Runs, CancelRemove(c, r) PROVE TypeOK'
      BY <2>3 DEF CancelRemove, CancelState
    <2>4. ASSUME NEW c \in Cancels, CancelFinish(c) PROVE TypeOK'
      <3>1. Cardinality(cancel[c].done) \in Nat
        BY BatchedFinite DEF CancelState
      <3> QED
        BY <2>4, <3>1 DEF CancelFinish, CancelState, Idle, Ended, Counters
    <2> QED
      BY <1>6, <2>1, <2>2, <2>3, <2>4 DEF Cancelling
  <1>7. CASE Crashes
    <2>1. ASSUME ControlPlaneRestart PROVE TypeOK'
      BY <2>1 DEF ControlPlaneRestart, CancelState, Idle, Ended
    <2>2. ASSUME NEW h \in Hosts, AgentCrash(h) PROVE TypeOK'
      BY <2>2 DEF AgentCrash, Disown, Poll
    <2> QED
      BY <1>7, <2>1, <2>2 DEF Crashes
  <1>8. CASE UNCHANGED vars
    BY <1>8 DEF vars
  <1> QED
    BY <1>1, <1>2, <1>3, <1>4, <1>5, <1>6, <1>7, <1>8 DEF Next

\* Every reachable state has the shape TypeOK gives: no handler writes a status,
\* counter or phase that the schema does not know.
THEOREM TypeCorrect == Spec => []TypeOK
  BY TypeInit, TypeStep, PTL DEF Spec

-----------------------------------------------------------------------------
(* Frames: which actions touch the state an invariant is about             *)

LEMMA GateFrame ==
    ASSUME [Next]_vars
    PROVE  \/ UNCHANGED <<ex, gate>>
           \/ \E r \in Runs : \/ StartRead(r) \/ StartMutation(r) \/ EndRun(r)
                              \/ \E v \in {"success", "failed"} : Finish(r, v)
           \/ \E h \in Hosts : ReturnToken(h) \/ AgentCrash(h)
  <1> USE DEF dbVars, batchVars, handlerVars, agentVars, boundVars
  <1>1. CASE Creation
    BY <1>1 DEF Creation, CreateBatch, CreateJob, CreateBatchRun, AddJob, AddJobFails
  <1>2. CASE Polling
    BY <1>2 DEF Polling, PollHandler, SendPoll, PollEmpty, ClaimJob, PollFails,
                MarkRead, MarkWrite, CountStarted, PollReply
  <1>3. CASE Execution
    BY <1>3 DEF Execution, SendProgress
  <1>4. CASE Reporting
    BY <1>4 DEF Reporting, ProgressRead, ProgressWrite, ResultRead, ResultWrite,
                CountCompleted, CompleteBatch
  <1>5. CASE Recovery
    BY <1>5 DEF Recovery, GrowStale, SweepRead, SweepWrite
  <1>6. CASE Cancelling
    BY <1>6 DEF Cancelling, CancelRead, CancelWrite, CancelRemove, CancelFinish
  <1>7. CASE Crashes
    BY <1>7 DEF Crashes, ControlPlaneRestart
  <1>8. CASE UNCHANGED vars
    BY <1>8 DEF vars
  <1> QED
    BY <1>1, <1>2, <1>3, <1>4, <1>5, <1>6, <1>7, <1>8 DEF Next

LEMMA PollFrame ==
    ASSUME [Next]_vars
    PROVE  \/ UNCHANGED <<polls, live, claim, loop, hand, gate>>
           \/ \E h \in Hosts : SendPoll(h) \/ PollFails(h) \/ ReturnToken(h) \/ AgentCrash(h)
           \/ \E p \in polls : PollEmpty(p) \/ \E r \in Runs : ClaimJob(p, r)
           \/ \E r \in Runs : \/ MarkRead(r) \/ MarkWrite(r) \/ CountStarted(r)
                              \/ PollReply(r) \/ StartRead(r) \/ StartMutation(r)
                              \/ EndRun(r)
           \/ ControlPlaneRestart
  <1> USE DEF dbVars, batchVars, handlerVars, agentVars, boundVars
  <1>1. CASE Creation
    BY <1>1 DEF Creation, CreateBatch, CreateJob, CreateBatchRun, AddJob, AddJobFails
  <1>2. CASE Polling
    BY <1>2 DEF Polling, PollHandler
  <1>3. CASE Execution
    BY <1>3 DEF Execution, SendProgress, Finish
  <1>4. CASE Reporting
    BY <1>4 DEF Reporting, ProgressRead, ProgressWrite, ResultRead, ResultWrite,
                CountCompleted, CompleteBatch
  <1>5. CASE Recovery
    BY <1>5 DEF Recovery, GrowStale, SweepRead, SweepWrite
  <1>6. CASE Cancelling
    BY <1>6 DEF Cancelling, CancelRead, CancelWrite, CancelRemove, CancelFinish
  <1>7. CASE Crashes
    BY <1>7 DEF Crashes
  <1>8. CASE UNCHANGED vars
    BY <1>8 DEF vars
  <1> QED
    BY <1>1, <1>2, <1>3, <1>4, <1>5, <1>6, <1>7, <1>8 DEF Next

-----------------------------------------------------------------------------
(* Mutations are serialized                                                *)

LEMMA GateStep == TypeOK /\ GateHeld /\ [Next]_vars => GateHeld'
  <1> SUFFICES ASSUME TypeOK, GateHeld, [Next]_vars PROVE GateHeld'
    OBVIOUS
  <1> USE PipelineAssumption
          DEF TypeOK, PipelineAssumption, GateHeld, MutationsSerialized, IsMutation, IsRead
  <1>1. CASE UNCHANGED <<ex, gate>>
    BY <1>1
  <1>2. ASSUME NEW r \in Runs, StartRead(r) PROVE GateHeld'
    BY <1>2 DEF StartRead
  <1>3. ASSUME NEW r \in Runs, StartMutation(r) PROVE GateHeld'
    BY <1>3 DEF StartMutation
  <1>4. ASSUME NEW r \in Runs, NEW v \in {"success", "failed"}, Finish(r, v) PROVE GateHeld'
    BY <1>4 DEF Finish
  <1>5. ASSUME NEW r \in Runs, EndRun(r) PROVE GateHeld'
    BY <1>5 DEF EndRun
  <1>6. ASSUME NEW h \in Hosts, ReturnToken(h) PROVE GateHeld'
    BY <1>6 DEF ReturnToken
  <1>7. ASSUME NEW h \in Hosts, AgentCrash(h) PROVE GateHeld'
    BY <1>7 DEF AgentCrash
  <1> QED
    BY <1>1, <1>2, <1>3, <1>4, <1>5, <1>6, <1>7, GateFrame

\* executionLimiter: one host never executes two mutations at once, whatever is
\* lost or crashes.
THEOREM MutationsAreSerialized == Spec => []MutationsSerialized
  <1>1. Init => GateHeld
    BY PipelineAssumption
    DEF Init, GateHeld, MutationsSerialized, PipelineAssumption
  <1> QED
    BY <1>1, TypeCorrect, GateStep, PTL DEF Spec, GateHeld

-----------------------------------------------------------------------------
(* No mutation is parked behind another                                    *)

\* Both programs keep the same allowlist, so a run the control plane hands out
\* while a mutation is busy is one the agent does not put behind the gate.
LEMMA AllowlistsAgree == CPReadOnly = AgentReadOnly
  BY DEF CPReadOnly, AgentReadOnly

LEMMA PollStep == TypeOK /\ OnePoll /\ PollIsHonest /\ [Next]_vars => OnePoll' /\ PollIsHonest'
  <1> SUFFICES ASSUME TypeOK, OnePoll, PollIsHonest, [Next]_vars
               PROVE  OnePoll' /\ PollIsHonest'
    OBVIOUS
  <1> USE PipelineAssumption
          DEF TypeOK, PipelineAssumption, OnePoll, PollIsHonest, NoParkedMutation, Poll
  <1>1. CASE UNCHANGED <<polls, live, claim, loop, hand, gate>>
    BY <1>1
  <1>2. ASSUME NEW h \in Hosts, SendPoll(h) PROVE OnePoll' /\ PollIsHonest'
    <2> DEFINE new == [host |-> h, busy |-> gate[h] = "held", lost |-> 0]
    <2>1. /\ polls' = polls \cup {new}
          /\ new.host = h /\ new.lost = 0
          /\ loop' = [loop EXCEPT ![h] = "polling"]
          /\ UNCHANGED <<live, claim, hand, gate>>
      BY <1>2 DEF SendPoll
    <2>2. ~new.busy => gate[h] # "held"
      BY Zenon
    <2>3. /\ loop[h] = "ready"
          /\ \A r \in hand : HostOf[r] # h
      BY <1>2 DEF SendPoll
    <2> HIDE DEF new
    <2>4. OnePoll'
      BY <2>1, <2>3
    <2>5. PollIsHonest'
      BY <2>1, <2>2
    <2> QED
      BY <2>4, <2>5
  <1>3. ASSUME NEW h \in Hosts, PollFails(h) PROVE OnePoll' /\ PollIsHonest'
    BY <1>3 DEF PollFails, Disown
  <1>4. ASSUME NEW h \in Hosts, ReturnToken(h) PROVE OnePoll' /\ PollIsHonest'
    BY <1>4 DEF ReturnToken, handlerVars
  <1>5. ASSUME NEW h \in Hosts, AgentCrash(h) PROVE OnePoll' /\ PollIsHonest'
    BY <1>5 DEF AgentCrash, Disown
  <1>6. ASSUME NEW p \in polls, PollEmpty(p) PROVE OnePoll' /\ PollIsHonest'
    BY <1>6 DEF PollEmpty
  <1>7. ASSUME NEW p \in polls, NEW r \in Runs, ClaimJob(p, r) PROVE OnePoll' /\ PollIsHonest'
    <2>1. IsMutation(r) /\ p.lost = 0 => gate[p.host] # "held"
      BY <1>7, AllowlistsAgree DEF ClaimJob, Eligible, IsMutation, IsRead
    <2>2. HostOf[r] = p.host
      BY <1>7 DEF ClaimJob, Eligible
    <2> QED
      BY <1>7, <2>1, <2>2 DEF ClaimJob, agentVars
  <1>8. ASSUME NEW r \in Runs, MarkRead(r) \/ MarkWrite(r) \/ CountStarted(r)
        PROVE OnePoll' /\ PollIsHonest'
    BY <1>8 DEF MarkRead, MarkWrite, CountStarted, agentVars
  <1>9. ASSUME NEW r \in Runs, PollReply(r) PROVE OnePoll' /\ PollIsHonest'
    BY <1>9 DEF PollReply
  <1>10. ASSUME NEW r \in Runs, StartRead(r) PROVE OnePoll' /\ PollIsHonest'
    BY <1>10 DEF StartRead, handlerVars
  <1>11. ASSUME NEW r \in Runs, StartMutation(r) PROVE OnePoll' /\ PollIsHonest'
    BY <1>11 DEF StartMutation, handlerVars
  <1>12. ASSUME NEW r \in Runs, EndRun(r) PROVE OnePoll' /\ PollIsHonest'
    BY <1>12 DEF EndRun, handlerVars
  <1>13. ASSUME ControlPlaneRestart PROVE OnePoll' /\ PollIsHonest'
    BY <1>13 DEF ControlPlaneRestart
  <1> QED
    BY <1>1, <1>2, <1>3, <1>4, <1>5, <1>6, <1>7, <1>8, <1>9, <1>10, <1>11, <1>12,
       <1>13, PollFrame

\* The comment in loop.go holds: no mutation waits in an agent, or in a reply to
\* it, behind the mutation the agent executes; the queue is the only backlog.
THEOREM QueueIsSoleBacklog == Spec => []NoParkedMutation
  <1>1. Init => OnePoll /\ PollIsHonest
    BY DEF Init, OnePoll, PollIsHonest, NoParkedMutation
  <1> QED
    BY <1>1, TypeCorrect, PollStep, PTL DEF Spec, PollIsHonest

-----------------------------------------------------------------------------
(* A run is executed at most once                                          *)

Placed == OnePlace /\ BatchRuns

LEMMA PlacedInit == Init => Placed
  BY PipelineAssumption
  DEF Init, Placed, OnePlace, BatchRuns, PipelineAssumption, Idle

LEMMA PlacedStep == TypeOK /\ Placed /\ [Next]_vars => Placed'
  <1> SUFFICES ASSUME TypeOK, Placed, [Next]_vars PROVE Placed'
    OBVIOUS
  <1> USE PipelineAssumption
          DEF TypeOK, PipelineAssumption, Placed, OnePlace, BatchRuns,
              dbVars, batchVars, handlerVars, agentVars, boundVars
  <1>1. CASE Creation
    <2>1. ASSUME CreateBatch PROVE Placed'
      BY <2>1 DEF CreateBatch
    <2>2. ASSUME NEW r \in Runs, CreateJob(r) PROVE Placed'
      BY <2>2 DEF CreateJob
    <2>3. ASSUME NEW r \in Runs, CreateBatchRun(r) PROVE Placed'
      BY <2>3 DEF CreateBatchRun
    <2>4. ASSUME NEW r \in Runs, AddJob(r) PROVE Placed'
      BY <2>4 DEF AddJob
    <2>5. ASSUME NEW r \in Runs, AddJobFails(r) PROVE Placed'
      BY <2>5 DEF AddJobFails
    <2> QED
      BY <1>1, <2>1, <2>2, <2>3, <2>4, <2>5 DEF Creation
  <1>2. CASE Polling
    <2>1. ASSUME NEW h \in Hosts, SendPoll(h) \/ PollFails(h) PROVE Placed'
      BY <2>1 DEF SendPoll, PollFails
    <2>2. ASSUME NEW p \in polls, PollEmpty(p) PROVE Placed'
      BY <2>2 DEF PollEmpty
    <2>3. ASSUME NEW p \in polls, NEW r \in Runs, ClaimJob(p, r) PROVE Placed'
      BY <2>3 DEF ClaimJob, Eligible
    <2>4. ASSUME NEW r \in Runs, MarkRead(r) PROVE Placed'
      BY <2>4 DEF MarkRead
    <2>5. ASSUME NEW r \in Runs, MarkWrite(r) PROVE Placed'
      BY <2>5 DEF MarkWrite
    <2>6. ASSUME NEW r \in Runs, CountStarted(r) PROVE Placed'
      BY <2>6 DEF CountStarted
    <2>7. ASSUME NEW r \in Runs, PollReply(r) PROVE Placed'
      BY <2>7 DEF PollReply
    <2> QED
      BY <1>2, <2>1, <2>2, <2>3, <2>4, <2>5, <2>6, <2>7 DEF Polling, PollHandler
  <1>3. CASE Execution
    <2>1. ASSUME NEW r \in Runs, StartRead(r) PROVE Placed'
      BY <2>1 DEF StartRead
    <2>2. ASSUME NEW r \in Runs, StartMutation(r) PROVE Placed'
      BY <2>2 DEF StartMutation
    <2>3. ASSUME NEW r \in Runs, SendProgress(r) PROVE Placed'
      BY <2>3 DEF SendProgress
    <2>4. ASSUME NEW r \in Runs, NEW v \in {"success", "failed"}, Finish(r, v)
          PROVE Placed'
      BY <2>4 DEF Finish
    <2>5. ASSUME NEW r \in Runs, EndRun(r) PROVE Placed'
      BY <2>5 DEF EndRun
    <2>6. ASSUME NEW h \in Hosts, ReturnToken(h) PROVE Placed'
      BY <2>6 DEF ReturnToken
    <2> QED
      BY <1>3, <2>1, <2>2, <2>3, <2>4, <2>5, <2>6 DEF Execution
  <1>4. CASE Reporting
    <2>1. ASSUME NEW r \in Runs, ProgressRead(r) \/ ProgressWrite(r) PROVE Placed'
      BY <2>1 DEF ProgressRead, ProgressWrite
    <2>2. ASSUME NEW r \in Runs, ResultRead(r) PROVE Placed'
      BY <2>2 DEF ResultRead
    <2>3. ASSUME NEW r \in Runs, ResultWrite(r) PROVE Placed'
      BY <2>3 DEF ResultWrite
    <2>4. ASSUME NEW r \in Runs, CountCompleted(r) PROVE Placed'
      <3>1. batch # "none"
        BY <2>4 DEF CountCompleted
      <3> QED
        BY <2>4, <3>1 DEF CountCompleted
    <2>5. ASSUME NEW r \in Runs, CompleteBatch(r) PROVE Placed'
      BY <2>5 DEF CompleteBatch
    <2> QED
      BY <1>4, <2>1, <2>2, <2>3, <2>4, <2>5 DEF Reporting
  <1>5. CASE Recovery
    <2>1. ASSUME NEW r \in Runs, GrowStale(r) PROVE Placed'
      BY <2>1 DEF GrowStale
    <2>2. ASSUME NEW r \in Runs, SweepWrite(r) PROVE Placed'
      <3>1. CASE status[r] = "running"
        <4>1. /\ status' = [status EXCEPT ![r] = "failed"]
              /\ UNCHANGED <<queue, batch, counts, creating, batchLeft, claim, res,
                             cancel, hand, ex, ran>>
          BY <2>2, <3>1 DEF SweepWrite
        <4>2. OnePlace'
          BY <3>1, <4>1
        <4>3. BatchRuns'
          BY <3>1, <4>1 DEF CancelState
        <4> QED
          BY <4>2, <4>3
      <3>2. CASE status[r] # "running"
        BY <2>2, <3>2 DEF SweepWrite
      <3> QED
        BY <3>1, <3>2
    <2>3. ASSUME SweepRead PROVE Placed'
      BY <2>3 DEF SweepRead
    <2> QED
      BY <1>5, <2>1, <2>2, <2>3 DEF Recovery
  <1>6. CASE Cancelling
    <2>1. ASSUME NEW c \in Cancels, CancelRead(c) PROVE Placed'
      BY <2>1 DEF CancelRead, CancelState
    <2>2. ASSUME NEW c \in Cancels, NEW r \in Runs, CancelWrite(c, r) PROVE Placed'
      BY <2>2 DEF CancelWrite, CancelState
    <2>3. ASSUME NEW c \in Cancels, NEW r \in Runs, CancelRemove(c, r) PROVE Placed'
      BY <2>3 DEF CancelRemove, CancelState
    <2>4. ASSUME NEW c \in Cancels, CancelFinish(c) PROVE Placed'
      BY <2>4 DEF CancelFinish, CancelState, Ended
    <2> QED
      BY <1>6, <2>1, <2>2, <2>3, <2>4 DEF Cancelling
  <1>7. CASE Crashes
    <2>1. ASSUME ControlPlaneRestart PROVE Placed'
      BY <2>1 DEF ControlPlaneRestart, Ended
    <2>2. ASSUME NEW h \in Hosts, AgentCrash(h) PROVE Placed'
      BY <2>2 DEF AgentCrash
    <2> QED
      BY <1>7, <2>1, <2>2 DEF Crashes
  <1>8. CASE UNCHANGED vars
    BY <1>8 DEF vars
  <1> QED
    BY <1>1, <1>2, <1>3, <1>4, <1>5, <1>6, <1>7, <1>8 DEF Next

LEMMA PlacedAlways == Spec => [](TypeOK /\ Placed)
  BY TypeInit, TypeStep, PlacedInit, PlacedStep, PTL DEF Spec

\* No run is started twice, by the same or another process of the agent, although
\* polls, replies and either program may be lost at any point.
THEOREM ExecutedAtMostOnce == Spec => NoDoubleExecution
  <1>1. TypeOK /\ Placed /\ [Next]_vars => [\A r \in Runs : Starts(r) => r \notin ran]_vars
    <2> SUFFICES ASSUME TypeOK, Placed, [Next]_vars, NEW r \in Runs, Starts(r)
                 PROVE  r \notin ran
      OBVIOUS
    <2> USE DEF Placed, OnePlace, Starts, TypeOK
    <2>1. CASE UNCHANGED <<ex, gate>>
      BY <2>1
    <2>2. ASSUME NEW s \in Runs, StartRead(s) \/ StartMutation(s) PROVE r \notin ran
      BY <2>2 DEF StartRead, StartMutation
    <2>3. ASSUME NEW s \in Runs, EndRun(s) PROVE r \notin ran
      BY <2>3 DEF EndRun
    <2>4. ASSUME NEW s \in Runs, NEW v \in {"success", "failed"}, Finish(s, v) PROVE r \notin ran
      BY <2>4 DEF Finish
    <2>5. ASSUME NEW h \in Hosts, ReturnToken(h) PROVE r \notin ran
      BY <2>5 DEF ReturnToken
    <2>6. ASSUME NEW h \in Hosts, AgentCrash(h) PROVE r \notin ran
      BY <2>6 DEF AgentCrash
    <2> QED
      BY <2>1, <2>2, <2>3, <2>4, <2>5, <2>6, GateFrame
  <1> QED
    BY <1>1, PlacedAlways, PTL DEF Spec, NoDoubleExecution

-----------------------------------------------------------------------------
(* The counters of the batch                                               *)

LEMMA CountsFrame ==
    ASSUME [Next]_vars
    PROVE  \/ UNCHANGED <<batch, counts>>
           \/ CreateBatch
           \/ \E r \in Runs : CountStarted(r) \/ CountCompleted(r) \/ CompleteBatch(r)
           \/ \E c \in Cancels : CancelFinish(c)
  <1> USE DEF dbVars, batchVars, handlerVars, agentVars, boundVars
  <1>1. CASE Creation
    BY <1>1 DEF Creation, CreateJob, CreateBatchRun, AddJob, AddJobFails
  <1>2. CASE Polling
    BY <1>2 DEF Polling, PollHandler, SendPoll, PollEmpty, ClaimJob, PollFails,
                MarkRead, MarkWrite, PollReply
  <1>3. CASE Execution
    BY <1>3 DEF Execution, StartRead, StartMutation, SendProgress, Finish, EndRun, ReturnToken
  <1>4. CASE Reporting
    BY <1>4 DEF Reporting, ProgressRead, ProgressWrite, ResultRead, ResultWrite
  <1>5. CASE Recovery
    BY <1>5 DEF Recovery, GrowStale, SweepRead, SweepWrite
  <1>6. CASE Cancelling
    BY <1>6 DEF Cancelling, CancelRead, CancelWrite, CancelRemove
  <1>7. CASE Crashes
    BY <1>7 DEF Crashes, ControlPlaneRestart, AgentCrash
  <1>8. CASE UNCHANGED vars
    BY <1>8 DEF vars
  <1> QED
    BY <1>1, <1>2, <1>3, <1>4, <1>5, <1>6, <1>7, <1>8 DEF Next

\* "total = pending + running + success + failed + cancelled" for any number of
\* runs and of cancel requests at the same time, and over restarts.
THEOREM BatchCountsAddUp == Spec => []CountsAddUp
  <1>1. Init => CountsAddUp
    BY DEF Init, CountsAddUp
  <1>2. TypeOK /\ Placed /\ CountsAddUp /\ [Next]_vars => CountsAddUp'
    <2> SUFFICES ASSUME TypeOK, Placed, CountsAddUp, [Next]_vars PROVE CountsAddUp'
      OBVIOUS
    <2> USE BatchedFinite DEF TypeOK, CountsAddUp, Counters
    <2>1. CASE UNCHANGED <<batch, counts>>
      BY <2>1
    <2>2. CASE CreateBatch
      BY <2>2 DEF CreateBatch, Placed, BatchRuns
    <2>3. ASSUME NEW r \in Runs, CountStarted(r) PROVE CountsAddUp'
      <3>1. batch # "none"
        BY <2>3, PipelineAssumption
        DEF CountStarted, Placed, BatchRuns, OnePlace, PipelineAssumption
      <3> QED
        BY <2>3, <3>1 DEF CountStarted
    <2>4. ASSUME NEW r \in Runs, CountCompleted(r) PROVE CountsAddUp'
      <3>1. batch # "none"
        BY <2>4, PipelineAssumption
        DEF CountCompleted, Placed, BatchRuns, OnePlace, PipelineAssumption
      <3>2. CASE report[r] = "success"
        BY <2>4, <3>1, <3>2 DEF CountCompleted
      <3>3. CASE report[r] = "failed"
        BY <2>4, <3>1, <3>3 DEF CountCompleted
      <3> QED
        BY <3>2, <3>3
    <2>5. ASSUME NEW r \in Runs, CompleteBatch(r) PROVE CountsAddUp'
      BY <2>5, PipelineAssumption
      DEF CompleteBatch, Placed, BatchRuns, OnePlace, PipelineAssumption
    <2>6. ASSUME NEW c \in Cancels, CancelFinish(c) PROVE CountsAddUp'
      <3>1. Cardinality(cancel[c].done) \in Nat
        BY DEF CancelState
      <3>2. batch # "none"
        BY <2>6 DEF CancelFinish, Placed, BatchRuns
      <3> QED
        BY <2>6, <3>1, <3>2 DEF CancelFinish
    <2> QED
      BY <2>1, <2>2, <2>3, <2>4, <2>5, <2>6, CountsFrame
  <1> QED
    BY <1>1, <1>2, PlacedAlways, PTL DEF Spec

-----------------------------------------------------------------------------
(* Finished single jobs stay finished                                      *)

LEMMA StatusFrame ==
    ASSUME [Next]_vars
    PROVE  \/ UNCHANGED <<status, creating, queue, claim>>
           \/ \E r \in Runs : \/ CreateJob(r) \/ CreateBatchRun(r) \/ AddJob(r)
                              \/ AddJobFails(r) \/ MarkRead(r) \/ MarkWrite(r)
                              \/ CountStarted(r) \/ PollReply(r) \/ ResultWrite(r)
                              \/ SweepWrite(r)
           \/ \E p \in polls, r \in Runs : ClaimJob(p, r)
           \/ \E c \in Cancels, r \in Runs : CancelWrite(c, r) \/ CancelRemove(c, r)
           \/ ControlPlaneRestart
  <1> USE DEF dbVars, batchVars, handlerVars, agentVars, boundVars
  <1>1. CASE Creation
    BY <1>1 DEF Creation, CreateBatch
  <1>2. CASE Polling
    BY <1>2 DEF Polling, PollHandler, SendPoll, PollEmpty, PollFails
  <1>3. CASE Execution
    BY <1>3 DEF Execution, StartRead, StartMutation, SendProgress, Finish, EndRun, ReturnToken
  <1>4. CASE Reporting
    BY <1>4 DEF Reporting, ProgressRead, ProgressWrite, ResultRead, CountCompleted,
                CompleteBatch
  <1>5. CASE Recovery
    BY <1>5 DEF Recovery, GrowStale, SweepRead
  <1>6. CASE Cancelling
    BY <1>6 DEF Cancelling, CancelRead, CancelFinish
  <1>7. CASE Crashes
    BY <1>7 DEF Crashes, AgentCrash
  <1>8. CASE UNCHANGED vars
    BY <1>8 DEF vars
  <1> QED
    BY <1>1, <1>2, <1>3, <1>4, <1>5, <1>6, <1>7, <1>8 DEF Next

StatusSteps(r) == status[r] \in Terminal => status'[r] \in Terminal

LEMMA PendingStep ==
    ASSUME TypeOK, Placed, StillPending, [Next]_vars
    PROVE  StillPending' /\ \A r \in Runs \ Batched : StatusSteps(r)
  <1> DEFINE Goal == StillPending' /\ \A r \in Runs \ Batched : StatusSteps(r)
  <1> USE PipelineAssumption
          DEF TypeOK, PipelineAssumption, Placed, OnePlace, StillPending, StatusSteps, Terminal
  <1>1. CASE UNCHANGED <<status, creating, queue, claim>>
    BY <1>1
  <1>2. ASSUME NEW r \in Runs, CreateJob(r) PROVE Goal
    BY <1>2 DEF CreateJob
  <1>3. ASSUME NEW r \in Runs, CreateBatchRun(r) PROVE Goal
    BY <1>3 DEF CreateBatchRun
  <1>4. ASSUME NEW r \in Runs, AddJob(r) PROVE Goal
    BY <1>4 DEF AddJob
  <1>5. ASSUME NEW r \in Runs, AddJobFails(r) PROVE Goal
    BY <1>5 DEF AddJobFails, dbVars
  <1>6. ASSUME NEW r \in Runs, MarkRead(r) PROVE Goal
    BY <1>6 DEF MarkRead, dbVars
  <1>7. ASSUME NEW r \in Runs, MarkWrite(r) PROVE Goal
    BY <1>7 DEF MarkWrite
  <1>8. ASSUME NEW r \in Runs, CountStarted(r) \/ PollReply(r) PROVE Goal
    BY <1>8 DEF CountStarted, PollReply, dbVars
  <1>9. ASSUME NEW r \in Runs, ResultWrite(r) PROVE Goal
    BY <1>9 DEF ResultWrite
  <1>10. ASSUME NEW r \in Runs, SweepWrite(r) PROVE Goal
    <2>1. CASE status[r] = "running"
      BY <1>10, <2>1 DEF SweepWrite
    <2>2. CASE status[r] # "running"
      BY <1>10, <2>2 DEF SweepWrite
    <2> QED
      BY <2>1, <2>2
  <1>11. ASSUME NEW p \in polls, NEW r \in Runs, ClaimJob(p, r) PROVE Goal
    BY <1>11 DEF ClaimJob, Eligible
  <1>12. ASSUME NEW c \in Cancels, NEW r \in Runs, CancelWrite(c, r) PROVE Goal
    BY <1>12 DEF CancelWrite, CancelState
  <1>13. ASSUME NEW c \in Cancels, NEW r \in Runs, CancelRemove(c, r) PROVE Goal
    BY <1>13 DEF CancelRemove
  <1>14. ASSUME ControlPlaneRestart PROVE Goal
    BY <1>14 DEF ControlPlaneRestart, dbVars
  <1> QED
    BY <1>1, <1>2, <1>3, <1>4, <1>5, <1>6, <1>7, <1>8, <1>9, <1>10, <1>11, <1>12,
       <1>13, <1>14, StatusFrame

\* A job run created by createJob that has ended is never reopened.
THEOREM FinishedIsFinal == Spec => FinishedStaysFinished
  <1>1. Init => StillPending
    BY DEF Init, StillPending
  <1>2. TypeOK /\ Placed /\ StillPending /\ [Next]_vars => StillPending'
    BY PendingStep
  <1>3. TypeOK /\ Placed /\ StillPending /\ [Next]_vars
          => [\A r \in Runs \ Batched : status[r] \in Terminal => status'[r] \in Terminal]_vars
    BY PendingStep DEF StatusSteps
  <1> QED
    BY <1>1, <1>2, <1>3, PlacedAlways, PTL DEF Spec, FinishedStaysFinished

-----------------------------------------------------------------------------
(* The verdict on the batch                                                *)

Uncancelled == \A c \in Cancels : cancel[c].pc = "new"
Columns     == {"pending", "running", "success", "failed"}
In(col, k)  == {r \in Batched : col[r] = k}

\* The column that counts a run: what recordJobRunStarted and
\* recordJobRunCompleted were told of it, which its row is ahead of.
Column(col, r) ==
    /\ r \in creating \cup queue \/ claim[r] \in {"taken", "seen"} => status[r] = "pending"
    /\ claim[r] # "skip"
    /\ status[r] = "none" \/ r \in creating \cup queue \/ claim[r] \in {"taken", "seen", "marked"}
         => col[r] = "pending"
    /\ claim[r] = "counted" \/ r \in hand \/ ex[r] = "exec" \/ res[r] \in {"sent", "seen", "written"}
         => col[r] = "running"
    /\ ex[r] = "exec" => res[r] = "no"
    /\ res[r] = "written" => status[r] = report[r]
    /\ col[r] \in {"success", "failed"} => status[r] = col[r]

\* The counters count columns, and a final status was chosen when no run was
\* left in the first two.
Ledger(col) ==
    /\ batch # "none" => \A k \in Columns : counts[k] = Cardinality(In(col, k))
    /\ \A r \in Batched : Column(col, r)
    /\ (batch = "completed" \/ \E r \in Runs : res[r] = "final_ok") =>
         \A s \in Batched : col[s] = "success"
    /\ (batch = "completed_with_failures" \/ \E r \in Runs : res[r] = "final_failures") =>
         /\ \A s \in Batched : col[s] \in {"success", "failed"}
         /\ \E s \in Batched : col[s] = "failed"

VerdictInv == Uncancelled => \E col \in [Batched -> Columns] : Ledger(col)

\* A run moves from column a to column b.
Moved(col, new, a, b) ==
    /\ Cardinality(In(new, a)) = Cardinality(In(col, a)) - 1
    /\ Cardinality(In(new, b)) = Cardinality(In(col, b)) + 1
    /\ \A k \in Columns \ {a, b} : In(new, k) = In(col, k)

LEMMA MoveRun ==
    ASSUME NEW col \in [Batched -> Columns], NEW r \in Batched, NEW a, NEW b \in Columns,
           col[r] = a, a # b, NEW new, new = [col EXCEPT ![r] = b]
    PROVE  Moved(col, new, a, b)
  <1>1. \A k : IsFiniteSet(In(col, k)) /\ Cardinality(In(col, k)) \in Nat
    BY BatchedFinite DEF In
  <1>2. In(new, a) = In(col, a) \ {r} /\ r \in In(col, a)
    BY DEF In
  <1>3. In(new, b) = In(col, b) \cup {r} /\ r \notin In(col, b)
    BY DEF In
  <1>4. \A k \in Columns \ {a, b} : In(new, k) = In(col, k)
    BY DEF In
  <1>5. Cardinality(In(new, a)) = Cardinality(In(col, a)) - 1
    BY <1>1, <1>2, FS_RemoveElement
  <1>6. Cardinality(In(new, b)) = Cardinality(In(col, b)) + 1
    BY <1>1, <1>3, FS_AddElement
  <1> QED
    BY <1>4, <1>5, <1>6 DEF Moved

LEMMA NoColumnLeft ==
    ASSUME NEW col \in [Batched -> Columns]
    PROVE  /\ \A k : Cardinality(In(col, k)) \in Nat
           /\ \A k : Cardinality(In(col, k)) <= 0 <=> \A r \in Batched : col[r] # k
  <1>1. \A k : IsFiniteSet(In(col, k)) /\ Cardinality(In(col, k)) \in Nat
    BY BatchedFinite DEF In
  <1>2. ASSUME NEW k PROVE Cardinality(In(col, k)) <= 0 <=> In(col, k) = {}
    BY <1>1, FS_EmptySet
  <1> QED
    BY <1>1, <1>2 DEF In

\* No cancel request begins in a step after which there is none.
LEMMA UncancelledStep ==
    ASSUME TypeOK, [Next]_vars, Uncancelled'
    PROVE  /\ Uncancelled
           /\ ~ \E c \in Cancels : \/ CancelRead(c) \/ CancelFinish(c)
                                   \/ \E r \in Runs : CancelWrite(c, r) \/ CancelRemove(c, r)
  <1> USE DEF dbVars, batchVars, handlerVars, agentVars, boundVars
  <1>1. ASSUME NEW c \in Cancels
        PROVE  ~ (CancelRead(c) \/ CancelFinish(c) \/ \E r \in Runs : CancelWrite(c, r) \/ CancelRemove(c, r))
    BY DEF CancelRead, CancelFinish, CancelWrite, CancelRemove, Ended, TypeOK, Uncancelled
  <1>2. CASE UNCHANGED cancel
    BY <1>1, <1>2 DEF Uncancelled
  <1>3. CASE ControlPlaneRestart
    BY <1>1, <1>3 DEF Uncancelled, ControlPlaneRestart, Ended
  <1>4. CASE Creation
    BY <1>2, <1>4 DEF Creation, CreateBatch, CreateJob, CreateBatchRun, AddJob, AddJobFails
  <1>5. CASE Polling
    BY <1>2, <1>5 DEF Polling, PollHandler, SendPoll, PollEmpty, ClaimJob, PollFails,
                MarkRead, MarkWrite, CountStarted, PollReply
  <1>6. CASE Execution
    BY <1>2, <1>6 DEF Execution, StartRead, StartMutation, SendProgress, Finish, EndRun, ReturnToken
  <1>7. CASE Reporting
    BY <1>2, <1>7 DEF Reporting, ProgressRead, ProgressWrite, ResultRead, ResultWrite, CountCompleted,
                CompleteBatch
  <1>8. CASE Recovery
    BY <1>2, <1>8 DEF Recovery, GrowStale, SweepRead, SweepWrite
  <1>9. ASSUME NEW h \in Hosts, AgentCrash(h) PROVE UNCHANGED cancel
    BY <1>9 DEF AgentCrash
  <1>10. CASE UNCHANGED vars
    BY <1>2, <1>10 DEF vars
  <1> QED
    BY <1>1, <1>2, <1>3, <1>4, <1>5, <1>6, <1>7, <1>8, <1>9, <1>10 DEF Next, Cancelling, Crashes

LEMMA VerdictStep == TypeOK /\ Placed /\ VerdictInv /\ [Next]_vars => VerdictInv'
  <1> SUFFICES ASSUME TypeOK, Placed, VerdictInv, [Next]_vars, Uncancelled'
               PROVE  \E col \in [Batched -> Columns] : Ledger(col)'
    BY DEF VerdictInv
  <1>1. /\ Uncancelled
        /\ ~ \E c \in Cancels : \/ CancelRead(c) \/ CancelFinish(c)
                                \/ \E r \in Runs : CancelWrite(c, r) \/ CancelRemove(c, r)
    BY UncancelledStep
  <1>2. PICK col \in [Batched -> Columns] : Ledger(col)
    BY <1>1 DEF VerdictInv
  <1> USE <1>2, PipelineAssumption
          DEF TypeOK, PipelineAssumption, Placed, OnePlace, BatchRuns, Ledger, Column,
              dbVars, batchVars, handlerVars, agentVars, boundVars
  <1>3. CASE Creation
    <2>1. ASSUME CreateBatch PROVE Ledger([r \in Batched |-> "pending"])'
      <3> DEFINE new == [r \in Batched |-> "pending"]
      <3>1. In(new, "pending") = Batched /\ \A k \in Columns \ {"pending"} : In(new, k) = {}
        BY DEF In
      <3>2. ASSUME NEW k \in Columns PROVE counts'[k] = Cardinality(In(new, k))
        <4>1. batch = "none" /\ counts' = [counts EXCEPT !["pending"] = Cardinality(Batched)]
          BY <2>1 DEF CreateBatch
        <4>2. counts["pending"] = 0 /\ counts["running"] = 0 /\ counts["success"] = 0 /\ counts["failed"] = 0
          BY <4>1 DEF Counters
        <4>3. Cardinality({}) = 0
          BY FS_EmptySet
        <4>4. CASE k = "pending"
          BY <3>1, <4>1, <4>2, <4>4 DEF Counters
        <4>5. CASE k # "pending"
          <5>1. In(new, k) = {}
            BY <3>1, <4>5
          <5>2. counts'[k] = 0
            BY <4>1, <4>2, <4>5 DEF Columns
          <5> QED
            BY ONLY <4>3, <5>1, <5>2
        <4> QED
          BY <4>4, <4>5
      <3>3. \A r \in Batched : Column(new, r)'
        BY <2>1 DEF CreateBatch
      <3>4. \A r \in Runs : r \in Batched \/ res[r] \notin {"final_ok", "final_failures"}
        OBVIOUS
      <3> QED
        BY <2>1, <3>2, <3>3, <3>4 DEF CreateBatch
    <2>2. ASSUME NEW r \in Runs, CreateJob(r) PROVE Ledger(col)'
      BY <2>2 DEF CreateJob
    <2>3. ASSUME NEW r \in Runs, CreateBatchRun(r) PROVE Ledger(col)'
      BY <2>3 DEF CreateBatchRun
    <2>4. ASSUME NEW r \in Runs, AddJob(r) PROVE Ledger(col)'
      BY <2>4 DEF AddJob
    <2>5. ASSUME NEW r \in Runs, AddJobFails(r) PROVE Ledger(col)'
      BY <2>5 DEF AddJobFails
    <2>6. [r \in Batched |-> "pending"] \in [Batched -> Columns]
      BY DEF Columns
    <2> QED
      BY <1>3, <2>1, <2>2, <2>3, <2>4, <2>5, <2>6 DEF Creation
  <1>4. CASE Polling
    <2>1. ASSUME NEW h \in Hosts, SendPoll(h) \/ PollFails(h) PROVE Ledger(col)'
      BY <2>1 DEF SendPoll, PollFails
    <2>2. ASSUME NEW p \in polls, PollEmpty(p) PROVE Ledger(col)'
      BY <2>2 DEF PollEmpty
    <2>3. ASSUME NEW p \in polls, NEW r \in Runs, ClaimJob(p, r) PROVE Ledger(col)'
      BY <2>3 DEF ClaimJob, Eligible
    <2>4. ASSUME NEW r \in Runs, MarkRead(r) PROVE Ledger(col)'
      BY <2>4 DEF MarkRead
    <2>5. ASSUME NEW r \in Runs, MarkWrite(r) PROVE Ledger(col)'
      BY <2>5 DEF MarkWrite
    <2>6. ASSUME NEW r \in Runs, CountStarted(r) PROVE \E new \in [Batched -> Columns] : Ledger(new)'
      <3>1. r \in Batched /\ col[r] = "pending" /\ batch # "none"
        BY <2>6 DEF CountStarted
      <3>2. PICK new \in [Batched -> Columns] : new = [col EXCEPT ![r] = "running"]
        BY DEF Columns
      <3>3. /\ Cardinality(In(new, "pending")) = Cardinality(In(col, "pending")) - 1
            /\ Cardinality(In(new, "running")) = Cardinality(In(col, "running")) + 1
            /\ \A k \in Columns \ {"pending", "running"} : In(new, k) = In(col, k)
        <4>1. "running" \in Columns
          BY DEF Columns
        <4>2. "pending" # "running"
          OBVIOUS
        <4>3. Moved(col, new, "pending", "running")
          BY ONLY <3>1, <3>2, <4>1, <4>2, MoveRun, col \in [Batched -> Columns]
        <4> QED
          BY ONLY <4>3 DEF Moved
      <3>4. \A k \in Columns : counts'[k] = Cardinality(In(new, k))
        BY <2>6, <3>1, <3>3 DEF CountStarted, Columns, Counters
      <3>5. \A s \in Batched : Column(new, s)'
        BY <2>6, <3>1, <3>2 DEF CountStarted
      <3>6. UNCHANGED <<res, batch>>
        BY <2>6 DEF CountStarted
      <3>7. /\ ~ \A s \in Batched : col[s] = "success"
            /\ ~ \A s \in Batched : col[s] \in {"success", "failed"}
        BY <3>1
      <3>8. /\ ~ (batch = "completed" \/ \E s \in Runs : res[s] = "final_ok")
            /\ ~ (batch = "completed_with_failures" \/ \E s \in Runs : res[s] = "final_failures")
        BY <3>7
      <3> QED
        BY <3>4, <3>5, <3>6, <3>8
    <2>7. ASSUME NEW r \in Runs, PollReply(r) PROVE Ledger(col)'
      BY <2>7 DEF PollReply
    <2> QED
      BY <1>4, <2>1, <2>2, <2>3, <2>4, <2>5, <2>6, <2>7 DEF Polling, PollHandler
  <1>5. CASE Execution
    <2>1. ASSUME NEW r \in Runs, StartRead(r) PROVE Ledger(col)'
      BY <2>1 DEF StartRead
    <2>2. ASSUME NEW r \in Runs, StartMutation(r) PROVE Ledger(col)'
      BY <2>2 DEF StartMutation
    <2>3. ASSUME NEW r \in Runs, SendProgress(r) PROVE Ledger(col)'
      BY <2>3 DEF SendProgress
    <2>4. ASSUME NEW r \in Runs, NEW v \in {"success", "failed"}, Finish(r, v) PROVE Ledger(col)'
      BY <2>4 DEF Finish
    <2>5. ASSUME NEW r \in Runs, EndRun(r) PROVE Ledger(col)'
      BY <2>5 DEF EndRun
    <2>6. ASSUME NEW h \in Hosts, ReturnToken(h) PROVE Ledger(col)'
      BY <2>6 DEF ReturnToken
    <2>7. ASSUME NEW r \in Runs, \E v \in {"success", "failed"} : Finish(r, v) PROVE Ledger(col)'
      BY ONLY <2>4, <2>7
    <2>8. Ledger(col)'
      BY ONLY <1>5, <2>1, <2>2, <2>3, <2>5, <2>6, <2>7 DEF Execution
    <2> QED
      BY ONLY <1>2, <2>8
  <1>6. CASE Reporting
    <2>1. ASSUME NEW r \in Runs, ProgressRead(r) \/ ProgressWrite(r) PROVE Ledger(col)'
      BY <2>1 DEF ProgressRead, ProgressWrite
    <2>2. ASSUME NEW r \in Runs, ResultRead(r) PROVE Ledger(col)'
      BY <2>2 DEF ResultRead
    <2>3. ASSUME NEW r \in Runs, ResultWrite(r) PROVE Ledger(col)'
      BY <2>3 DEF ResultWrite
    <2>4. ASSUME NEW r \in Runs, CountCompleted(r) PROVE \E new \in [Batched -> Columns] : Ledger(new)'
      <3>1. r \in Batched /\ col[r] = "running" /\ batch # "none" /\ report[r] \in {"success", "failed"}
        BY <2>4 DEF CountCompleted
      <3>2. PICK new \in [Batched -> Columns] : new = [col EXCEPT ![r] = report[r]]
        BY <3>1 DEF Columns
      <3>3. /\ Cardinality(In(new, "running")) = Cardinality(In(col, "running")) - 1
            /\ Cardinality(In(new, report[r])) = Cardinality(In(col, report[r])) + 1
            /\ \A k \in Columns \ {"running", report[r]} : In(new, k) = In(col, k)
        <4>1. report[r] \in Columns /\ "running" # report[r]
          BY <3>1 DEF Columns
        <4>2. Moved(col, new, "running", report[r])
          BY ONLY <3>1, <3>2, <4>1, MoveRun, col \in [Batched -> Columns]
        <4> QED
          BY ONLY <4>2 DEF Moved
      <3>4. PICK updated : /\ updated = [counts EXCEPT ![report[r]] = @ + 1, !["running"] = @ - 1]
                           /\ counts' = updated
                           /\ res' = [res EXCEPT ![r] =
                                 IF updated["pending"] <= 0 /\ updated["running"] <= 0
                                 THEN IF updated["failed"] > 0 THEN "final_failures" ELSE "final_ok"
                                 ELSE "no"]
        BY <2>4 DEF CountCompleted
      <3>5. \A k \in Columns : counts'[k] = Cardinality(In(new, k))
        <4>1. CASE report[r] = "success"
          BY <3>1, <3>3, <3>4, <4>1 DEF Columns, Counters
        <4>2. CASE report[r] = "failed"
          BY <3>1, <3>3, <3>4, <4>2 DEF Columns, Counters
        <4> QED
          BY <3>1, <4>1, <4>2
      <3>6. UNCHANGED <<status, batch, creating, queue, claim, hand, ex, report>>
        BY <2>4 DEF CountCompleted
      <3>7. ASSUME NEW s \in Batched PROVE Column(new, s)'
        <4>1. CASE s = r
          <5>1. new[r] = report[r] /\ status[r] = report[r] /\ res[r] = "written"
            BY <2>4, <3>1, <3>2 DEF CountCompleted
          <5>2. res'[r] \in {"no", "final_ok", "final_failures"}
            BY <3>4
          <5>3. r \in ran /\ ex[r] # "exec"
            BY <5>1
          <5>4. r \notin creating \cup queue /\ claim[r] = "no" /\ r \notin hand
            BY <5>3
          <5> QED
            BY ONLY <3>1, <3>6, <4>1, <5>1, <5>2, <5>3, <5>4 DEF Column
        <4>2. CASE s # r
          <5>1. new[s] = col[s] /\ res'[s] = res[s]
            BY <3>2, <3>4, <4>2
          <5> QED
            BY <3>6, <5>1
        <4> QED
          BY <4>1, <4>2
      <3>8. ASSUME updated["pending"] <= 0, updated["running"] <= 0
            PROVE  \A s \in Batched : new[s] \in {"success", "failed"}
        <4>1. \A s \in Batched : new[s] # "pending" /\ new[s] # "running"
          BY <3>4, <3>5, <3>8, NoColumnLeft DEF Columns
        <4> QED
          BY <4>1 DEF Columns
      <3>9. updated["failed"] > 0 <=> \E s \in Batched : new[s] = "failed"
        <4>1. updated["failed"] = Cardinality(In(new, "failed"))
          BY <3>4, <3>5 DEF Columns
        <4> QED
          BY <4>1, NoColumnLeft
      <3>10. \E s \in Batched : col[s] \notin {"success", "failed"}
        BY <3>1
      <3>11. (\E s \in Runs : res'[s] = "final_ok") => \A s \in Batched : new[s] = "success"
        BY <3>4, <3>8, <3>9, <3>10
      <3>12. (\E s \in Runs : res'[s] = "final_failures") =>
               /\ \A s \in Batched : new[s] \in {"success", "failed"}
               /\ \E s \in Batched : new[s] = "failed"
        BY <3>4, <3>8, <3>9, <3>10
      <3> QED
        BY <3>5, <3>6, <3>7, <3>10, <3>11, <3>12
    <2>5. ASSUME NEW r \in Runs, CompleteBatch(r) PROVE Ledger(col)'
      BY <2>5 DEF CompleteBatch
    <2> QED
      BY <1>6, <2>1, <2>2, <2>3, <2>4, <2>5 DEF Reporting
  <1>7. CASE Recovery
    <2>1. ASSUME NEW r \in Runs, GrowStale(r) PROVE Ledger(col)'
      BY <2>1 DEF GrowStale
    <2>2. ASSUME NEW r \in Runs, SweepWrite(r) PROVE Ledger(col)'
      BY <2>2 DEF SweepWrite
    <2>3. ASSUME SweepRead PROVE Ledger(col)'
      BY <2>3 DEF SweepRead
    <2> QED
      BY <1>7, <2>1, <2>2, <2>3 DEF Recovery
  <1>8. CASE Crashes
    <2>1. ASSUME ControlPlaneRestart PROVE Ledger(col)'
      BY <2>1 DEF ControlPlaneRestart
    <2>2. ASSUME NEW h \in Hosts, AgentCrash(h) PROVE Ledger(col)'
      BY <2>2 DEF AgentCrash
    <2> QED
      BY <1>8, <2>1, <2>2 DEF Crashes
  <1>9. CASE UNCHANGED vars
    BY <1>9 DEF vars
  <1> QED
    BY <1>1, <1>3, <1>4, <1>5, <1>6, <1>7, <1>8, <1>9 DEF Next, Cancelling

\* recordJobRunCompleted decides on counters that lag behind the rows, yet a
\* batch that nobody cancels gets the verdict its runs deserve.
THEOREM VerdictIsTrue == Spec => []BatchVerdict
  <1>1. Init => VerdictInv
    <2> SUFFICES ASSUME Init PROVE Ledger([r \in Batched |-> "pending"])
      BY DEF VerdictInv, Columns
    <2> QED
      BY PipelineAssumption DEF Init, Ledger, Column, PipelineAssumption
  <1>2. TypeOK /\ VerdictInv => BatchVerdict
    BY DEF VerdictInv, Ledger, Column, BatchVerdict, Uncancelled
  <1> QED
    BY <1>1, <1>2, VerdictStep, PlacedAlways, PTL DEF Spec

-----------------------------------------------------------------------------
(* JobPipeline implements JobRun: the invariant of a single job's row       *)

\* What a single job's row says while the run is on its way: it was marked
\* before the reply that hands it over, and a result that was accepted finds a
\* row that runs or was released meanwhile.
Lifecycle ==
    \A r \in Runs \ Batched :
        /\ claim[r] = "counted" \/ r \in hand => status[r] \notin {"none", "pending"}
        /\ claim[r] # "skip"
        /\ res[r] = "seen" => status[r] \in {"running", "failed"}

LEMMA LifecycleFrame ==
    ASSUME [Next]_vars
    PROVE  \/ UNCHANGED <<status, claim, hand, res, ran>>
           \/ \E r \in Runs : \/ CreateJob(r) \/ CreateBatchRun(r) \/ MarkRead(r)
                              \/ MarkWrite(r) \/ CountStarted(r) \/ PollReply(r)
                              \/ StartRead(r) \/ StartMutation(r)
                              \/ \E v \in {"success", "failed"} : Finish(r, v)
                              \/ ResultRead(r) \/ ResultWrite(r)
                              \/ CountCompleted(r) \/ CompleteBatch(r) \/ SweepWrite(r)
           \/ \E p \in polls, r \in Runs : ClaimJob(p, r)
           \/ \E c \in Cancels, r \in Runs : CancelWrite(c, r)
           \/ \E h \in Hosts : AgentCrash(h)
           \/ ControlPlaneRestart
  <1> USE DEF dbVars, batchVars, handlerVars, agentVars, boundVars
  <1>1. CASE Creation
    BY <1>1 DEF Creation, CreateBatch, AddJob, AddJobFails
  <1>2. CASE Polling
    BY <1>2 DEF Polling, PollHandler, SendPoll, PollEmpty, PollFails
  <1>3. CASE Execution
    BY <1>3 DEF Execution, SendProgress, EndRun, ReturnToken
  <1>4. CASE Reporting
    BY <1>4 DEF Reporting, ProgressRead, ProgressWrite
  <1>5. CASE Recovery
    BY <1>5 DEF Recovery, GrowStale, SweepRead
  <1>6. CASE Cancelling
    BY <1>6 DEF Cancelling, CancelRead, CancelRemove, CancelFinish
  <1>7. CASE Crashes
    BY <1>7 DEF Crashes
  <1>8. CASE UNCHANGED vars
    BY <1>8 DEF vars
  <1> QED
    BY <1>1, <1>2, <1>3, <1>4, <1>5, <1>6, <1>7, <1>8 DEF Next

-----------------------------------------------------------------------------
(* Every step keeps the invariant and is a step of JobRun or a stutter     *)

\* Writing a single job's row is writing its status in JobRun.
LEMMA RowWrite ==
    ASSUME TypeOK, NEW r \in Runs \ Batched, NEW v,
           status' = [status EXCEPT ![r] = v], ran' = ran
    PROVE  Single!Becomes(r, v)
  <1> DEFINE before == [q \in Runs \ Batched |-> status[q]]
             after  == [q \in Runs \ Batched |-> status'[q]]
  <1>1. after = [before EXCEPT ![r] = v]
    BY DEF TypeOK
  <1>2. ran' \ Batched = ran \ Batched
    OBVIOUS
  <1> QED
    BY <1>1, <1>2 DEF Single!Becomes

LEMMA LifecycleStep ==
    ASSUME TypeOK, Placed, StillPending, Lifecycle, [Next]_vars
    PROVE  Lifecycle' /\ [Single!Next]_(Single!vars)
  <1> DEFINE Goal == Lifecycle' /\ [Single!Next]_(Single!vars)
  <1> USE PipelineAssumption
          DEF TypeOK, PipelineAssumption, Placed, OnePlace, BatchRuns, StillPending,
              Lifecycle, dbVars, batchVars, agentVars
  <1>1. CASE UNCHANGED <<status, claim, hand, res, ran>>
    BY <1>1 DEF Single!vars
  <1>2. ASSUME NEW r \in Runs, CreateJob(r) PROVE Goal
    <2>1. Lifecycle'
      BY <1>2 DEF CreateJob
    <2>2. /\ r \in Runs \ Batched /\ status[r] = "none"
          /\ status' = [status EXCEPT ![r] = "pending"]
          /\ ran' = ran
      BY <1>2 DEF CreateJob
    <2>3. Single!Create(r)
      BY <2>2, RowWrite DEF Single!Create
    <2> QED
      BY <2>1, <2>2, <2>3 DEF Single!Next
  <1>3. ASSUME NEW r \in Runs, CreateBatchRun(r) PROVE Goal
    BY <1>3 DEF CreateBatchRun, Single!vars
  <1>4. ASSUME NEW r \in Runs, MarkRead(r) PROVE Goal
    BY <1>4 DEF MarkRead, Single!vars
  <1>5. ASSUME NEW r \in Runs, MarkWrite(r) PROVE Goal
    <2>1. Lifecycle'
      BY <1>5 DEF MarkWrite
    <2>2. CASE r \in Batched
      BY <1>5, <2>1, <2>2 DEF MarkWrite, Single!vars
    <2>3. CASE r \notin Batched
      <3>1. Single!Start(r)
        BY <1>5, <2>3, RowWrite DEF MarkWrite, Single!Start
      <3> QED
        BY <2>1, <2>3, <3>1 DEF Single!Next
    <2> QED
      BY <2>2, <2>3
  <1>6. ASSUME NEW r \in Runs, CountStarted(r) \/ PollReply(r) PROVE Goal
    BY <1>6 DEF CountStarted, PollReply, Single!vars
  <1>7. ASSUME NEW r \in Runs, StartRead(r) \/ StartMutation(r) PROVE Goal
    <2>1. /\ r \in hand /\ hand' = hand \ {r} /\ ran' = ran \cup {r}
          /\ UNCHANGED <<status, claim, res>>
      BY <1>7 DEF StartRead, StartMutation, handlerVars
    <2>2. Lifecycle'
      BY <2>1
    <2>3. CASE r \in Batched
      BY <2>1, <2>2, <2>3 DEF Single!vars
    <2>4. CASE r \notin Batched
      <3>1. Single!Execute(r)
        BY <2>1, <2>4 DEF Single!Execute
      <3> QED
        BY <2>2, <2>4, <3>1 DEF Single!Next
    <2> QED
      BY <2>3, <2>4
  <1>8. ASSUME NEW r \in Runs, NEW v \in {"success", "failed"}, Finish(r, v) PROVE Goal
    BY <1>8 DEF Finish, Single!vars
  <1>9. ASSUME NEW r \in Runs, ResultRead(r) \/ CountCompleted(r) \/ CompleteBatch(r)
        PROVE Goal
    BY <1>9 DEF ResultRead, CountCompleted, CompleteBatch, Single!vars
  <1>10. ASSUME NEW r \in Runs, ResultWrite(r) PROVE Goal
    <2>1. Lifecycle'
      BY <1>10 DEF ResultWrite
    <2>2. CASE r \in Batched
      BY <1>10, <2>1, <2>2 DEF ResultWrite, Single!vars
    <2>3. CASE r \notin Batched
      <3>1. PICK v \in {"success", "failed"} : v = report[r]
        BY <2>3
      <3>2. status' = [status EXCEPT ![r] = v] /\ ran' = ran
        BY <1>10, <3>1 DEF ResultWrite
      <3>3. r \in ran \ Batched /\ status[r] \in {"running", "failed"}
        BY <1>10, <2>3 DEF ResultWrite
      <3>4. Single!Report(r, v)
        BY <2>3, <3>2, <3>3, RowWrite DEF Single!Report
      <3> QED
        BY <2>1, <2>3, <3>4 DEF Single!Next
    <2> QED
      BY <2>2, <2>3
  <1>11. ASSUME NEW r \in Runs, SweepWrite(r) PROVE Goal
    <2>1. CASE status[r] # "running"
      BY <1>11, <2>1 DEF SweepWrite, Single!vars
    <2>2. CASE status[r] = "running" /\ r \in Batched
      BY <1>11, <2>2 DEF SweepWrite, Single!vars
    <2>3. CASE status[r] = "running" /\ r \notin Batched
      <3>1. Lifecycle'
        BY <1>11, <2>3 DEF SweepWrite
      <3>2. Single!Release(r)
        BY <1>11, <2>3, RowWrite DEF SweepWrite, Single!Release
      <3> QED
        BY <2>3, <3>1, <3>2 DEF Single!Next
    <2> QED
      BY <2>1, <2>2, <2>3
  <1>12. ASSUME NEW p \in polls, NEW r \in Runs, ClaimJob(p, r) PROVE Goal
    BY <1>12 DEF ClaimJob, Single!vars
  <1>13. ASSUME NEW c \in Cancels, NEW r \in Runs, CancelWrite(c, r) PROVE Goal
    BY <1>13 DEF CancelWrite, CancelState, Single!vars
  <1>14. ASSUME NEW h \in Hosts, AgentCrash(h) PROVE Goal
    BY <1>14 DEF AgentCrash, Single!vars
  <1>15. ASSUME ControlPlaneRestart PROVE Goal
    BY <1>15 DEF ControlPlaneRestart, Single!vars
  <1> QED
    BY <1>1, <1>2, <1>3, <1>4, <1>5, <1>6, <1>7, <1>8, <1>9, <1>10, <1>11, <1>12,
       <1>13, <1>14, <1>15, LifecycleFrame

-----------------------------------------------------------------------------
(* The refinement                                                          *)

\* Seen through their rows, the runs of createJob are created, started, executed
\* once and reported or released, exactly as JobRun allows: handlers that read a
\* row and write it later, lost requests and restarts add no behaviour.
THEOREM PipelineImplementsJobRun == Spec => ImplementsJobRun
  <1>1. Init => StillPending /\ Lifecycle /\ Single!Init
    BY DEF Init, StillPending, Lifecycle, Single!Init
  <1>2. TypeOK /\ Placed /\ StillPending /\ [Next]_vars => StillPending'
    BY PendingStep
  <1>3. TypeOK /\ Placed /\ StillPending /\ Lifecycle /\ [Next]_vars
          => Lifecycle' /\ [Single!Next]_(Single!vars)
    BY LifecycleStep
  <1> QED
    BY <1>1, <1>2, <1>3, PlacedAlways, PTL DEF Spec, ImplementsJobRun, Single!Spec

=============================================================================
