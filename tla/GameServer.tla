----------------------------- MODULE GameServer -----------------------------
(***************************************************************************)
(* The 7 Days to Die adapter of the agent: life cycle of the game server   *)
(* and the handling of its saves (agent/internal/games/7dtd/adapter.go).   *)
(*                                                                         *)
(* The agent executes one mutation at a time, so there is one job in       *)
(* progress; every call that reaches systemd, the game console, a helper   *)
(* or the disk is a step of its own. Around the job the game plays, the    *)
(* process exits, RegionHealer takes snapshots, and the agent may die.     *)
(*                                                                         *)
(* A save directory has three parts: the Region directory, the rest, and   *)
(* Region.mastermind-restore-old, which a restore of Region leaves inside  *)
(* the save. A part is a version of the world, None, Half (its copying or  *)
(* deletion was interrupted) or Bad (a whole copy of something Half).      *)
(***************************************************************************)
EXTENDS Integers, FiniteSets

CONSTANTS None, Half, Bad,
          Snaps,       \* ids of RegionHealer snapshots (snap_...)
          MaxSaves,    \* mastermind_ ids are the seconds 1..MaxSaves
          Retentions,  \* retention_count in payloads
          MaxAge,      \* bound on the versions of the world
          MaxBoots,    \* bound on the processes started
          MaxJobs,     \* bound on the jobs executed
          MaxFaults    \* bound on failing calls and crashes

ASSUME GameServerAssumption ==
  /\ MaxSaves \in Nat /\ MaxAge \in Nat /\ MaxBoots \in Nat
  /\ MaxJobs \in Nat /\ MaxFaults \in Nat
  /\ Retentions \subseteq Int
  /\ Snaps \cap (0 .. MaxSaves) = {}
  /\ None # Half /\ Half # Bad /\ None # Bad /\ {None, Half, Bad} \cap Nat = {}

VARIABLES unit,    \* 7dtd.service; a process exists unless it is inactive
          boot,    \* number of the newest game process
          healer,  \* regionhealer.service
          age,     \* newest version of the world
          live,    \* the configured save
          old,     \* its .mastermind-restore-old sibling
          saves,   \* the directories below saveBackupRoot
          full,    \* those with a readable .mastermind-save.json
          clock,   \* second of the newest backup
          job, pc, sel, keep, found, resume, result,  \* the job and its locals
          begun, startBoot, doomed, misread,          \* history, see Execute
          jobs, faults

host  == <<unit, boot, healer>>
disk  == <<live, old, saves, full>>
call  == <<job, sel, keep, found>>
past  == <<begun, startBoot, doomed, misread>>
vars  == <<unit, boot, healer, age, live, old, saves, full, clock, job, pc, sel,
           keep, found, resume, result, begun, startBoot, doomed, misread, jobs, faults>>

Part == {None, Half, Bad} \cup (0 .. MaxAge)

Dir(rest, region, left) == [rest |-> rest, region |-> region, left |-> left]
NoDir == Dir(None, None, None)
Exists(d) == d # NoDir

\* A directory whose copying or deletion was interrupted.
HalfDirs == {Dir(Half, r, None) : r \in {None, Half}}

\* copySaveTree: a finished copy of a broken directory is still broken.
Copied(p) == IF p = Half THEN Bad ELSE p
CopyOf(d) == Dir(Copied(d.rest), Copied(d.region), Copied(d.left))

Stamps == 1 .. MaxSaves
Ids    == Stamps \cup Snaps

SaveJobs == {"backup", "restore", "delete", "retention", "wipe"}
JobTypes == {"start", "stop", "kill", "restart", "safe_restart"} \cup SaveJobs

Init ==
  /\ unit \in {"active", "inactive"}
  /\ boot = 1
  /\ healer \in {"on", "off"}
  /\ age = 0
  /\ live = Dir(0, 0, None)
  /\ old = NoDir
  /\ saves = [id \in Ids |-> NoDir]
  /\ full = {}
  /\ clock = 0
  /\ job = None /\ pc = "idle" /\ sel = None /\ keep = 1
  /\ found = FALSE /\ resume = FALSE /\ result = None
  /\ begun = NoDir /\ startBoot = 0 /\ doomed = {} /\ misread = FALSE
  /\ jobs = 0 /\ faults = 0

Fault == /\ faults < MaxFaults
         /\ faults' = faults + 1

NoFault == UNCHANGED faults

\* The job returns r; Leave runs deferred calls first, from pc p.
Leave(r, p) == pc' = p /\ result' = r
Return(r)   == Leave(r, "idle")
Goto(p)     == pc' = p /\ UNCHANGED result

Bounds == <<age, jobs>>

(***************************************************************************)
(* The job starts (Execute). The history variables record what the live    *)
(* save and the newest process were at that moment (begun, startBoot),     *)
(* whether a query of the unit failed since (misread), and which backups   *)
(* somebody began to delete (doomed).                                      *)
(***************************************************************************)
EntryPoints(j) ==
  CASE j = "restart"      -> {"warn", "stop"}
    [] j = "safe_restart" -> {"warn"}
    [] j = "backup"       -> {"flush"}
    [] j = "retention"    -> {"prune"}
    [] OTHER              -> {j}

Execute(j) ==
  /\ pc = "idle" /\ jobs < MaxJobs
  /\ boot + 2 <= MaxBoots /\ clock < MaxSaves
  /\ jobs' = jobs + 1
  /\ job' = j
  /\ \E p \in EntryPoints(j) : pc' = p
  /\ sel' \in (IF j \in {"restore", "delete"} THEN Ids ELSE {None})
  /\ keep' \in (IF j \in {"backup", "safe_restart", "retention"} THEN Retentions ELSE {1})
  /\ found' = FALSE /\ resume' = FALSE /\ result' = None
  /\ begun' = IF j = "restore" THEN live ELSE NoDir
  /\ startBoot' = boot /\ misread' = FALSE
  /\ UNCHANGED <<host, disk, age, clock, doomed, faults>>

(***************************************************************************)
(* Start, Stop, Kill and Restart.                                          *)
(***************************************************************************)
\* systemctl start: waits for a unit that is stopping, and does nothing if
\* the unit is active.
UnitStart ==
  /\ unit # "deactivating"
  /\ unit' = "active"
  /\ boot' = IF unit = "inactive" THEN boot + 1 ELSE boot
  /\ UNCHANGED healer

\* What a stop that fails or times out can leave behind.
StopFailed == /\ unit' \in (IF unit = "active" THEN {"active", "deactivating"} ELSE {unit})
              /\ UNCHANGED <<boot, healer>>

\* Start. applyStagedPlayerProfiles can refuse, and does if the unit is active
\* and a profile is queued.
Start ==
  /\ pc = "start"
  /\ \/ UnitStart /\ NoFault /\ IF job = "start" THEN Return("ok") ELSE Goto("up")
     \/ (Fault \/ (unit = "active" /\ NoFault)) /\ Return("failed") /\ UNCHANGED host
  /\ UNCHANGED <<disk, Bounds, clock, call, resume, past>>

\* Stop: systemctl or a stop command wait for the unit; the console's quit
\* only tells the game, and the process exits later.
Stop ==
  /\ pc = "stop"
  /\ \/ /\ unit' = "inactive" \/ (unit = "active" /\ UNCHANGED unit)
        /\ UNCHANGED <<boot, healer>>
        /\ NoFault
        /\ IF job = "stop" THEN Return("ok") ELSE Goto("down")
     \/ StopFailed /\ Fault /\ Return("failed")
  /\ UNCHANGED <<disk, Bounds, clock, call, resume, past>>

\* Kill. A kill that fails may have ended the process or not; if the query of
\* MainPID fails, Kill believes there is nothing to do.
KillUnit == /\ unit' = "inactive"
            /\ UNCHANGED <<boot, healer>>

KillFailed == /\ unit # "inactive"
              /\ unit' \in {unit, "inactive"}
              /\ UNCHANGED <<boot, healer>>

Kill ==
  /\ pc = "kill"
  /\ \/ KillUnit /\ NoFault /\ Return("ok")
     \/ KillFailed /\ Fault /\ Return("failed")
     \/ unit # "inactive" /\ UNCHANGED host /\ Fault /\ Return("ok")
  /\ UNCHANGED <<disk, Bounds, clock, call, resume, past>>

\* Mutant of AwaitDown: Restart does not wait for the old process.
AwaitDownAtOnce ==
  /\ pc = "down"
  /\ Goto("start") /\ NoFault
  /\ UNCHANGED <<host, disk, Bounds, clock, call, resume, past>>

\* Restart: waitFor7DTDState(inactive), or its timeout. A query that fails
\* reads as inactive.
AwaitDown ==
  /\ pc = "down"
  /\ \/ /\ IF unit # "active" THEN Goto("start") ELSE Return("failed")
        /\ NoFault /\ UNCHANGED misread
     \/ unit = "active" /\ Fault /\ misread' = TRUE /\ Goto("start")
  /\ UNCHANGED <<host, disk, Bounds, clock, call, resume, begun, startBoot, doomed>>

\* Restart: waitFor7DTDState(active), or its timeout.
AwaitUp ==
  /\ pc = "up"
  /\ IF unit = "active" THEN Return("ok") ELSE Return("failed")
  /\ NoFault
  /\ UNCHANGED <<host, disk, Bounds, clock, call, resume, past>>

\* The wait for the end of a blood moon and the countdown: console commands.
Warn ==
  /\ pc = "warn"
  /\ \/ unit = "active" /\ NoFault /\ Goto(IF job = "restart" THEN "stop" ELSE "flush")
     \/ (Fault \/ (unit # "active" /\ NoFault)) /\ Return("failed")
  /\ UNCHANGED <<host, disk, Bounds, clock, call, resume, past>>

\* SafeRestart: kickall, and lp that must show no player.
Kick ==
  /\ pc = "kick"
  /\ (unit = "active" /\ Goto("stop")) \/ Return("failed")
  /\ NoFault
  /\ UNCHANGED <<host, disk, Bounds, clock, call, resume, past>>

(***************************************************************************)
(* BackupSave and pruneFullSaveBackups.                                    *)
(***************************************************************************)
\* saveworld if the unit is active, then a new directory for this second.
BackupFlush ==
  /\ pc = "flush"
  /\ \/ /\ Exists(live)
        /\ \E id \in {clock, clock + 1} \cap Stamps, h \in HalfDirs :
             /\ clock' = id
             /\ IF Exists(saves[id])
                THEN Return("failed") /\ UNCHANGED <<sel, saves, doomed>>
                ELSE /\ Goto("copy")
                     /\ sel' = id
                     /\ saves' = [saves EXCEPT ![id] = h]
                     /\ doomed' = doomed \ {id}
        /\ NoFault
     \/ /\ (~ Exists(live) /\ NoFault) \/ Fault
        /\ Return("failed")
        /\ UNCHANGED <<clock, sel, saves, doomed>>
  /\ UNCHANGED <<host, live, old, full, Bounds, job, keep, found, resume, begun, startBoot, misread>>

\* The RemoveAll of an error path, whose own error is ignored.
Discard(id) == \E d \in {NoDir} \cup HalfDirs : saves' = [saves EXCEPT ![id] = d]

\* Mutant of BackupCopy: the metadata is written before the tree is copied.
BackupCopyMetaFirst ==
  /\ pc = "copy"
  /\ full' = full \cup {sel}
  /\ \/ saves' = [saves EXCEPT ![sel] = CopyOf(live)] /\ NoFault /\ Goto("meta")
     \/ Discard(sel) /\ Fault /\ Return("failed")
  /\ UNCHANGED <<host, live, old, Bounds, clock, call, resume, past>>

BackupCopy ==
  /\ pc = "copy"
  /\ \/ saves' = [saves EXCEPT ![sel] = CopyOf(live)] /\ NoFault /\ Goto("meta")
     \/ Discard(sel) /\ Fault /\ Return("failed")
  /\ UNCHANGED <<host, live, old, full, Bounds, clock, call, resume, past>>

BackupMeta ==
  /\ pc = "meta"
  /\ \/ full' = full \cup {sel} /\ NoFault /\ Goto("prune") /\ UNCHANGED saves
     \/ Discard(sel) /\ Fault /\ Return("failed") /\ UNCHANGED full
  /\ UNCHANGED <<host, live, old, Bounds, clock, call, resume, past>>

\* Mutant of Retained: the count of the payload is used as it is.
RetainedRaw == IF job = "retention" \/ keep <= 100 THEN keep ELSE 100

\* BackupSave clamps the count, SAVE_RETENTION refuses it (see Prune).
Retained == CASE job = "retention" -> keep
              [] keep < 1 -> 1
              [] keep > 100 -> 100
              [] OTHER -> keep

\* All but the newest of the mastermind_ directories, whole or not.
Excess ==
  {id \in Stamps : /\ Exists(saves[id])
                   /\ Cardinality({n \in Stamps : n > id /\ Exists(saves[n])}) >= Retained}

\* BackupSave ignores how the pruning went.
PruneEnds(r) == CASE job = "retention"    -> Return(r)
                  [] job = "safe_restart" -> Goto("kick")
                  [] OTHER                -> Return("ok")

\* RemoveAll of a backup, from the newest to the oldest; a removal that fails
\* leaves part of the tree, with or without its metadata.
Prune ==
  /\ pc = "prune"
  /\ \/ /\ job = "retention" /\ keep \notin 1 .. 100
        /\ Return("failed") /\ NoFault
        /\ UNCHANGED <<saves, full, doomed>>
     \/ /\ job # "retention" \/ keep \in 1 .. 100
        /\ \/ /\ Excess = {}
              /\ PruneEnds("ok") /\ NoFault
              /\ UNCHANGED <<saves, full, doomed>>
           \/ \E id \in Excess :
                /\ \A n \in Excess : n <= id
                /\ doomed' = doomed \cup {id}
                /\ \/ /\ saves' = [saves EXCEPT ![id] = NoDir]
                      /\ full' = full \ {id}
                      /\ NoFault /\ UNCHANGED <<pc, result>>
                   \/ /\ \E h \in HalfDirs : saves' = [saves EXCEPT ![id] = h]
                      /\ full' \in {full, full \ {id}}
                      /\ Fault /\ PruneEnds("failed")
  /\ UNCHANGED <<host, live, old, Bounds, clock, call, resume, begun, startBoot, misread>>

(***************************************************************************)
(* RestoreSave. A full-world backup replaces the save; anything else that  *)
(* has a Region directory replaces live/Region.                            *)
(***************************************************************************)
IsFull == sel \in full

\* The unit must not be active; RegionHealer is stopped for good. A query that
\* fails reads as inactive.
RestoreCheck ==
  /\ pc = "restore"
  /\ \/ /\ unit = "active" \/ ~ Exists(saves[sel])
        /\ Return("failed") /\ NoFault /\ UNCHANGED healer
     \/ /\ Exists(saves[sel])
        /\ \/ unit # "active" /\ healer' = "off" /\ NoFault
           \/ healer' \in {healer, "off"} /\ Fault
        /\ IF IsFull \/ saves[sel].region # None THEN Goto("stale") ELSE Return("failed")
     \/ Fault /\ Return("failed") /\ healer' \in {healer, "off"}
  /\ UNCHANGED <<unit, boot, disk, Bounds, clock, call, resume, past>>

\* A rollback directory of an earlier restore is deleted first. The helper
\* accepts the one beside the save and refuses the one beside Region.
RestoreStale ==
  /\ pc = "stale"
  /\ \/ /\ IsFull /\ Exists(old)
        /\ \/ old' = NoDir /\ NoFault /\ Goto("rename")
           \/ old' \in {old} \cup HalfDirs /\ Fault /\ Return("failed")
     \/ /\ IF IsFull THEN ~ Exists(old) ELSE live.left = None
        /\ Goto("rename") /\ NoFault /\ UNCHANGED old
     \/ /\ ~ IsFull /\ live.left # None
        /\ Return("failed") /\ NoFault /\ UNCHANGED old
  /\ UNCHANGED <<host, live, saves, full, Bounds, clock, call, resume, past>>

\* The target is renamed, and the copying starts.
RestoreRename ==
  /\ pc = "rename"
  /\ \/ /\ NoFault /\ Goto("back")
        /\ IF IsFull
           THEN old' = live /\ live' \in HalfDirs
           ELSE live' = Dir(live.rest, Half, live.region) /\ UNCHANGED old
     \/ Fault /\ Return("failed") /\ UNCHANGED <<live, old>>
  /\ UNCHANGED <<host, saves, full, Bounds, clock, call, resume, past>>

Restored == IF IsFull THEN CopyOf(saves[sel])
            ELSE Dir(live.rest, Copied(saves[sel].region), live.left)

\* Mutant of Rollback: the rollback directory is removed and not the target.
RollbackDropsOld ==
  /\ IF IsFull THEN old' = NoDir /\ UNCHANGED live
               ELSE live' = Dir(live.rest, live.region, None) /\ UNCHANGED old

\* RemoveAll of the target and the rename back; both errors are ignored.
Rollback ==
  \/ IF IsFull THEN live' = old /\ old' = NoDir
               ELSE live' = Dir(live.rest, live.left, None) /\ UNCHANGED old
  \/ /\ IF IsFull THEN live' \in HalfDirs ELSE live' = Dir(live.rest, Half, live.left)
     /\ UNCHANGED old

RestoreCopy ==
  /\ pc = "back"
  /\ \/ live' = Restored /\ UNCHANGED old /\ NoFault /\ Goto("perm")
     \/ Rollback /\ Fault /\ Return("failed")
  /\ UNCHANGED <<host, saves, full, Bounds, clock, call, resume, past>>

\* makeTreeGroupWritable and mastermind-fix-7dtd-save-permissions.
RestorePermissions ==
  /\ pc = "perm"
  /\ \/ UNCHANGED <<live, old>> /\ NoFault /\ Goto("drop")
     \/ Rollback /\ Fault /\ Return("failed")
  /\ UNCHANGED <<host, saves, full, Bounds, clock, call, resume, past>>

\* removeRestoreRollback: the helper fails if there is no such directory, and
\* refuses the one beside Region.
RestoreDrop ==
  /\ pc = "drop"
  /\ \/ IsFull /\ Exists(old) /\ old' = NoDir /\ NoFault /\ Return("ok")
     \/ IsFull /\ Exists(old) /\ old' \in {old} \cup HalfDirs /\ Fault /\ Return("failed")
     \/ ~ (IsFull /\ Exists(old)) /\ UNCHANGED old /\ NoFault /\ Return("failed")
  /\ UNCHANGED <<host, live, saves, full, Bounds, clock, call, resume, past>>

(***************************************************************************)
(* DeleteSaveBackup.                                                       *)
(***************************************************************************)
\* If a query fails the healer is not paused, or not started again.
DeletePause ==
  /\ pc = "delete"
  /\ \/ /\ ~ Exists(saves[sel])
        /\ Return("failed") /\ NoFault /\ UNCHANGED <<healer, resume>>
     \/ /\ Exists(saves[sel])
        /\ resume' = (healer = "on" /\ unit = "active")
        /\ healer' = "off"
        /\ Goto("remove") /\ NoFault
     \/ /\ Exists(saves[sel]) /\ healer = "on"
        /\ resume' = FALSE /\ healer' \in {"on", "off"}
        /\ Goto("remove") /\ Fault
     \/ /\ Exists(saves[sel]) /\ healer = "on"
        /\ Return("failed") /\ Fault /\ UNCHANGED <<healer, resume>>
  /\ UNCHANGED <<unit, boot, disk, Bounds, clock, call, past>>

DeleteRemove ==
  /\ pc = "remove"
  /\ doomed' = doomed \cup {sel}
  /\ \/ /\ saves' = [saves EXCEPT ![sel] = NoDir]
        /\ full' = full \ {sel}
        /\ NoFault /\ Leave("ok", "resume")
     \/ /\ \E h \in HalfDirs : saves' = [saves EXCEPT ![sel] = h]
        /\ full' \in {full, full \ {sel}}
        /\ Fault /\ Leave("failed", "resume")
  /\ UNCHANGED <<host, live, old, Bounds, clock, call, resume, begun, startBoot, misread>>

(***************************************************************************)
(* WipeSave. Its deferred calls are the steps again and resume.            *)
(***************************************************************************)
\* If the query fails the healer is not paused.
WipePause ==
  /\ pc = "wipe"
  /\ found' = Exists(live)
  /\ \/ resume' = (healer = "on") /\ healer' = "off" /\ NoFault /\ Goto("quit")
     \/ healer = "on" /\ Fault /\ Return("failed") /\ UNCHANGED <<healer, resume>>
     \/ healer = "on" /\ Fault /\ Goto("quit") /\ UNCHANGED <<healer, resume>>
  /\ UNCHANGED <<unit, boot, disk, Bounds, clock, job, sel, keep, past>>

\* saveworld and a bounded systemctl stop, if there is a process. A query that
\* fails counts as "no process".
WipeQuit ==
  /\ pc = "quit"
  /\ \/ /\ unit' = "inactive"
        /\ UNCHANGED <<boot, healer>>
        /\ NoFault /\ Goto("gone")
     \/ unit # "inactive" /\ StopFailed /\ Fault /\ Goto("killing")
     \/ unit # "inactive" /\ Fault /\ Goto("gone") /\ UNCHANGED host
     \/ unit # "inactive" /\ Fault /\ Leave("failed", "resume") /\ UNCHANGED host
  /\ UNCHANGED <<disk, Bounds, clock, call, resume, past>>

\* Mutant of WipeKill: the wipe goes on after a kill that failed.
WipeKillIgnored ==
  /\ pc = "killing"
  /\ \/ KillUnit /\ NoFault /\ Goto("gone")
     \/ UNCHANGED host /\ NoFault /\ Goto("erase")
  /\ UNCHANGED <<disk, Bounds, clock, call, resume, past>>

WipeKill ==
  /\ pc = "killing"
  /\ \/ KillUnit /\ NoFault /\ Goto("gone")
     \/ KillFailed /\ Fault /\ Leave("failed", "resume")
     \/ unit # "inactive" /\ UNCHANGED host /\ Fault /\ Goto("gone")
  /\ UNCHANGED <<disk, Bounds, clock, call, resume, past>>

\* Mutant of WipeGone: a return in front of the deferred calls.
WipeGoneReturns ==
  /\ pc = "gone"
  /\ \/ unit = "inactive" /\ NoFault /\ Goto("erase")
     \/ unit # "inactive" /\ NoFault /\ Return("failed")
  /\ UNCHANGED <<host, disk, Bounds, clock, call, resume, past>>

\* The second look at the process.
WipeGone ==
  /\ pc = "gone"
  /\ \/ unit = "inactive" /\ NoFault /\ Goto("erase")
     \/ unit # "inactive" /\ NoFault /\ Leave("failed", "resume")
     \/ unit # "inactive" /\ Fault /\ Goto("erase")
  /\ UNCHANGED <<host, disk, Bounds, clock, call, resume, past>>

\* mastermind-wipe-7dtd-save on the live save, if the first look found one; a
\* save that was created since is not deleted, and the job fails.
WipeErase ==
  /\ pc = "erase"
  /\ \/ found /\ live' = NoDir /\ NoFault /\ Goto("renew")
     \/ found /\ live' \in {live} \cup HalfDirs /\ Fault /\ Leave("failed", "again")
     \/ ~ found /\ ~ Exists(live) /\ UNCHANGED live /\ NoFault /\ Goto("renew")
     \/ ~ found /\ Exists(live) /\ UNCHANGED live /\ NoFault /\ Leave("failed", "again")
  /\ UNCHANGED <<host, old, saves, full, Bounds, clock, call, resume, past>>

WipeStart ==
  /\ pc = "renew"
  /\ \/ UnitStart /\ NoFault /\ Goto("fresh")
     \/ Fault /\ Leave("failed", "again") /\ UNCHANGED host
  /\ UNCHANGED <<disk, Bounds, clock, call, resume, past>>

\* The unit becomes active and creates a save, or a deadline passes.
WipeFresh ==
  /\ pc = "fresh"
  /\ \/ Exists(live) /\ Leave("ok", "resume")
     \/ (~ Exists(live) \/ unit # "active") /\ Leave("failed", "again")
  /\ NoFault
  /\ UNCHANGED <<host, disk, Bounds, clock, call, resume, past>>

\* Deferred while restartNeeded: the game is started, whatever went wrong.
DeferredStart ==
  /\ pc = "again"
  /\ \/ UnitStart /\ NoFault
     \/ Fault /\ UNCHANGED host
  /\ Goto("resume")
  /\ UNCHANGED <<disk, Bounds, clock, call, resume, past>>

\* Deferred by WipeSave and DeleteSaveBackup: RegionHealer is started again.
DeferredHealer ==
  /\ pc = "resume"
  /\ healer' = IF resume THEN "on" ELSE healer
  /\ Goto("idle") /\ NoFault
  /\ UNCHANGED <<unit, boot, disk, Bounds, clock, call, resume, past>>

\* REGION_HEALER_START and REGION_HEALER_STOP.
SwitchHealer ==
  /\ pc = "idle" /\ jobs < MaxJobs
  /\ jobs' = jobs + 1
  /\ healer' \in {"on", "off"}
  /\ job' = "healer" /\ result' = "ok"
  /\ begun' = NoDir /\ UNCHANGED <<startBoot, doomed, misread>>
  /\ UNCHANGED <<unit, boot, age, disk, clock, pc, sel, keep, found, resume, faults>>

(***************************************************************************)
(* The surroundings.                                                       *)
(***************************************************************************)
\* The agent dies; the job is not taken up again.
AgentCrash ==
  /\ pc # "idle"
  /\ Fault /\ Return("lost")
  /\ UNCHANGED <<host, disk, Bounds, clock, call, resume, past>>

\* The process ends: after quit, after a stop that took long, or by itself.
ProcessExits ==
  /\ unit # "inactive"
  /\ unit' = "inactive"
  /\ UNCHANGED <<boot, healer, age, disk, clock, call, pc, resume, result, past, jobs, faults>>

\* The game writes its save, or a new one; what is broken stays so.
Play ==
  /\ unit = "active" /\ age < MaxAge
  /\ age' = age + 1
  /\ live' = Dir(IF live.rest \in {Half, Bad} THEN live.rest ELSE age + 1,
                 IF live.region \in {Half, Bad} THEN live.region ELSE age + 1,
                 live.left)
  /\ begun' = NoDir
  /\ UNCHANGED <<host, old, saves, full, clock, call, pc, resume, result,
                 startBoot, doomed, misread, jobs, faults>>

\* RegionHealer takes a snapshot of Region.
Snapshot(s) ==
  /\ healer = "on" /\ live.region # None /\ ~ Exists(saves[s])
  /\ saves' = [saves EXCEPT ![s] = Dir(None, Copied(live.region), None)]
  /\ UNCHANGED <<host, age, live, old, full, clock, call, pc, resume, result, past, jobs, faults>>

LifeCycle == \/ Start \/ Stop \/ Kill \/ AwaitDown \/ AwaitUp \/ Warn \/ Kick

Backup  == BackupFlush \/ BackupCopy \/ BackupMeta \/ Prune

Restore == \/ RestoreCheck \/ RestoreStale \/ RestoreRename \/ RestoreCopy
           \/ RestorePermissions \/ RestoreDrop

Wipe    == \/ WipePause \/ WipeQuit \/ WipeKill \/ WipeGone \/ WipeErase
           \/ WipeStart \/ WipeFresh \/ DeferredStart \/ DeferredHealer

Delete  == DeletePause \/ DeleteRemove

Next ==
  \/ \E j \in JobTypes : Execute(j)
  \/ LifeCycle \/ Backup \/ Restore \/ Delete \/ Wipe
  \/ SwitchHealer
  \/ AgentCrash \/ ProcessExits \/ Play
  \/ \E s \in Snaps : Snapshot(s)

Spec == Init /\ [][Next]_vars

-----------------------------------------------------------------------------
(***************************************************************************)
(* Properties                                                              *)
(***************************************************************************)
\* A directory that ListSaves shows as full-world is a finished copy, unless
\* somebody began to delete it: BackupSave writes the metadata last, so no
\* crash or failing copy can leave half a world that RestoreSave would install.
FullIsWhole ==
  \A id \in full \ doomed : saves[id].rest # Half /\ saves[id].region # Half

\* When SafeRestart takes the server down, the backup it made is on disk and
\* complete, whatever retention_count its payload has and however the pruning
\* went.
SafeRestartHasBackup ==
  job = "safe_restart" /\ pc \in {"kick", "stop", "down", "start", "up"} =>
    /\ sel \in full
    /\ saves[sel].rest # Half

\* However far a restore came and however it ended, a crash included, the save
\* it started with is still the live one or beside it, or the chosen backup is
\* completely in its place.
RestoreKeepsWorld ==
  job = "restore" /\ begun # NoDir =>
    \/ live = begun
    \/ IsFull /\ (old = begun \/ live = CopyOf(saves[sel]))
    \/ ~ IsFull /\ live.rest = begun.rest
                /\ (live.left = begun.region \/ live.region = Copied(saves[sel].region))

\* No single failure lets WipeSave delete the save under a running process: it
\* takes two failing queries of MainPID.
WipeOnlyWhenStopped ==
  [][pc = "erase" /\ pc' # "erase" /\ live' # live /\ unit # "inactive" => faults >= 2]_vars

\* A RegionHealer that WipeSave or DeleteSaveBackup paused runs again when the
\* job has returned, on every path out of it.
HealerResumes ==
  job \in {"wipe", "delete"} /\ pc = "idle" /\ result \in {"ok", "failed"} /\ resume =>
    healer = "on"

\* A restart that reports success has started a new process: it never mistakes
\* the old one, still shutting down, for the new one. (waitFor7DTDState does so
\* if its query fails while the unit is active.)
RestartIsNew ==
  job \in {"restart", "safe_restart"} /\ pc = "idle" /\ result = "ok" /\ ~ misread =>
    boot > startBoot
=============================================================================
