-------------------------- MODULE GameServerProofs --------------------------
(***************************************************************************)
(* The 7 Days to Die adapter, for every number of saves, versions, jobs,   *)
(* boots and faults.  The inductive invariant is a conjunction of parts,   *)
(* each with a step lemma of its own: what is where (HostTypes,            *)
(* DiskTypes), which job a program counter belongs to (Control), and what  *)
(* each job has achieved so far (BackupInv, RestoreInv, HealerInv,         *)
(* RestartInv, WipeInv).                                                   *)
(***************************************************************************)
EXTENDS GameServer, FiniteSetTheorems, TLAPS

-----------------------------------------------------------------------------
(* Types                                                                   *)

HostTypes ==
    /\ unit \in {"active", "inactive", "deactivating"}
    /\ boot \in Nat /\ startBoot \in Nat /\ startBoot <= boot
    /\ faults \in Nat

Dirs == [rest : Part, region : Part, left : Part]

DiskTypes ==
    /\ age \in 0 .. MaxAge
    /\ live \in Dirs /\ old \in Dirs /\ begun \in Dirs
    /\ saves \in [Ids -> Dirs] /\ full \subseteq Ids
    /\ clock \in 0 .. MaxSaves
    /\ keep \in Int
    /\ pc # "idle" /\ job \in {"restore", "delete"} => sel \in Ids
    /\ pc \in {"copy", "meta"} => sel \in Stamps

Backups  == {"backup", "safe_restart"}
Restarts == {"restart", "safe_restart"}

\* The jobs that can be at a program counter.
Control ==
    /\ pc = "start" => job \in {"start"} \cup Restarts
    /\ pc = "stop"  => job \in {"stop"} \cup Restarts
    /\ pc \in {"down", "up", "warn"} => job \in Restarts
    /\ pc = "kill"  => job = "kill"
    /\ pc = "kick"  => job = "safe_restart"
    /\ pc \in {"flush", "copy", "meta"} => job \in Backups
    /\ pc = "prune" => job \in {"retention"} \cup Backups
    /\ pc \in {"restore", "stale", "rename", "back", "perm", "drop"} => job = "restore"
    /\ pc \in {"delete", "remove"} => job = "delete"
    /\ pc = "resume" => job \in {"delete", "wipe"}
    /\ pc \in {"wipe", "quit", "killing", "gone", "erase", "renew", "fresh", "again"} => job = "wipe"

LEMMA HostStep == HostTypes /\ [Next]_vars => HostTypes'
  <1> SUFFICES ASSUME HostTypes, [Next]_vars PROVE HostTypes'
    OBVIOUS
  <1> USE GameServerAssumption
      DEF GameServerAssumption, HostTypes, Fault, NoFault, host, call, disk, past, Bounds
  <1>1. ASSUME NEW j \in JobTypes, Execute(j) PROVE HostTypes'
    BY <1>1 DEF Execute
  <1>2. CASE LifeCycle
    BY <1>2 DEF LifeCycle, Start, Stop, Kill, AwaitDown, AwaitUp, Warn, Kick, UnitStart,
                StopFailed, KillUnit, KillFailed
  <1>3. CASE Backup
    BY <1>3 DEF Backup, BackupFlush, BackupCopy, BackupMeta, Prune
  <1>4. CASE Restore
    BY <1>4 DEF Restore, RestoreCheck, RestoreStale, RestoreRename, RestoreCopy,
                RestorePermissions, RestoreDrop
  <1>5. CASE Delete
    BY <1>5 DEF Delete, DeletePause, DeleteRemove
  <1>6. CASE Wipe
    BY <1>6 DEF Wipe, WipePause, WipeQuit, WipeKill, WipeGone, WipeErase, WipeStart, WipeFresh,
                DeferredStart, DeferredHealer, UnitStart, StopFailed, KillUnit, KillFailed
  <1>7. CASE SwitchHealer \/ AgentCrash \/ ProcessExits \/ Play \/ UNCHANGED vars
    BY <1>7 DEF SwitchHealer, AgentCrash, ProcessExits, Play, vars
  <1>8. ASSUME NEW s \in Snaps, Snapshot(s) PROVE HostTypes'
    BY <1>8 DEF Snapshot
  <1> QED
    BY <1>1, <1>2, <1>3, <1>4, <1>5, <1>6, <1>7, <1>8 DEF Next

LEMMA ControlStep == Control /\ [Next]_vars => Control'
  <1> SUFFICES ASSUME Control, [Next]_vars PROVE Control'
    OBVIOUS
  <1> USE DEF Control, Backups, Restarts, Return, Leave, Goto, call
  <1>1. ASSUME NEW j \in JobTypes, Execute(j) PROVE Control'
    BY <1>1 DEF Execute, EntryPoints, JobTypes, SaveJobs
  <1>2. CASE LifeCycle
    BY <1>2 DEF LifeCycle, Start, Stop, Kill, AwaitDown, AwaitUp, Warn, Kick
  <1>3. CASE Backup
    BY <1>3 DEF Backup, BackupFlush, BackupCopy, BackupMeta, Prune, PruneEnds
  <1>4. CASE Restore
    BY <1>4 DEF Restore, RestoreCheck, RestoreStale, RestoreRename, RestoreCopy,
                RestorePermissions, RestoreDrop
  <1>5. CASE Delete
    BY <1>5 DEF Delete, DeletePause, DeleteRemove
  <1>6. CASE Wipe
    BY <1>6 DEF Wipe, WipePause, WipeQuit, WipeKill, WipeGone, WipeErase, WipeStart, WipeFresh,
                DeferredStart, DeferredHealer
  <1>7. CASE SwitchHealer \/ AgentCrash \/ ProcessExits \/ Play \/ UNCHANGED vars
    BY <1>7 DEF SwitchHealer, AgentCrash, ProcessExits, Play, vars
  <1>8. ASSUME NEW s \in Snaps, Snapshot(s) PROVE Control'
    BY <1>8 DEF Snapshot
  <1> QED
    BY <1>1, <1>2, <1>3, <1>4, <1>5, <1>6, <1>7, <1>8 DEF Next

LEMMA EntryFacts ==
    ASSUME NEW j \in JobTypes, NEW p \in EntryPoints(j)
    PROVE  /\ p \in {"start", "stop", "kill", "warn", "flush", "restore", "delete", "prune", "wipe"}
           /\ p = "start" => j = "start"
           /\ p = "kill" => j = "kill"
           /\ p = "stop" => j \in {"stop", "restart"}
           /\ p = "warn" => j \in Restarts
           /\ p = "prune" => j = "retention"
  BY DEF JobTypes, SaveJobs, EntryPoints, Restarts

LEMMA DirFacts ==
    /\ NoDir \in Dirs /\ HalfDirs \subseteq Dirs
    /\ \A h \in HalfDirs : Exists(h) /\ h.rest = Half /\ h.left = None
    /\ \A d \in Dirs : CopyOf(d) \in Dirs
    /\ \A d \in Dirs : CopyOf(d).rest # Half /\ CopyOf(d).region # Half
    /\ \A d \in Dirs : Exists(d) => Exists(CopyOf(d))
    /\ \A p \in Part : Copied(p) \in Part
  BY GameServerAssumption DEF GameServerAssumption, Dirs, Part, NoDir, Dir, HalfDirs, Exists, CopyOf, Copied

LEMMA DiskStep == DiskTypes /\ Control /\ HostTypes /\ [Next]_vars => DiskTypes'
  <1> SUFFICES ASSUME DiskTypes, Control, HostTypes, [Next]_vars PROVE DiskTypes'
    OBVIOUS
  <1> USE GameServerAssumption, DirFacts
      DEF GameServerAssumption, DiskTypes, Control, host, call, disk, past, Bounds, Leave, Return, Goto
  <1>1. ASSUME NEW j \in JobTypes, Execute(j) PROVE DiskTypes'
    BY <1>1, EntryFacts DEF Execute
  <1>2. CASE LifeCycle
    BY <1>2 DEF LifeCycle, Start, Stop, Kill, AwaitDown, AwaitUp, Warn, Kick
  <1>3. CASE Backup
    <2>1. CASE BackupFlush
      <3>1. ~ (job \in {"restore", "delete"}) /\ job' = job
        BY <2>1 DEF BackupFlush, Backups
      <3>2. saves' \in [Ids -> Dirs] /\ clock' \in 0 .. MaxSaves
        <4>1. ASSUME NEW id \in Stamps, NEW h \in HalfDirs, saves' = [saves EXCEPT ![id] = h]
              PROVE  saves' \in [Ids -> Dirs]
          BY <4>1
        <4> QED
          BY <2>1, <4>1 DEF BackupFlush, Stamps
      <3> QED
        BY <2>1, <3>1, <3>2 DEF BackupFlush
    <2>2. CASE BackupCopy \/ BackupMeta
      <3>1. ~ (job \in {"restore", "delete"}) /\ job' = job
        BY <2>2 DEF BackupCopy, BackupMeta, Backups
      <3>2. PICK d \in Dirs : saves' \in {saves, [saves EXCEPT ![sel] = d]}
        BY <2>2 DEF BackupCopy, BackupMeta, Discard
      <3>3. saves' \in [Ids -> Dirs]
        BY <3>2
      <3>4. full' \subseteq Ids
        BY <2>2 DEF BackupCopy, BackupMeta, Ids
      <3> QED
        BY <2>2, <3>1, <3>3, <3>4 DEF BackupCopy, BackupMeta
    <2>3. CASE Prune
      <3>1. ~ (job \in {"restore", "delete"}) /\ job' = job /\ UNCHANGED sel
        BY <2>3 DEF Prune, Backups
      <3>2. ASSUME NEW id \in Stamps, NEW d \in Dirs, saves' = [saves EXCEPT ![id] = d]
            PROVE  saves' \in [Ids -> Dirs]
        BY <3>2
      <3>3. saves' \in [Ids -> Dirs]
        BY <2>3, <3>2 DEF Prune, Excess
      <3>4. full' \subseteq Ids
        BY <2>3 DEF Prune
      <3>5. pc' \notin {"copy", "meta"}
        BY <2>3 DEF Prune, PruneEnds
      <3> QED
        BY <2>3, <3>1, <3>3, <3>4, <3>5 DEF Prune
    <2> QED
      BY <1>3, <2>1, <2>2, <2>3 DEF Backup
  <1>4. CASE Restore
    <2>1. CASE RestoreCheck
      BY <2>1 DEF RestoreCheck
    <2>2. CASE RestoreStale
      BY <2>2 DEF RestoreStale
    <2>3. CASE RestoreRename
      BY <2>3 DEF RestoreRename, Dirs, Dir, Part
    <2>4. CASE RestoreCopy
      BY <2>4 DEF RestoreCopy, Restored, Rollback, Dirs, Dir, Part
    <2>5. CASE RestorePermissions
      BY <2>5 DEF RestorePermissions, Rollback, Dirs, Dir, Part
    <2>6. CASE RestoreDrop
      BY <2>6 DEF RestoreDrop
    <2> QED
      BY <1>4, <2>1, <2>2, <2>3, <2>4, <2>5, <2>6 DEF Restore
  <1>5. CASE Delete
    BY <1>5 DEF Delete, DeletePause, DeleteRemove
  <1>6. CASE Wipe
    BY <1>6 DEF Wipe, WipePause, WipeQuit, WipeKill, WipeGone, WipeErase, WipeStart, WipeFresh,
                DeferredStart, DeferredHealer
  <1>7. CASE SwitchHealer \/ AgentCrash \/ ProcessExits \/ UNCHANGED vars
    BY <1>7 DEF SwitchHealer, AgentCrash, ProcessExits, vars
  <1>8. CASE Play
    BY <1>8 DEF Play, Dirs, Dir, Part
  <1>9. ASSUME NEW s \in Snaps, Snapshot(s) PROVE DiskTypes'
    BY <1>9 DEF Snapshot, Dirs, Dir, Part, Ids
  <1> QED
    BY <1>1, <1>2, <1>3, <1>4, <1>5, <1>6, <1>7, <1>8, <1>9 DEF Next

-----------------------------------------------------------------------------
(* Backups                                                                 *)

\* Where a safe restart has made its backup, and a backup still prunes.
Filled == \/ job = "safe_restart" /\ pc \in {"prune", "kick", "stop", "down", "start", "up"}
          \/ job = "backup" /\ pc = "prune"

\* The backup in progress is the newest, has its metadata last, and pruning
\* does not reach it.
BackupInv ==
    /\ \A n \in Stamps : n > clock => ~ Exists(saves[n])
    /\ \A id \in full : Exists(saves[id])
    /\ FullIsWhole
    /\ pc \in {"copy", "meta"} => sel = clock /\ sel \notin full
    /\ pc = "copy" => Exists(live)
    /\ pc = "meta" => Exists(saves[sel]) /\ saves[sel].rest # Half /\ saves[sel].region # Half
    /\ pc = "remove" => Exists(saves[sel])
    /\ Filled => sel = clock /\ sel \in Stamps /\ sel \in full /\ saves[sel].rest # Half

\* The steps that touch no backup.
LEMMA SavesFrame ==
    ASSUME Control, DiskTypes,
           \/ LifeCycle \/ Restore \/ DeletePause \/ Wipe
           \/ AgentCrash \/ ProcessExits \/ Play \/ UNCHANGED vars
    PROVE  /\ UNCHANGED <<saves, full, doomed, sel, clock, job>>
           /\ \/ pc' = pc \/ pc' \notin {"copy", "meta", "remove", "prune"}
              \/ pc' = "remove" /\ Exists(saves[sel])
           /\ pc' = "copy" => live' = live \/ Exists(live')
           /\ Filled' => Filled
  <1> USE DEF Control, Filled, Backups, Restarts, host, call, disk, past, Leave, Return, Goto
  <1>1. CASE LifeCycle
    BY <1>1 DEF LifeCycle, Start, Stop, Kill, AwaitDown, AwaitUp, Warn, Kick
  <1>2. CASE Restore
    BY <1>2 DEF Restore, RestoreCheck, RestoreStale, RestoreRename, RestoreCopy,
                RestorePermissions, RestoreDrop
  <1>3. CASE DeletePause
    BY <1>3 DEF DeletePause
  <1>4. CASE Wipe
    BY <1>4 DEF Wipe, WipePause, WipeQuit, WipeKill, WipeGone, WipeErase, WipeStart, WipeFresh,
                DeferredStart, DeferredHealer
  <1>5. CASE AgentCrash \/ ProcessExits \/ UNCHANGED vars
    BY <1>5 DEF AgentCrash, ProcessExits, vars
  <1>6. CASE Play
    <2>1. age + 1 # None /\ Half # None /\ Bad # None
      BY GameServerAssumption DEF GameServerAssumption, DiskTypes
    <2>2. Exists(live')
      BY <1>6, <2>1 DEF Play, Exists, NoDir, Dir
    <2> QED
      BY <1>6, <2>2 DEF Play
  <1> QED
    BY <1>1, <1>2, <1>3, <1>4, <1>5, <1>6

\* Pruning keeps at least the newest backup, whatever the count in the payload.
LEMMA PruneKeepsNewest ==
    ASSUME DiskTypes, BackupInv, Filled, pc = "prune"
    PROVE  sel \notin Excess
  <1>1. {n \in Stamps : n > sel /\ Exists(saves[n])} = {}
    BY DEF BackupInv
  <1>2. Cardinality({n \in Stamps : n > sel /\ Exists(saves[n])}) = 0
    BY <1>1, FS_EmptySet
  <1>3. Retained >= 1
    BY DEF Retained, Filled, DiskTypes
  <1>4. SUFFICES ASSUME sel \in Excess PROVE FALSE
    OBVIOUS
  <1>5. Cardinality({n \in Stamps : n > sel /\ Exists(saves[n])}) >= Retained
    BY <1>4 DEF Excess
  <1>6. Retained \in Int
    BY DEF Retained, DiskTypes
  <1> QED
    BY <1>2, <1>3, <1>5, <1>6

\* A backup that somebody begins to delete, and which no job relies on.
LEMMA RemovalKeeps ==
    ASSUME DiskTypes, BackupInv,
           NEW id \in Ids, Exists(saves[id]), Filled' => Filled /\ id # sel,
           NEW d \in {NoDir} \cup HalfDirs, saves' = [saves EXCEPT ![id] = d],
           full' \subseteq full, d = NoDir => id \notin full', full \ {id} \subseteq full',
           doomed' = doomed \cup {id}, UNCHANGED <<sel, clock>>,
           pc' \notin {"copy", "meta", "remove"}
    PROVE  BackupInv'
  <1>1. \A n \in Ids : n # id => saves'[n] = saves[n]
    BY DEF DiskTypes
  <1>2. saves'[id] = d
    BY DEF DiskTypes
  <1>3. \A n \in Stamps : n > clock' => n # id /\ n \in Ids
    BY DEF BackupInv, Ids
  <1>4. \A n \in Stamps : n > clock' => ~ Exists(saves'[n])
    BY <1>1, <1>3 DEF BackupInv
  <1>5. \A n \in full' : Exists(saves'[n])
    BY <1>1, <1>2, DirFacts DEF BackupInv, DiskTypes
  <1>6. FullIsWhole'
    BY <1>1 DEF BackupInv, FullIsWhole, DiskTypes
  <1>7. Filled' => sel' = clock' /\ sel' \in Stamps /\ sel' \in full' /\ saves'[sel'].rest # Half
    BY <1>1 DEF BackupInv, DiskTypes
  <1> QED
    BY <1>4, <1>5, <1>6, <1>7 DEF BackupInv

\* The directory of the backup in progress changes.
LEMMA CopyingKeeps ==
    ASSUME DiskTypes, BackupInv, Control, pc \in {"copy", "meta"},
           NEW d \in Dirs, saves' = [saves EXCEPT ![sel] = d],
           UNCHANGED <<full, doomed, sel, clock>>, ~ Filled', pc' # "remove",
           pc' = "copy" => Exists(live'),
           pc' = "meta" => Exists(d) /\ d.rest # Half /\ d.region # Half
    PROVE  BackupInv'
  <1>1. sel = clock /\ sel \in Stamps /\ sel \in Ids /\ sel \notin full
    BY DEF BackupInv, DiskTypes, Ids
  <1>2. \A n \in Ids : n # sel => saves'[n] = saves[n]
    BY DEF DiskTypes
  <1>3. saves'[sel] = d
    BY <1>1 DEF DiskTypes
  <1>4. \A n \in Stamps : n > clock' => n # sel /\ n \in Ids
    BY <1>1, GameServerAssumption DEF Ids, Stamps, GameServerAssumption
  <1>5. \A n \in Stamps : n > clock' => ~ Exists(saves'[n])
    BY <1>2, <1>4 DEF BackupInv
  <1>6. \A n \in full : n # sel /\ n \in Ids
    BY <1>1 DEF DiskTypes
  <1>7. (\A n \in full' : Exists(saves'[n])) /\ FullIsWhole'
    BY <1>2, <1>6 DEF BackupInv, FullIsWhole
  <1> QED
    BY <1>1, <1>3, <1>5, <1>7 DEF BackupInv

LEMMA BackupStep == DiskTypes /\ Control /\ BackupInv /\ [Next]_vars => BackupInv'
  <1> SUFFICES ASSUME DiskTypes, Control, BackupInv, [Next]_vars PROVE BackupInv'
    OBVIOUS
  <1>1. ASSUME NEW j \in JobTypes, Execute(j) PROVE BackupInv'
    <2>1. ~ Filled' /\ pc' \notin {"copy", "meta", "remove"}
      BY <1>1, EntryFacts DEF Execute, Filled, Restarts
    <2>2. UNCHANGED <<saves, full, doomed, clock>>
      BY <1>1 DEF Execute, disk
    <2> QED
      BY <2>1, <2>2 DEF BackupInv, FullIsWhole
  <1>2. CASE \/ LifeCycle \/ Restore \/ DeletePause \/ Wipe
             \/ AgentCrash \/ ProcessExits \/ Play \/ UNCHANGED vars
    BY <1>2, SavesFrame DEF BackupInv, FullIsWhole
  <1>3. CASE BackupFlush
    <2>1. UNCHANGED full
      BY <1>3 DEF BackupFlush
    <2>2. ASSUME UNCHANGED <<saves, doomed>>, clock' \in {clock, clock + 1}, Return("failed")
          PROVE  BackupInv'
      <3>1. pc' = "idle" /\ ~ Filled'
        BY <2>2 DEF Return, Leave, Filled
      <3>2. \A n \in Stamps : n > clock' => n > clock
        BY <2>2 DEF DiskTypes, Stamps
      <3> QED
        BY <2>1, <2>2, <3>1, <3>2 DEF BackupInv, FullIsWhole
    <2>3. ASSUME NEW id \in {clock, clock + 1} \cap Stamps, NEW h \in HalfDirs,
                 ~ Exists(saves[id]), saves' = [saves EXCEPT ![id] = h],
                 clock' = id, sel' = id, doomed' = doomed \ {id}, Goto("copy")
          PROVE  BackupInv'
      <3>1. pc' = "copy" /\ ~ Filled'
        BY <2>3 DEF Goto, Filled
      <3>2. \A n \in Ids : n # id => saves'[n] = saves[n]
        BY <2>3 DEF DiskTypes
      <3>3. \A n \in Stamps : n > clock' => n > clock /\ n # id /\ n \in Ids
        BY <2>3 DEF DiskTypes, Stamps, Ids
      <3>4. \A n \in full : n # id /\ n \in Ids
        BY <2>3 DEF DiskTypes, BackupInv
      <3>5. \A n \in Stamps : n > clock' => ~ Exists(saves'[n])
        BY <3>2, <3>3 DEF BackupInv
      <3>6. (\A n \in full' : Exists(saves'[n])) /\ FullIsWhole'
        BY <2>1, <2>3, <3>2, <3>4 DEF BackupInv, FullIsWhole
      <3> QED
        BY <1>3, <2>1, <2>3, <3>1, <3>4, <3>5, <3>6 DEF BackupInv, BackupFlush, Return, Leave
    <2> QED
      BY <1>3, <2>2, <2>3 DEF BackupFlush, DiskTypes
  <1>4. CASE BackupCopy
    <2>1. pc = "copy" /\ ~ Filled' /\ UNCHANGED <<full, doomed, sel, clock>>
      BY <1>4 DEF BackupCopy, Filled, Return, Leave, Goto, call, past
    <2>2. PICK d \in Dirs : /\ saves' = [saves EXCEPT ![sel] = d]
                            /\ pc' = "meta" => Exists(d) /\ d.rest # Half /\ d.region # Half
      BY <1>4, DirFacts DEF BackupCopy, Discard, DiskTypes, BackupInv, Return, Leave
    <2>3. pc' \notin {"copy", "remove"}
      BY <1>4 DEF BackupCopy, Return, Leave, Goto
    <2> QED
      BY <2>1, <2>2, <2>3, CopyingKeeps
  <1>5. CASE BackupMeta
    <2>1. pc = "meta" /\ UNCHANGED <<doomed, sel, clock>> /\ sel = clock /\ sel \in Stamps
      BY <1>5 DEF BackupMeta, call, past, BackupInv, DiskTypes
    <2>2. CASE UNCHANGED saves /\ full' = full \cup {sel}
      <3>1. pc' = "prune" /\ job' = job /\ saves[sel].rest # Half /\ saves[sel].region # Half
        BY <1>5, <2>1, <2>2, DirFacts DEF BackupMeta, Goto, call, BackupInv, Return, Leave
      <3>2. Exists(saves[sel])
        BY <2>1 DEF BackupInv
      <3> QED
        BY <2>1, <2>2, <3>1, <3>2 DEF BackupInv, FullIsWhole
    <2>3. ASSUME Discard(sel), Return("failed"), UNCHANGED full PROVE BackupInv'
      <3>1. PICK d \in Dirs : saves' = [saves EXCEPT ![sel] = d]
        BY <2>3, DirFacts DEF Discard
      <3>2. pc' = "idle" /\ ~ Filled'
        BY <2>3 DEF Return, Leave, Filled
      <3> QED
        BY <2>1, <2>3, <3>1, <3>2, CopyingKeeps
    <2> QED
      BY <1>5, <2>2, <2>3 DEF BackupMeta
  <1>6. CASE Prune
    <2>1. pc = "prune" /\ job' = job /\ UNCHANGED <<sel, clock>>
          /\ pc' \notin {"copy", "meta", "remove"}
      BY <1>6 DEF Prune, PruneEnds, Return, Leave, Goto, call, past
    <2>2. Filled' => Filled
      BY <1>6, <2>1 DEF Prune, PruneEnds, Filled, Return, Leave, Goto, Control, Backups
    <2>3. CASE UNCHANGED <<saves, full, doomed>>
      BY <2>1, <2>2, <2>3 DEF BackupInv, FullIsWhole
    <2>4. ASSUME NEW id \in Excess, doomed' = doomed \cup {id},
                 \/ saves' = [saves EXCEPT ![id] = NoDir] /\ full' = full \ {id}
                 \/ /\ \E h \in HalfDirs : saves' = [saves EXCEPT ![id] = h]
                    /\ full' \in {full, full \ {id}}
          PROVE  BackupInv'
      <3>1. id \in Ids /\ Exists(saves[id])
        BY DEF Excess, Ids
      <3>2. Filled => id # sel
        BY <2>1, PruneKeepsNewest
      <3>3. PICK d \in {NoDir} \cup HalfDirs :
              saves' = [saves EXCEPT ![id] = d] /\ (d = NoDir => full' = full \ {id})
        BY <2>4, DirFacts DEF Exists
      <3> QED
        BY <2>1, <2>2, <2>4, <3>1, <3>2, <3>3, RemovalKeeps
    <2> QED
      BY <1>6, <2>3, <2>4 DEF Prune
  <1>7. CASE DeleteRemove
    <2>1. /\ sel \in Ids /\ Exists(saves[sel]) /\ UNCHANGED <<sel, clock, job>> /\ job = "delete"
          /\ pc' = "resume" /\ ~ Filled'
      BY <1>7 DEF DeleteRemove, Control, DiskTypes, BackupInv, call, Leave, Filled
    <2>2. PICK d \in {NoDir} \cup HalfDirs :
            saves' = [saves EXCEPT ![sel] = d] /\ (d = NoDir => full' = full \ {sel})
      BY <1>7, DirFacts DEF DeleteRemove, Exists
    <2>3. full' \in {full, full \ {sel}} /\ doomed' = doomed \cup {sel}
      BY <1>7 DEF DeleteRemove
    <2> QED
      BY <2>1, <2>2, <2>3, RemovalKeeps
  <1>8. CASE SwitchHealer
    BY <1>8 DEF SwitchHealer, disk, Filled, BackupInv, FullIsWhole
  <1>9. ASSUME NEW s \in Snaps, Snapshot(s) PROVE BackupInv'
    <2>1. /\ UNCHANGED <<full, doomed, sel, clock, job, pc, live>> /\ ~ Exists(saves[s])
          /\ s \in Ids /\ s \notin Stamps /\ Stamps \subseteq Ids
      BY <1>9, GameServerAssumption DEF Snapshot, call, past, Ids, Stamps, GameServerAssumption
    <2>2. \A n \in Ids : n # s => saves'[n] = saves[n]
      BY <1>9 DEF Snapshot, DiskTypes
    <2>3. s \notin full /\ full \subseteq Ids
      BY <2>1 DEF BackupInv, DiskTypes
    <2>4. /\ pc \in {"copy", "meta"} \/ Filled => sel \in Stamps
          /\ pc = "remove" => sel \in Ids /\ sel # s
      BY <2>1 DEF BackupInv, DiskTypes, Control
    <2>5. Filled' <=> Filled
      BY <2>1 DEF Filled
    <2> QED
      BY <2>1, <2>2, <2>3, <2>4, <2>5 DEF BackupInv, FullIsWhole
  <1> QED
    BY <1>1, <1>2, <1>3, <1>4, <1>5, <1>6, <1>7, <1>8, <1>9 DEF Next, Delete, Backup

-----------------------------------------------------------------------------
(* Restores                                                                *)

Chosen == saves[sel]

\* How far a restore is, at each program counter, while nobody plays.
RestoreInv ==
  job = "restore" /\ begun # NoDir =>
    /\ RestoreKeepsWorld
    /\ pc \in {"restore", "stale", "rename"} => live = begun
    /\ pc \in {"stale", "rename", "back", "perm", "drop"} \/ live # begun =>
         sel \in Ids /\ Exists(Chosen)
    /\ pc = "rename" /\ ~ IsFull => begun.left = None
    /\ pc \in {"back", "perm"} =>
         IF IsFull THEN old = begun
         ELSE live.rest = begun.rest /\ live.left = begun.region /\ begun.left = None
    /\ pc \in {"perm", "drop"} =>
         IF IsFull THEN live = CopyOf(Chosen)
         ELSE live.rest = begun.rest /\ live.region = Copied(Chosen.region)

LEMMA RestoreFrame ==
    ASSUME Control, job' = "restore",
           \/ LifeCycle \/ Backup \/ Delete \/ Wipe
           \/ AgentCrash \/ ProcessExits \/ UNCHANGED vars
    PROVE  UNCHANGED <<job, live, old, saves, full, sel, begun>> /\ pc' \in {pc, "idle"}
  <1> USE DEF Control, Backups, Restarts, host, call, disk, past, Leave, Return, Goto
  <1>1. CASE LifeCycle
    BY <1>1 DEF LifeCycle, Start, Stop, Kill, AwaitDown, AwaitUp, Warn, Kick
  <1>2. CASE Backup
    BY <1>2 DEF Backup, BackupFlush, BackupCopy, BackupMeta, Prune
  <1>3. CASE Delete
    BY <1>3 DEF Delete, DeletePause, DeleteRemove
  <1>4. CASE Wipe
    BY <1>4 DEF Wipe, WipePause, WipeQuit, WipeKill, WipeGone, WipeErase, WipeStart, WipeFresh,
                DeferredStart, DeferredHealer
  <1>5. CASE AgentCrash \/ ProcessExits \/ UNCHANGED vars
    BY <1>5 DEF AgentCrash, ProcessExits, vars
  <1> QED
    BY <1>1, <1>2, <1>3, <1>4, <1>5

LEMMA RestoreStep == DiskTypes /\ Control /\ RestoreInv /\ [Next]_vars => RestoreInv'
  <1> SUFFICES ASSUME DiskTypes, Control, RestoreInv, [Next]_vars, job' = "restore", begun' # NoDir
               PROVE  RestoreInv'
    BY DEF RestoreInv
  <1>1. ASSUME NEW j \in JobTypes, Execute(j) PROVE RestoreInv'
    <2>1. pc' \in EntryPoints("restore") /\ live' = live /\ begun' = live
      BY <1>1 DEF Execute, disk
    <2>2. pc' = "restore"
      BY <2>1 DEF EntryPoints
    <2> QED
      BY <2>1, <2>2 DEF RestoreInv, RestoreKeepsWorld
  <1>2. CASE \/ LifeCycle \/ Backup \/ Delete \/ Wipe
             \/ AgentCrash \/ ProcessExits \/ UNCHANGED vars
    BY <1>2, RestoreFrame DEF RestoreInv, RestoreKeepsWorld, IsFull, Chosen
  <1>3. CASE Restore
    <2>1. /\ UNCHANGED <<job, sel, saves, full, begun>> /\ sel \in Ids /\ job = "restore"
          /\ (IsFull <=> IsFull') /\ Chosen' = Chosen
      BY <1>3 DEF Restore, RestoreCheck, RestoreStale, RestoreRename, RestoreCopy, RestorePermissions,
                  RestoreDrop, disk, call, past, Control, DiskTypes, IsFull, Chosen
    <2> USE <2>1 DEF RestoreInv, RestoreKeepsWorld, Leave, Return, Goto, Chosen
    <2>2. CASE RestoreCheck
      BY <2>2 DEF RestoreCheck, disk
    <2>3. CASE RestoreStale
      BY <2>3 DEF RestoreStale
    <2>4. CASE RestoreRename
      BY <2>4 DEF RestoreRename, Dir
    <2>5. CASE RestoreCopy
      BY <2>5 DEF RestoreCopy, Restored, Rollback, Dir, DiskTypes, Dirs
    <2>6. CASE RestorePermissions
      BY <2>6 DEF RestorePermissions, Rollback, Dir, DiskTypes, Dirs
    <2>7. CASE RestoreDrop
      BY <2>7 DEF RestoreDrop
    <2> QED
      BY <1>3, <2>2, <2>3, <2>4, <2>5, <2>6, <2>7 DEF Restore
  <1>4. CASE Play \/ SwitchHealer
    BY <1>4 DEF Play, SwitchHealer
  <1>5. ASSUME NEW s \in Snaps, Snapshot(s) PROVE RestoreInv'
    <2>1. UNCHANGED <<full, sel, job, pc, live, old, begun>> /\ ~ Exists(saves[s])
      BY <1>5 DEF Snapshot, call, past
    <2>2. IsFull' <=> IsFull
      BY <2>1 DEF IsFull
    <2>3. CASE sel = s
      BY <2>1, <2>2, <2>3 DEF RestoreInv, RestoreKeepsWorld, Chosen
    <2>4. CASE sel # s
      <3>1. sel \in Ids => Chosen' = Chosen
        BY <1>5, <2>1, <2>4 DEF Snapshot, DiskTypes, Chosen
      <3> QED
        BY <2>1, <2>2, <3>1 DEF RestoreInv, RestoreKeepsWorld, Chosen
    <2> QED
      BY <2>3, <2>4
  <1> QED
    BY <1>1, <1>2, <1>3, <1>4, <1>5 DEF Next

-----------------------------------------------------------------------------
(* RegionHealer, restarts and wipes                                        *)

\* A job that has not looked at the healer yet has nothing to resume.
HealerInv ==
    /\ job \in {"wipe", "delete"} /\ pc = job => resume = FALSE
    /\ resume \in BOOLEAN
    /\ HealerResumes

LEMMA HealerStep == Control /\ HealerInv /\ [Next]_vars => HealerInv'
  <1> SUFFICES ASSUME Control, HealerInv, [Next]_vars PROVE HealerInv'
    OBVIOUS
  <1> USE DEF HealerInv, HealerResumes, Control, Backups, Restarts, host, call, past, Leave, Return, Goto
  <1>1. ASSUME NEW j \in JobTypes, Execute(j) PROVE HealerInv'
    BY <1>1, EntryFacts DEF Execute
  <1>2. CASE LifeCycle
    <2>1. job \notin {"wipe", "delete"} /\ job' = job /\ resume' = resume
      BY <1>2 DEF LifeCycle, Start, Stop, Kill, AwaitDown, AwaitUp, Warn, Kick
    <2> QED
      BY <2>1
  <1>3. CASE Backup
    BY <1>3 DEF Backup, BackupFlush, BackupCopy, BackupMeta, Prune
  <1>4. CASE Restore
    BY <1>4 DEF Restore, RestoreCheck, RestoreStale, RestoreRename, RestoreCopy,
                RestorePermissions, RestoreDrop
  <1>5. CASE Delete
    <2>1. CASE DeletePause
      <3>1. resume' \in BOOLEAN
        BY <2>1 DEF DeletePause
      <3>2. job = "delete" /\ job' = job /\ pc' \in {"remove", "idle"} /\ resume = FALSE
        BY <2>1 DEF DeletePause
      <3>3. pc' = "idle" => resume' = resume
        BY <2>1 DEF DeletePause
      <3> QED
        BY <3>1, <3>2, <3>3
    <2>2. CASE DeleteRemove
      BY <2>2 DEF DeleteRemove
    <2> QED
      BY <1>5, <2>1, <2>2 DEF Delete
  <1>6. CASE WipePause \/ WipeQuit \/ WipeKill \/ WipeGone
    BY <1>6 DEF WipePause, WipeQuit, WipeKill, WipeGone
  <1>7. CASE WipeErase \/ WipeStart \/ WipeFresh \/ DeferredStart \/ DeferredHealer
    BY <1>7 DEF WipeErase, WipeStart, WipeFresh, DeferredStart, DeferredHealer
  <1>8. CASE SwitchHealer \/ AgentCrash \/ ProcessExits \/ Play \/ UNCHANGED vars
    BY <1>8 DEF SwitchHealer, AgentCrash, ProcessExits, Play, vars
  <1>9. ASSUME NEW s \in Snaps, Snapshot(s) PROVE HealerInv'
    BY <1>9 DEF Snapshot
  <1> QED
    BY <1>1, <1>2, <1>3, <1>4, <1>5, <1>6, <1>7, <1>8, <1>9 DEF Next, Wipe

\* Restart starts a unit that it has seen inactive or shutting down, and waits
\* for the process of that start.
RestartInv ==
    /\ job \in Restarts /\ ~ misread =>
         (pc = "start" => unit # "active") /\ (pc = "up" => boot > startBoot)
    /\ RestartIsNew

LEMMA RestartStep == HostTypes /\ Control /\ RestartInv /\ [Next]_vars => RestartInv'
  <1> SUFFICES ASSUME HostTypes, Control, RestartInv, [Next]_vars PROVE RestartInv'
    OBVIOUS
  <1> USE DEF RestartInv, RestartIsNew, HostTypes, Control, Backups, Restarts, host, call, past,
              Leave, Return, Goto, Bounds
  <1>1. ASSUME NEW j \in JobTypes, Execute(j) PROVE RestartInv'
    BY <1>1, EntryFacts DEF Execute
  <1>2. CASE LifeCycle
    <2>1. CASE Start
      BY <2>1 DEF Start, UnitStart
    <2>2. CASE Stop
      BY <2>2 DEF Stop
    <2>3. CASE Kill
      <3>1. job' \notin Restarts
        BY <2>3 DEF Kill
      <3> QED
        BY <3>1
    <2>4. CASE AwaitDown \/ AwaitUp \/ Warn \/ Kick
      BY <2>4 DEF AwaitDown, AwaitUp, Warn, Kick
    <2> QED
      BY <1>2, <2>1, <2>2, <2>3, <2>4 DEF LifeCycle
  <1>3. CASE Backup
    BY <1>3 DEF Backup, BackupFlush, BackupCopy, BackupMeta, Prune, PruneEnds
  <1>4. CASE Restore
    BY <1>4 DEF Restore, RestoreCheck, RestoreStale, RestoreRename, RestoreCopy,
                RestorePermissions, RestoreDrop
  <1>5. CASE Delete
    BY <1>5 DEF Delete, DeletePause, DeleteRemove
  <1>6. CASE Wipe
    <2>1. job' = "wipe" \/ job' = "delete"
      BY <1>6 DEF Wipe, WipePause, WipeQuit, WipeKill, WipeGone, WipeErase, WipeStart, WipeFresh,
                  DeferredStart, DeferredHealer
    <2> QED
      BY <2>1
  <1>7. CASE SwitchHealer \/ AgentCrash \/ ProcessExits \/ Play \/ UNCHANGED vars
    BY <1>7 DEF SwitchHealer, AgentCrash, ProcessExits, Play, vars
  <1>8. ASSUME NEW s \in Snaps, Snapshot(s) PROVE RestartInv'
    BY <1>8 DEF Snapshot
  <1> QED
    BY <1>1, <1>2, <1>3, <1>4, <1>5, <1>6, <1>7, <1>8 DEF Next

\* Each look that took a running process for a stopped one is a fault.
WipeInv ==
  unit # "inactive" => (pc = "gone" => faults >= 1) /\ (pc = "erase" => faults >= 2)

LEMMA WipeStep == HostTypes /\ Control /\ WipeInv /\ [Next]_vars => WipeInv'
  <1> SUFFICES ASSUME HostTypes, Control, WipeInv, [Next]_vars PROVE WipeInv'
    OBVIOUS
  <1> USE DEF WipeInv, HostTypes, Control, Backups, Restarts, host, call, Leave, Return, Goto,
              Bounds, Fault, NoFault
  <1>1. ASSUME NEW j \in JobTypes, Execute(j) PROVE WipeInv'
    BY <1>1, EntryFacts DEF Execute
  <1>2. CASE LifeCycle
    BY <1>2 DEF LifeCycle, Start, Stop, Kill, AwaitDown, AwaitUp, Warn, Kick
  <1>3. CASE Backup
    BY <1>3 DEF Backup, BackupFlush, BackupCopy, BackupMeta, Prune, PruneEnds
  <1>4. CASE Restore
    BY <1>4 DEF Restore, RestoreCheck, RestoreStale, RestoreRename, RestoreCopy,
                RestorePermissions, RestoreDrop
  <1>5. CASE Delete
    BY <1>5 DEF Delete, DeletePause, DeleteRemove
  <1>6. CASE WipePause \/ WipeQuit \/ WipeKill \/ WipeGone
    BY <1>6 DEF WipePause, WipeQuit, WipeKill, WipeGone, StopFailed, KillUnit, KillFailed
  <1>7. CASE WipeErase \/ WipeStart \/ WipeFresh \/ DeferredStart \/ DeferredHealer
    BY <1>7 DEF WipeErase, WipeStart, WipeFresh, DeferredStart, DeferredHealer
  <1>8. CASE SwitchHealer \/ AgentCrash \/ ProcessExits \/ Play \/ UNCHANGED vars
    BY <1>8 DEF SwitchHealer, AgentCrash, ProcessExits, Play, vars
  <1>9. ASSUME NEW s \in Snaps, Snapshot(s) PROVE WipeInv'
    BY <1>9 DEF Snapshot
  <1> QED
    BY <1>1, <1>2, <1>3, <1>4, <1>5, <1>6, <1>7, <1>8, <1>9 DEF Next, Wipe

-----------------------------------------------------------------------------
(* The theorems                                                            *)

IInv == /\ HostTypes /\ DiskTypes /\ Control
        /\ BackupInv /\ RestoreInv /\ HealerInv /\ RestartInv /\ WipeInv

LEMMA IInvInit == Init => IInv
  <1> SUFFICES ASSUME Init PROVE IInv
    OBVIOUS
  <1>1. HostTypes /\ Control /\ WipeInv /\ RestoreInv
    BY DEF Init, HostTypes, Control, WipeInv, RestoreInv
  <1>2. DiskTypes
    BY GameServerAssumption, DirFacts DEF GameServerAssumption, Init, DiskTypes, Dirs, Dir, Part
  <1>3. BackupInv
    BY DEF Init, BackupInv, FullIsWhole, Exists, Filled, Stamps, Ids
  <1>4. HealerInv /\ RestartInv
    BY DEF Init, HealerInv, HealerResumes, RestartInv, RestartIsNew
  <1> QED
    BY <1>1, <1>2, <1>3, <1>4 DEF IInv

\* The parts are inductive together (every operation of adapter.go).
THEOREM GameServerInvariant == Spec => []IInv
  <1>1. IInv /\ [Next]_vars => IInv'
    BY HostStep, DiskStep, ControlStep, BackupStep, RestoreStep, HealerStep, RestartStep, WipeStep
    DEF IInv
  <1> QED
    BY IInvInit, <1>1, PTL DEF Spec

\* A backup with metadata is a finished copy (BackupSave writes the metadata
\* last): FullIsWhole always holds.
THEOREM FullBackupsAreWhole == Spec => []FullIsWhole
  <1>1. IInv => FullIsWhole
    BY DEF IInv, BackupInv
  <1> QED
    BY <1>1, GameServerInvariant, PTL

\* SafeRestart takes the server down only with its backup on disk, whatever
\* pruneFullSaveBackups removed: SafeRestartHasBackup always holds.
THEOREM SafeRestartIsBackedUp == Spec => []SafeRestartHasBackup
  <1>1. IInv => SafeRestartHasBackup
    BY DEF IInv, BackupInv, Filled, SafeRestartHasBackup
  <1> QED
    BY <1>1, GameServerInvariant, PTL

\* RestoreSave never loses the world it replaces before the backup is in its
\* place: RestoreKeepsWorld always holds.
THEOREM RestoreIsSafe == Spec => []RestoreKeepsWorld
  <1>1. IInv => RestoreKeepsWorld
    BY DEF IInv, RestoreInv, RestoreKeepsWorld
  <1> QED
    BY <1>1, GameServerInvariant, PTL

\* The deferred start of RegionHealer is on every path out of WipeSave and
\* DeleteSaveBackup: HealerResumes always holds.
THEOREM HealerIsResumed == Spec => []HealerResumes
  <1>1. IInv => HealerResumes
    BY DEF IInv, HealerInv
  <1> QED
    BY <1>1, GameServerInvariant, PTL

\* Restart and SafeRestart succeed with a process they started
\* (waitFor7DTDState): RestartIsNew always holds.
THEOREM RestartStartsProcess == Spec => []RestartIsNew
  <1>1. IInv => RestartIsNew
    BY DEF IInv, RestartInv
  <1> QED
    BY <1>1, GameServerInvariant, PTL

\* WipeSave deletes the save of a running process only after two failed
\* queries: every step satisfies WipeOnlyWhenStopped.
THEOREM WipeNeedsTwoFaults == Spec => WipeOnlyWhenStopped
  <1>1. IInv /\ [Next]_vars
          => [pc = "erase" /\ pc' # "erase" /\ live' # live /\ unit # "inactive" => faults >= 2]_vars
    BY DEF IInv, WipeInv
  <1> QED
    BY <1>1, GameServerInvariant, PTL DEF Spec, WipeOnlyWhenStopped

=============================================================================
