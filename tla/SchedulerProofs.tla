-------------------------- MODULE SchedulerProofs ---------------------------
(***************************************************************************)
(* Theorems about Scheduler, for every number of schedules, runs and fires *)
(* and every clock: a schedule that nobody edits never has two unfinished  *)
(* runs, and one edit or restart does not end an enabled schedule.         *)
(***************************************************************************)
EXTENDS Scheduler, WellFoundedInduction, TLAPS

-----------------------------------------------------------------------------
(* Times of a cron field                                                   *)

\* Times are natural numbers: every set of them has a first one.
LEMMA Least ==
    ASSUME NEW S \in SUBSET Nat, S # {}
    PROVE  \E m \in S : \A k \in S : m <= k
  <1> DEFINE R == {ss \in Nat \X Nat : ss[1] < ss[2]}
  <1>1. IsWellFoundedOn(R, Nat)
    BY NatLessThanWellFounded DEF OpToRel
  <1>2. \E m \in S : \A k \in S : ~ (<<k, m>> \in R)
    <2> HIDE DEF R
    <2> QED BY <1>1, WFMin
  <1>3. PICK m \in S : \A k \in S : ~ (<<k, m>> \in R)
    BY <1>2
  <1>4. ASSUME NEW k \in S PROVE m <= k
    <2>1. ~ (<<k, m>> \in R) /\ k \in Nat /\ m \in Nat
      BY <1>3
    <2> QED
      BY <2>1
  <1> QED
    BY <1>4

LEMMA ModUnique ==
    ASSUME NEW q \in Nat, NEW n \in Nat \ {0}, NEW r \in 0..(n - 1)
    PROVE  (n * q + r) % n = r
  OBVIOUS

LEMMA ModAdd ==
    ASSUME NEW a \in Nat, NEW n \in Nat \ {0}, NEW b \in Nat, (a % n) + b < n
    PROVE  (a + b) % n = (a % n) + b
  <1>1. a \div n \in Nat /\ a % n \in 0..(n - 1) /\ a = n * (a \div n) + (a % n)
    OBVIOUS
  <1>2. PICK q \in Nat, r \in 0..(n - 1) : a = n * q + r /\ r = a % n
    BY <1>1
  <1>3. (n * q + (r + b)) % n = r + b
    <2>1. r + b \in 0..(n - 1)
      BY <1>2
    <2> QED
      BY <2>1, ModUnique
  <1>4. PICK k \in Int : k = n * q
    <2>1. n * q \in Int
      BY <1>2
    <2> QED
      BY <2>1
  <1>5. a + b = k + (r + b)
    BY <1>2, <1>4
  <1> QED
    BY ONLY <1>2, <1>3, <1>4, <1>5

LEMMA ModWrap ==
    ASSUME NEW a \in Nat, NEW n \in Nat \ {0}
    PROVE  (a - (a % n) + n) % n = 0
  OBVIOUS

LEMMA Numbers ==
    /\ Crons \subseteq Nat \ {0} /\ Crons # {} /\ Field \in Nat \ {0} /\ \A c \in Crons : c <= Field
    /\ Horizon \in Nat /\ MaxChanges \in Nat /\ MaxFaults \in Nat
  <1>1. Horizon \in {Horizon, MaxChanges, MaxFaults} /\ MaxChanges \in {Horizon, MaxChanges, MaxFaults}
        /\ MaxFaults \in {Horizon, MaxChanges, MaxFaults}
    OBVIOUS
  <1>2. Horizon \in Nat /\ MaxChanges \in Nat /\ MaxFaults \in Nat
    BY <1>1, SchedulerAssumption DEF SchedulerAssumption
  <1>3. Crons \subseteq Nat \ {0} /\ Crons # {} /\ Field \in Nat /\ \A c \in Crons : c <= Field
    BY SchedulerAssumption DEF SchedulerAssumption
  <1>4. Field # 0
    <2>1. PICK c \in Crons : TRUE
      BY <1>3
    <2>2. c \in Nat \ {0} /\ c <= Field
      BY <1>3
    <2> QED
      BY <1>3, <2>2
  <1> QED
    BY <1>2, <1>3, <1>4

LEMMA MaxCron ==
    LET K == CHOOSE c \in Crons : \A d \in Crons : d <= c
    IN  K \in Crons /\ \A c \in Crons : c <= K
  <1>1. PICK m \in {Field - c : c \in Crons} : \A k \in {Field - c : c \in Crons} : m <= k
    <2>1. \A c \in Crons : Field - c \in Nat
      BY Numbers
    <2>2. {Field - c : c \in Crons} \in SUBSET Nat /\ {Field - c : c \in Crons} # {}
      BY <2>1, Numbers
    <2> QED
      BY <2>2, Least
  <1>2. \E c \in Crons : \A d \in Crons : d <= c
    <2>1. PICK d \in Crons : \A c \in Crons : Field - d <= Field - c
      BY <1>1
    <2>2. \A c \in Crons : c <= d
      BY <2>1, Numbers
    <2> QED
      BY <2>2
  <1> QED
    BY <1>2

\* getNextCronRun finds a time, later than t by the step at most.
LEMMA NextRunIsLater ==
    ASSUME NEW c \in Crons, NEW t \in Nat
    PROVE  NextRun(c, t) \in (t + 1)..(t + c)
  <1> DEFINE a == t % Field
             v == a - (a % c) + c
             Match == {u \in (t + 1)..(t + c) : u % Field \in Values(c)}
  <1>1. c \in Nat \ {0} /\ Field \in Nat \ {0} /\ c <= Field
    BY Numbers
  <1>2. a \in 0..(Field - 1)
    BY <1>1
  <1>3. v \in (a + 1)..(a + c) /\ v % c = 0
    <2>1. a % c \in 0..(c - 1)
      BY <1>1, <1>2
    <2>2. a % c <= a
      BY <1>1, <1>2
    <2>3. v % c = 0
      BY <1>1, <1>2, ModWrap
    <2> QED
      BY <1>1, <1>2, <2>1, <2>2, <2>3
  <1>4. Match # {}
    <2>1. CASE v < Field
      <3>1. (t + (v - a)) % Field = v
        <4>1. v - a \in Nat /\ a + (v - a) < Field /\ a + (v - a) = v
          BY <1>2, <1>3, <2>1
        <4> QED
          BY <1>1, <1>2, <1>3, <4>1, ModAdd
      <3>2. v \in Values(c)
        <4>1. v \in 0..(Field - 1)
          BY <1>1, <1>2, <1>3, <2>1
        <4> QED
          BY <1>3, <4>1 DEF Values
      <3>3. t + (v - a) \in (t + 1)..(t + c)
        BY <1>1, <1>2, <1>3
      <3> QED
        BY <3>1, <3>2, <3>3
    <2>2. CASE v >= Field
      <3>1. (t - a + Field) % Field = 0
        BY <1>1, ModWrap
      <3>2. 0 \in Values(c)
        BY <1>1 DEF Values
      <3>3. t - a + Field \in (t + 1)..(t + c)
        BY <1>1, <1>2, <1>3, <2>2
      <3> QED
        BY <3>1, <3>2, <3>3
    <2> QED
      BY <1>1, <1>2, <1>3, <2>1, <2>2
  <1>5. PICK u \in Match : \A w \in Match : u <= w
    <2>1. Match \in SUBSET Nat
      BY <1>1
    <2> HIDE DEF Match
    <2> QED
      BY <1>4, <2>1, Least
  <1>6. \A w \in (t + 1)..(u - 1) : w % Field \notin Values(c)
    <2> SUFFICES ASSUME NEW w \in (t + 1)..(u - 1), w % Field \in Values(c) PROVE FALSE
      OBVIOUS
    <2>1. w \in (t + 1)..(t + c) /\ w < u
      BY <1>1, <1>5
    <2> QED
      BY <1>5, <2>1
  <1> QED
    BY <1>5, <1>6 DEF NextRun

\* Every time computeNextRun gives within the horizon is one of Times.
LEMMA NextRunIsTime ==
    ASSUME NEW c \in Crons, NEW t \in 0..Horizon
    PROVE  NextRun(c, t) \in Times /\ NextRun(c, t) > t
  <1>1. NextRun(c, t) \in (t + 1)..(t + c)
    BY NextRunIsLater, Numbers
  <1>2. PICK K \in Crons : (\A d \in Crons : d <= K) /\ Times = 1..(Horizon + K)
    BY MaxCron DEF Times
  <1> QED
    BY <1>1, <1>2, Numbers

-----------------------------------------------------------------------------
(* The inductive invariant                                                 *)

BeforeUpdate == {"load", "check", "create", "add", "update", "skip", "catch"}
Readding     == {"readd_skip", "readd", "readd_catch"}
LiveStages   == BeforeUpdate \cup Readding
Loaded       == LiveStages \ {"load"}
Chosen       == Readding \cup {"update", "skip"}
Stages       == LiveStages \cup {"no", "end", "failed"}

Update == [n : 0..MaxChanges, s : Schedules, pc : {"write", "remove", "add"},
           old : {0} \cup Times, at : {0} \cup Times, enabled : {"same", "on", "off"},
           cron : {0} \cup Crons]

SchedulerTypes ==
    /\ now \in 0..Horizon
    /\ row \in [Schedules -> {"none", "on", "off", "gone"}]
    /\ cron \in [Schedules -> Crons]
    /\ nextRunAt \in [Schedules -> {0} \cup Times]
    /\ lastRunStatus \in [Schedules -> {"none", "skipped_busy", "success", "scheduler_failed"}]
    /\ entries \subseteq Ids /\ finished \subseteq Ids
    /\ fire \in [Ids -> Stages]
    /\ seen \in [Ids -> {0} \cup Crons]
    /\ next \in [Ids -> {0} \cup Times]
    /\ made \in [Ids -> Runs \cup {NoRun}]
    /\ run \in [Runs -> {"free", "row", "queued", "running"}]
    /\ ofSched \in [Runs -> Schedules]
    /\ upd \subseteq Update
    /\ hydrating \subseteq Schedules
    /\ faults \in 0..MaxFaults /\ changes \in 0..MaxChanges

\* An entry is in one place, and what its handler works with has been read.
FireInv == \A i \in Ids :
    /\ fire[i] # "no" => i[2] <= now /\ i \notin entries \cup finished
    /\ i \in finished => i[2] <= now /\ i \notin entries
    /\ fire[i] \in Loaded => seen[i] \in Crons
    /\ fire[i] \in Chosen => next[i] \in Times /\ next[i] > i[2]

\* The run a handler is about to enqueue is its own.
MadeInv == \A i \in Ids : fire[i] = "add" =>
    /\ made[i] \in Runs /\ run[made[i]] = "row" /\ ofSched[made[i]] = i[1]
    /\ \A j \in Ids : fire[j] = "add" /\ made[j] = made[i] => i = j

\* A schedule leaves no trace before it exists, and a request of each kind is
\* known by its number.
RowInv == \A s \in Schedules :
    /\ row[s] = "none" => /\ \A i \in Ids : i[1] = s => ~ Known(i)
                          /\ \A u \in upd : u.s # s
                          /\ s \notin hydrating
    /\ row[s] # "none" => nextRunAt[s] \in Times

UpdateInv ==
    /\ \A u \in upd :
          /\ u.n <= changes
          /\ u.n = 0 => u.pc = "add"
          /\ u.pc = "add" \/ (u.pc = "write" /\ u.cron # 0) => u.at \in Times
    /\ \A u, v \in upd : u.n = v.n /\ (u.n = 0 => u.s = v.s) => u = v
    /\ hydrating # {} => upd = {}

\* What keeps the chain of a schedule going: an entry or its handler.
Token(i) == i \in entries \/ fire[i] \in LiveStages
Editing(u, s) == u.s = s /\ u.pc \in {"write", "remove"}
\* Nothing has started a second chain yet.
OneChain(s) == changes = 0 \/ (changes = 1 /\ \E u \in upd : Editing(u, s))

OneToken(s) ==
    /\ hydrating = {}
    /\ \A i, j \in Ids : i[1] = s /\ j[1] = s /\ Token(i) /\ Token(j) => i = j
    /\ \A u \in upd : u.s = s /\ u.n = 0 => \A i \in Ids : i[1] = s => ~ Known(i)

TokenInv == \A s \in Schedules :
    Undisturbed(s) /\ OneChain(s) /\ row[s] # "gone" => OneToken(s)

\* A handler that found no unfinished run creates the only one.
SoleRun(s) ==
    /\ \A q, r \in Active(s) : q = r
    /\ \A i \in Ids : i[1] = s /\ fire[i] = "create" => Active(s) = {}
    /\ \A i, j \in Ids : /\ i[1] = s /\ j[1] = s
                         /\ fire[i] \in {"check", "create", "add"}
                         /\ fire[j] \in {"check", "create", "add"}
                         => i = j

RunInv == changes = 0 => \A s \in Schedules : Undisturbed(s) => SoleRun(s)

\* Without failing calls a handler fails only for a deleted schedule.
SmoothInv(s) == row[s] # "gone" =>
    \A i \in Ids : i[1] = s => fire[i] \notin {"failed", "catch", "readd_catch"}

\* A schedule created disabled has no chain until the update that enables it.
OffInv(s) == row[s] = "off" /\ (changes = 0 \/ \E u \in upd : u.s = s /\ u.pc = "write") =>
    /\ \A i \in Ids : i[1] = s => ~ Known(i)
    /\ \A u \in upd : u.s = s => u.n # 0

\* Before any change nextRunAt is the time of the token.
NextInv(s) == changes = 0 /\ row[s] = "on" =>
    /\ \A i \in Ids : i[1] = s =>
          /\ i \in entries \/ fire[i] \in BeforeUpdate => nextRunAt[s] = i[2]
          /\ fire[i] \in Readding => nextRunAt[s] = next[i]
    /\ \A u \in upd : u.s = s => u.at = nextRunAt[s]

\* The entry an update will remove is still to come or waiting ...
Future(u) ==
    \/ <<u.s, u.old>> \in entries
    \/ \E i \in Ids : i[1] = u.s /\ fire[i] \in Readding /\ next[i] = u.old
    \/ \E v \in upd : v.s = u.s /\ v.n = 0 /\ v.at = u.old
\* ... and then what has fired is older than the entry it adds instead.
EditInv(s) == row[s] = "on" => \A u \in upd : Editing(u, s) =>
    /\ \A i \in Ids : i[1] = s =>
          /\ i \in entries \/ fire[i] \in BeforeUpdate => i[2] >= u.old
          /\ fire[i] \in Readding => next[i] >= u.old
    /\ \A v \in upd : v.s = s /\ v.n = 0 => v.at >= u.old
    /\ u.pc = "remove" => u.at # 0
    /\ Future(u) =>
          IF u.cron = 0
          THEN (IF u.pc = "write" THEN nextRunAt[s] ELSE u.at) = u.old
          ELSE \A i \in Ids : i[1] = s /\ (i \in finished \/ fire[i] # "no") => i[2] < u.at

\* An entry that is done is followed by a token or by an update's new entry.
Done(i) == i \in finished \/ fire[i] = "end"
Followed(i) ==
    \/ \E j \in Ids : j[1] = i[1] /\ j[2] > i[2] /\ Token(j)
    \/ \E u \in upd : u.s = i[1] /\ u.pc = "add" /\ u.at > i[2]
DoneInv(s) == row[s] = "on" /\ s \notin hydrating =>
    \A i \in Ids : i[1] = s /\ Done(i) => Followed(i)

AliveInv(s) == row[s] = "on" =>
    \/ \E i \in Ids : i[1] = s /\ Token(i)
    \/ \E u \in upd : u.s = s
    \/ s \in hydrating

ChainOf(s) == SmoothInv(s) /\ OffInv(s) /\ NextInv(s) /\ EditInv(s) /\ DoneInv(s) /\ AliveInv(s)

ChainInv == faults = 0 /\ changes <= 1 =>
    \A s \in Schedules : Undisturbed(s) => ChainOf(s)

IInv == /\ SchedulerTypes /\ FireInv /\ MadeInv /\ RowInv /\ UpdateInv
        /\ TokenInv /\ RunInv /\ ChainInv

-----------------------------------------------------------------------------
(* Identities, and the steps by name                                       *)

LEMMA TimesNat == Times \subseteq Nat \ {0}
  BY MaxCron, Numbers DEF Times

LEMMA IdParts == \A i \in Ids : /\ i[1] \in Schedules /\ i[2] \in Times /\ i[2] \in Nat
                                /\ i = <<i[1], i[2]>>
  <1> SUFFICES ASSUME NEW i \in Schedules \X Times
               PROVE  i[1] \in Schedules /\ i[2] \in Times /\ i[2] \in Nat /\ i = <<i[1], i[2]>>
    BY DEF Ids
  <1>1. i[1] \in Schedules /\ i[2] \in Times /\ i = <<i[1], i[2]>>
    OBVIOUS
  <1> QED
    BY <1>1, TimesNat

LEMMA IdPair ==
    ASSUME NEW s \in Schedules, NEW t \in Times
    PROVE  <<s, t>> \in Ids /\ <<s, t>>[1] = s /\ <<s, t>>[2] = t
  BY DEF Ids

Creating  == \E s \in Schedules, c \in Crons, e \in {"on", "off"} : CreateSchedule(s, c, e)
Reading   == \E s \in Schedules, c \in Crons \cup {0}, e \in {"same", "on", "off"} : UpdateRead(s, e, c)
Deleting  == \E s \in Schedules : DeleteSchedule(s)
Updating  == \E u \in upd : UpdateWrite(u) \/ UpdateRemove(u) \/ UpdateAdd(u)
OfRuns    == Pipeline \/ Tick
Hydrating == \E s \in Schedules : Hydrate(s)
Dying     == \E i \in Ids : FireFailedGone(i)

LEMMA NextSteps ==
    ASSUME Next
    PROVE  \/ Creating \/ Reading \/ Deleting \/ Updating \/ Firing
           \/ Restart \/ Dying \/ Hydrating \/ OfRuns
  <1>1. \A s \in Schedules : handleCreate(s) => Creating
    BY DEF handleCreate, create, ScheduleForm, Creating
  <1>2. \A s \in Schedules : handleToggle(s) \/ update(s) => Reading
    BY DEF handleToggle, update, Reading
  <1> QED
    BY <1>1, <1>2 DEF Next, Requests, Restarting, Deleting, Updating, OfRuns, Hydrating, Dying

-----------------------------------------------------------------------------
(* Types                                                                   *)

LEMMA TypesInit == Init => SchedulerTypes
  BY Numbers DEF Init, SchedulerTypes, Stages, LiveStages, BeforeUpdate, Readding

LEMMA TypesStep == SchedulerTypes /\ FireInv /\ UpdateInv /\ MadeInv /\ [Next]_vars => SchedulerTypes'
  <1> SUFFICES ASSUME SchedulerTypes, FireInv, UpdateInv, MadeInv, [Next]_vars
               PROVE  SchedulerTypes'
    OBVIOUS
  <1> USE Numbers DEF SchedulerTypes, Stages, LiveStages, BeforeUpdate, Readding, rowVars, fireVars,
          runVars, bounds, Goto
  <1>1. /\ \A s \in Schedules : NextRun(cron[s], now) \in Times
        /\ \A c \in Crons : NextRun(c, now) \in Times
        /\ \A i \in Ids : fire[i] \in Loaded => NextRun(seen[i], now) \in Times
    BY NextRunIsTime DEF FireInv
  <1>2. CASE Creating
    <2> SUFFICES ASSUME NEW s \in Schedules, NEW c \in Crons, NEW e \in {"on", "off"},
                        CreateSchedule(s, c, e)
                 PROVE  SchedulerTypes'
      BY <1>2 DEF Creating
    <2>1. [n |-> 0, s |-> s, pc |-> "add", old |-> 0, at |-> NextRun(c, now), enabled |-> "same",
           cron |-> 0] \in Update
      BY <1>1 DEF Update
    <2>2. upd' \subseteq Update
      BY <2>1 DEF CreateSchedule
    <2> QED
      BY <1>1, <2>2 DEF CreateSchedule
  <1>3. CASE Reading
    <2> SUFFICES ASSUME NEW s \in Schedules, NEW c \in Crons \cup {0}, NEW e \in {"same", "on", "off"},
                        UpdateRead(s, e, c)
                 PROVE  SchedulerTypes'
      BY <1>3 DEF Reading
    <2>1. changes' = changes + 1 /\ changes' \in 0..MaxChanges
      BY DEF UpdateRead
    <2>2. [n |-> changes + 1, s |-> s, pc |-> "write", old |-> nextRunAt[s],
           at |-> IF c = 0 THEN 0 ELSE NextRun(c, now), enabled |-> e, cron |-> c] \in Update
      BY <1>1, <2>1 DEF Update
    <2>3. upd' \subseteq Update
      BY <2>2 DEF UpdateRead
    <2> QED
      BY <2>1, <2>3 DEF UpdateRead
  <1>4. CASE Deleting
    BY <1>4 DEF Deleting, DeleteSchedule
  <1>5. CASE Updating
    <2> SUFFICES ASSUME NEW u \in upd, UpdateWrite(u) \/ UpdateRemove(u) \/ UpdateAdd(u)
                 PROVE  SchedulerTypes'
      BY <1>5 DEF Updating
    <2>1. /\ u.n \in 0..MaxChanges /\ u.s \in Schedules /\ u.pc \in {"write", "remove", "add"}
          /\ u.old \in {0} \cup Times /\ u.at \in {0} \cup Times
          /\ u.enabled \in {"same", "on", "off"} /\ u.cron \in {0} \cup Crons
      BY DEF Update
    <2>2. CASE UpdateWrite(u)
      <3>1. row' \in [Schedules -> {"none", "on", "off", "gone"}]
        BY <2>1, <2>2 DEF UpdateWrite
      <3>2. cron' \in [Schedules -> Crons]
        BY <2>1, <2>2 DEF UpdateWrite
      <3>3. nextRunAt' \in [Schedules -> {0} \cup Times]
        BY <2>1, <2>2 DEF UpdateWrite
      <3>4. PICK at \in {0} \cup Times : at = IF row'[u.s] = "on" THEN nextRunAt'[u.s] ELSE 0
        BY <2>1, <3>3
      <3>5. [n |-> u.n, s |-> u.s, pc |-> "remove", old |-> u.old, at |-> at,
             enabled |-> u.enabled, cron |-> u.cron] \in Update
        BY <2>1 DEF Update
      <3>6. upd' \subseteq upd \cup {[n |-> u.n, s |-> u.s, pc |-> "remove", old |-> u.old, at |-> at,
                                      enabled |-> u.enabled, cron |-> u.cron]}
        BY <2>2, <3>4 DEF UpdateWrite
      <3>7. upd' \subseteq Update
        BY <3>5, <3>6
      <3> QED
        BY <2>2, <3>1, <3>2, <3>3, <3>7 DEF UpdateWrite
    <2>3. CASE UpdateRemove(u)
      <3>1. [n |-> u.n, s |-> u.s, pc |-> "add", old |-> u.old, at |-> u.at,
             enabled |-> u.enabled, cron |-> u.cron] \in Update
        BY <2>1 DEF Update
      <3>2. upd' \subseteq Update
        BY <2>3, <3>1 DEF UpdateRemove
      <3> QED
        BY <2>3, <3>2 DEF UpdateRemove
    <2>4. CASE UpdateAdd(u)
      <3>1. <<u.s, u.at>> \in Ids
        BY <2>1, <2>4, IdPair DEF UpdateAdd, UpdateInv
      <3> QED
        BY <2>4, <3>1 DEF UpdateAdd, Add
    <2> QED
      BY <2>2, <2>3, <2>4
  <1>6. CASE Firing
    <2> SUFFICES ASSUME NEW i \in Ids,
                        \/ FireStart(i) \/ FireLoad(i) \/ FireCheck(i) \/ FireSkip(i) \/ FireCreate(i)
                        \/ FireAdd(i) \/ FireUpdate(i) \/ FireCatch(i) \/ FireReadd(i) \/ FireThrows(i)
                        \/ FireEnd(i) \/ FireFailed(i)
                 PROVE  SchedulerTypes'
      BY <1>6 DEF Firing
    <2>1. i[1] \in Schedules
      BY IdParts
    <2>2. CASE FireStart(i)
      BY <2>2 DEF FireStart
    <2>3. CASE FireLoad(i)
      BY <2>1, <2>3 DEF FireLoad
    <2>4. CASE FireCheck(i)
      BY <1>1, <2>4 DEF FireCheck, Loaded
    <2>5. CASE FireSkip(i)
      BY <2>1, <2>5 DEF FireSkip, SetRow
    <2>6. CASE FireCreate(i)
      BY <2>1, <2>6 DEF FireCreate
    <2>7. CASE FireAdd(i)
      BY <1>1, <2>7 DEF FireAdd, Loaded
    <2>8. CASE FireUpdate(i)
      BY <2>1, <2>8 DEF FireUpdate, SetRow
    <2>9. CASE FireCatch(i)
      BY <1>1, <2>1, <2>9 DEF FireCatch, SetRow, Loaded
    <2>10. CASE FireReadd(i)
      <3>1. <<i[1], next[i]>> \in Ids
        BY <2>1, <2>10, IdPair DEF FireReadd, FireInv, Chosen
      <3> QED
        BY <2>10, <3>1 DEF FireReadd, Add
    <2>11. CASE FireThrows(i)
      BY <2>11 DEF FireThrows, Fault
    <2>12. CASE FireEnd(i)
      BY <2>12 DEF FireEnd, Forget
    <2>13. CASE FireFailed(i)
      BY <2>1, <2>13 DEF FireFailed, Forget
    <2> QED
      BY <2>2, <2>3, <2>4, <2>5, <2>6, <2>7, <2>8, <2>9, <2>10, <2>11, <2>12, <2>13
  <1>7. CASE Restart
    BY <1>7 DEF Restart, Crash
  <1>8. CASE Dying
    BY <1>8 DEF Dying, FireFailedGone, Crash
  <1>9. CASE Hydrating
    <2> SUFFICES ASSUME NEW s \in Schedules, Hydrate(s) PROVE SchedulerTypes'
      BY <1>9 DEF Hydrating
    <2>1. <<s, NextRun(cron[s], now)>> \in Ids
      BY <1>1, IdPair
    <2> QED
      BY <1>1, <2>1 DEF Hydrate, Add
  <1>10. CASE OfRuns
    BY <1>10 DEF OfRuns, Pipeline, RunClaimed, RunLost, RunEnds, Tick, Fault
  <1>11. CASE UNCHANGED vars
    BY <1>11 DEF vars
  <1> QED
    BY <1>2, <1>3, <1>4, <1>5, <1>6, <1>7, <1>8, <1>9, <1>10, <1>11, NextSteps

-----------------------------------------------------------------------------
(* Entries and handlers                                                    *)

\* Add leaves everything in its place except an id that is not known yet.
LEMMA AddKnown ==
    ASSUME NEW i \in Ids, Add(i)
    PROVE  /\ entries \subseteq entries' /\ entries' \subseteq entries \cup {i}
           /\ \A j \in entries' \ entries : j = i /\ ~ Known(i)
           /\ i \in entries' \/ i \in finished \/ fire[i] # "no"
  BY DEF Add, Known

LEMMA FireStep == SchedulerTypes /\ FireInv /\ UpdateInv /\ [Next]_vars => FireInv'
  <1> SUFFICES ASSUME SchedulerTypes, FireInv, UpdateInv, [Next]_vars, NEW j \in Ids
               PROVE  /\ fire'[j] # "no" => j[2] <= now' /\ j \notin entries' \cup finished'
                      /\ j \in finished' => j[2] <= now' /\ j \notin entries'
                      /\ fire'[j] \in Loaded => seen'[j] \in Crons
                      /\ fire'[j] \in Chosen => next'[j] \in Times /\ next'[j] > j[2]
    BY DEF FireInv
  <1>1. /\ j[2] \in Nat /\ now \in Nat
        /\ fire[j] # "no" => j[2] <= now /\ j \notin entries \cup finished
        /\ j \in finished => j[2] <= now /\ j \notin entries
        /\ fire[j] \in Loaded => seen[j] \in Crons
        /\ fire[j] \in Chosen => next[j] \in Times /\ next[j] > j[2]
        /\ fire[j] \in Stages
    BY IdParts, Numbers DEF FireInv, SchedulerTypes
  <1> USE <1>1 DEF Stages, LiveStages, BeforeUpdate, Readding, Loaded, Chosen, rowVars, fireVars,
          runVars, bounds, Goto
  <1>2. CASE Creating \/ Reading \/ Deleting
    BY <1>2 DEF Creating, CreateSchedule, Reading, UpdateRead, Deleting, DeleteSchedule
  <1>3. CASE Updating
    <2> SUFFICES ASSUME NEW u \in upd, UpdateWrite(u) \/ UpdateRemove(u) \/ UpdateAdd(u)
                 PROVE  FireInv'
      BY <1>3 DEF Updating, FireInv
    <2>1. CASE UpdateAdd(u)
      <3>1. <<u.s, u.at>> \in Ids
        BY <2>1, IdPair DEF SchedulerTypes, Update, UpdateAdd, UpdateInv
      <3> QED
        BY <2>1, <3>1, AddKnown DEF UpdateAdd, Known, FireInv
    <2> QED
      BY <2>1 DEF UpdateWrite, UpdateRemove, FireInv
  <1>4. CASE Firing
    <2> SUFFICES ASSUME NEW i \in Ids,
                        \/ FireStart(i) \/ FireLoad(i) \/ FireCheck(i) \/ FireSkip(i) \/ FireCreate(i)
                        \/ FireAdd(i) \/ FireUpdate(i) \/ FireCatch(i) \/ FireReadd(i) \/ FireThrows(i)
                        \/ FireEnd(i) \/ FireFailed(i)
                 PROVE  FireInv'
      BY <1>4 DEF Firing, FireInv
    <2>1. /\ \A c \in Crons : NextRun(c, now) \in Times /\ NextRun(c, now) > now
          /\ \A s \in Schedules : cron[s] \in Crons
          /\ i[1] \in Schedules /\ i[2] \in Nat /\ Times \subseteq Nat
      BY NextRunIsTime, IdParts, TimesNat DEF SchedulerTypes
    <2>2. CASE FireStart(i)
      BY <2>2 DEF FireStart, FireInv, SchedulerTypes
    <2>3. CASE FireLoad(i)
      BY <2>1, <2>3 DEF FireLoad, FireInv, SchedulerTypes
    <2>4. CASE FireCheck(i)
      <3>1. PICK t \in Times : t = NextRun(seen[i], now) /\ t > i[2]
        BY <2>1, <2>4 DEF FireCheck, FireInv
      <3> QED
        BY <2>4, <3>1 DEF FireCheck, FireInv, SchedulerTypes
    <2>5. CASE FireSkip(i) \/ FireUpdate(i)
      BY <2>5 DEF FireSkip, FireUpdate, FireInv, SchedulerTypes
    <2>6. CASE FireCreate(i)
      BY <2>6 DEF FireCreate, FireInv, SchedulerTypes
    <2>7. CASE FireAdd(i)
      <3>1. PICK t \in Times : t = NextRun(seen[i], now) /\ t > i[2]
        BY <2>1, <2>7 DEF FireAdd, FireInv
      <3> QED
        BY <2>7, <3>1 DEF FireAdd, FireInv, SchedulerTypes
    <2>8. CASE FireCatch(i)
      <3>1. PICK t \in Times : t = NextRun(seen[i], now) /\ t > i[2]
        <4>1. fire[i] = "catch"
          BY <2>8 DEF FireCatch
        <4>2. seen[i] \in Crons /\ i[2] <= now
          BY <4>1 DEF FireInv
        <4>3. PICK t \in Times : t = NextRun(seen[i], now) /\ t > now
          BY <2>1, <4>2
        <4>4. t > i[2]
          BY <1>1, <2>1, <4>2, <4>3
        <4> QED
          BY <4>3, <4>4
      <3> QED
        BY <2>8, <3>1 DEF FireCatch, FireInv, SchedulerTypes
    <2>9. CASE FireReadd(i)
      <3>1. <<i[1], next[i]>> \in Ids
        BY <2>1, <2>9, IdPair DEF FireReadd, FireInv
      <3>2. fire' = [fire EXCEPT ![i] = IF fire[i] = "readd_catch" THEN "failed" ELSE "end"]
        BY <2>9 DEF FireReadd
      <3>3. \A k \in entries' \ entries : ~ Known(k)
        BY <2>9, <3>1, AddKnown DEF FireReadd
      <3>4. UNCHANGED <<now, finished, seen, next>> /\ fire[i] # "no"
        BY <2>9 DEF FireReadd
      <3> QED
        BY <3>2, <3>3, <3>4 DEF Known, FireInv, SchedulerTypes
    <2>10. CASE FireThrows(i)
      BY <2>10 DEF FireThrows, FireInv, SchedulerTypes
    <2>11. CASE FireEnd(i) \/ FireFailed(i)
      BY <2>11 DEF FireEnd, FireFailed, Forget, FireInv, SchedulerTypes
    <2> QED
      BY <2>2, <2>3, <2>4, <2>5, <2>6, <2>7, <2>8, <2>9, <2>10, <2>11
  <1>5. CASE Restart \/ Dying
    <2>1. \E kept \in SUBSET Ids : Crash(kept) /\ \A i \in kept : fire[i] # "no"
      <3>1. CASE Restart
        <4>1. Crash({}) /\ {} \in SUBSET Ids
          BY <3>1 DEF Restart
        <4> QED
          BY <4>1
      <3>2. CASE Dying
        <4>1. PICK i \in Ids : fire[i] = "failed" /\ Crash({i})
          BY <3>2 DEF Dying, FireFailedGone
        <4>2. {i} \in SUBSET Ids
          OBVIOUS
        <4> QED
          BY <4>1, <4>2
      <3> QED
        BY <1>5, <3>1, <3>2
    <2>2. PICK kept \in SUBSET Ids : Crash(kept) /\ \A i \in kept : fire[i] # "no"
      BY <2>1
    <2> QED
      BY <2>2 DEF Crash, FireInv
  <1>6. CASE Hydrating
    <2> SUFFICES ASSUME NEW s \in Schedules, Hydrate(s) PROVE FireInv'
      BY <1>6 DEF Hydrating, FireInv
    <2>1. <<s, NextRun(cron[s], now)>> \in Ids
      BY NextRunIsTime, IdPair DEF SchedulerTypes
    <2> QED
      BY <2>1, AddKnown DEF Hydrate, Known, FireInv
  <1>7. CASE OfRuns
    BY <1>7 DEF OfRuns, Pipeline, RunClaimed, RunLost, RunEnds, Tick
  <1>8. CASE UNCHANGED vars
    BY <1>8 DEF vars
  <1> QED
    BY <1>2, <1>3, <1>4, <1>5, <1>6, <1>7, <1>8, NextSteps

-----------------------------------------------------------------------------
(* Rows, requests and runs                                                 *)

\* The steps of a handler, which neither create a row nor make a request.
LEMMA FiringFrame ==
    ASSUME SchedulerTypes, FireInv, NEW i \in Ids,
           \/ FireStart(i) \/ FireLoad(i) \/ FireCheck(i) \/ FireSkip(i) \/ FireCreate(i)
           \/ FireAdd(i) \/ FireUpdate(i) \/ FireCatch(i) \/ FireReadd(i) \/ FireThrows(i)
           \/ FireEnd(i) \/ FireFailed(i)
    PROVE  /\ UNCHANGED <<now, row, cron, upd, hydrating, changes>>
           /\ i[1] \in Schedules /\ Known(i)
           /\ \A j \in Ids : j[1] # i[1] /\ Known(j)' => Known(j)
  <1> USE DEF SchedulerTypes, rowVars, fireVars, runVars, bounds, Goto, Known
  <1>1. i[1] \in Schedules /\ \A j \in Ids : j[1] # i[1] => j # i
    BY IdParts
  <1>2. CASE FireReadd(i)
    <2>1. next[i] \in Times
      BY <1>2 DEF FireReadd, FireInv, Chosen, Readding
    <2>2. <<i[1], next[i]>> \in Ids /\ <<i[1], next[i]>>[1] = i[1]
      BY <1>1, <2>1, IdPair
    <2>3. entries' \subseteq entries \cup {<<i[1], next[i]>>}
      BY <1>2 DEF FireReadd, Add
    <2>4. UNCHANGED <<now, row, cron, upd, hydrating, changes, finished>> /\ fire[i] # "no"
      BY <1>2 DEF FireReadd
    <2>5. \A j \in Ids : j # i => fire'[j] = fire[j]
      BY <1>2 DEF FireReadd
    <2> QED
      BY <1>1, <2>2, <2>3, <2>4, <2>5
  <1>3. CASE FireStart(i) \/ FireLoad(i) \/ FireCheck(i) \/ FireSkip(i)
    BY <1>1, <1>3 DEF FireStart, FireLoad, FireCheck, FireSkip
  <1>4. CASE FireCreate(i) \/ FireAdd(i) \/ FireUpdate(i) \/ FireCatch(i)
    BY <1>1, <1>4 DEF FireCreate, FireAdd, FireUpdate, FireCatch
  <1>5. CASE FireThrows(i)
    BY <1>1, <1>5 DEF FireThrows, Fault
  <1>6. CASE FireEnd(i) \/ FireFailed(i)
    BY <1>1, <1>6 DEF FireEnd, FireFailed, Forget
  <1> QED
    BY <1>2, <1>3, <1>4, <1>5, <1>6

\* nextRunAt, as a handler leaves it.
LEMMA FiringNext ==
    ASSUME SchedulerTypes, FireInv, NEW i \in Ids,
           \/ FireStart(i) \/ FireLoad(i) \/ FireCheck(i) \/ FireSkip(i) \/ FireCreate(i)
           \/ FireAdd(i) \/ FireUpdate(i) \/ FireCatch(i) \/ FireReadd(i) \/ FireThrows(i)
           \/ FireEnd(i) \/ FireFailed(i)
    PROVE  \A s \in Schedules : nextRunAt'[s] = nextRunAt[s] \/ nextRunAt'[s] \in Times
  <1> USE DEF SchedulerTypes, rowVars, SetRow
  <1>1. CASE FireSkip(i) \/ FireUpdate(i)
    <2>1. next[i] \in Times
      BY <1>1 DEF FireSkip, FireUpdate, FireInv, Chosen
    <2> QED
      BY <1>1, <2>1 DEF FireSkip, FireUpdate
  <1>2. CASE FireCatch(i)
    <2>1. NextRun(seen[i], now) \in Times
      BY <1>2, NextRunIsTime DEF FireCatch, FireInv, Loaded, LiveStages, BeforeUpdate
    <2> QED
      BY <1>2, <2>1 DEF FireCatch
  <1> QED
    BY <1>1, <1>2 DEF FireStart, FireLoad, FireCheck, FireCreate, FireAdd, FireReadd, FireThrows,
                      FireEnd, FireFailed

LEMMA RowStep == SchedulerTypes /\ FireInv /\ RowInv /\ UpdateInv /\ [Next]_vars => RowInv'
  <1> SUFFICES ASSUME SchedulerTypes, FireInv, RowInv, UpdateInv, [Next]_vars PROVE RowInv'
    OBVIOUS
  <1> USE DEF SchedulerTypes, RowInv, rowVars, fireVars, runVars, bounds, Known
  <1>1. CASE Creating
    <2> SUFFICES ASSUME NEW s \in Schedules, NEW c \in Crons, NEW e \in {"on", "off"},
                        CreateSchedule(s, c, e)
                 PROVE  RowInv'
      BY <1>1 DEF Creating
    <2>1. NextRun(c, now) \in Times
      BY NextRunIsTime
    <2>2. \A u \in upd' \ upd : u.s = s
      BY DEF CreateSchedule
    <2>3. UNCHANGED <<entries, finished, fire, hydrating>>
      BY DEF CreateSchedule
    <2>4. row' = [row EXCEPT ![s] = e] /\ nextRunAt' = [nextRunAt EXCEPT ![s] = NextRun(c, now)]
      BY DEF CreateSchedule
    <2> QED
      BY <2>1, <2>2, <2>3, <2>4
  <1>2. CASE Reading
    <2> SUFFICES ASSUME NEW s \in Schedules, NEW c \in Crons \cup {0}, NEW e \in {"same", "on", "off"},
                        UpdateRead(s, e, c)
                 PROVE  RowInv'
      BY <1>2 DEF Reading
    <2>1. \A u \in upd' \ upd : u.s = s
      BY DEF UpdateRead
    <2>2. UNCHANGED <<entries, finished, fire, hydrating, row, nextRunAt>> /\ row[s] \in {"on", "off"}
      BY DEF UpdateRead
    <2> QED
      BY <2>1, <2>2
  <1>3. CASE Deleting
    BY <1>3 DEF Deleting, DeleteSchedule
  <1>4. CASE Updating
    <2> SUFFICES ASSUME NEW u \in upd, UpdateWrite(u) \/ UpdateRemove(u) \/ UpdateAdd(u)
                 PROVE  RowInv'
      BY <1>4 DEF Updating
    <2>1. u.s \in Schedules /\ row[u.s] # "none" /\ nextRunAt[u.s] \in Times
      BY DEF Update
    <2>2. CASE UpdateWrite(u)
      <3>1. \A v \in upd' \ upd : v.s = u.s
        BY <2>2 DEF UpdateWrite
      <3>2. \A s \in Schedules : row'[s] = "none" <=> row[s] = "none"
        BY <2>1, <2>2 DEF UpdateWrite, Update
      <3>3. \A s \in Schedules : nextRunAt'[s] = nextRunAt[s] \/ nextRunAt'[s] \in Times
        <4>1. u.cron # 0 => u.at \in Times
          BY <2>2 DEF UpdateWrite, UpdateInv
        <4> QED
          BY <2>1, <2>2, <4>1 DEF UpdateWrite
      <3>4. UNCHANGED <<entries, finished, fire, hydrating>>
        BY <2>2 DEF UpdateWrite
      <3> QED
        BY <2>1, <3>1, <3>2, <3>3, <3>4
    <2>3. CASE UpdateRemove(u)
      <3>1. \A v \in upd' \ upd : v.s = u.s
        BY <2>3 DEF UpdateRemove
      <3>2. UNCHANGED <<row, nextRunAt, fire, hydrating>> /\ entries' \subseteq entries /\ finished' \subseteq finished
        BY <2>3 DEF UpdateRemove
      <3> QED
        BY <2>1, <3>1, <3>2
    <2>4. CASE UpdateAdd(u)
      <3>1. <<u.s, u.at>> \in Ids /\ <<u.s, u.at>>[1] = u.s
        BY <2>1, <2>4, IdPair DEF UpdateAdd, UpdateInv
      <3>2. entries' \subseteq entries \cup {<<u.s, u.at>>}
        BY <2>4 DEF UpdateAdd, Add
      <3>3. UNCHANGED <<row, nextRunAt, fire, finished, hydrating>> /\ upd' \subseteq upd
        BY <2>4 DEF UpdateAdd
      <3> QED
        BY <2>1, <3>1, <3>2, <3>3
    <2> QED
      BY <2>2, <2>3, <2>4
  <1>5. CASE Firing
    <2> SUFFICES ASSUME NEW i \in Ids,
                        \/ FireStart(i) \/ FireLoad(i) \/ FireCheck(i) \/ FireSkip(i) \/ FireCreate(i)
                        \/ FireAdd(i) \/ FireUpdate(i) \/ FireCatch(i) \/ FireReadd(i) \/ FireThrows(i)
                        \/ FireEnd(i) \/ FireFailed(i)
                 PROVE  RowInv'
      BY <1>5 DEF Firing
    <2>1. /\ UNCHANGED <<now, row, cron, upd, hydrating, changes>>
          /\ i[1] \in Schedules /\ Known(i)
          /\ \A j \in Ids : j[1] # i[1] /\ Known(j)' => Known(j)
      BY FiringFrame
    <2>2. \A s \in Schedules : nextRunAt'[s] = nextRunAt[s] \/ nextRunAt'[s] \in Times
      BY FiringNext
    <2>3. row[i[1]] # "none"
      BY <2>1
    <2> QED
      BY <2>1, <2>2, <2>3
  <1>6. CASE Restart
    BY <1>6 DEF Restart, Crash
  <1>7. CASE Dying
    BY <1>7, IdParts DEF Dying, FireFailedGone, Crash
  <1>8. CASE Hydrating
    <2> SUFFICES ASSUME NEW s \in Schedules, Hydrate(s) PROVE RowInv'
      BY <1>8 DEF Hydrating
    <2>1. <<s, NextRun(cron[s], now)>> \in Ids /\ <<s, NextRun(cron[s], now)>>[1] = s
      BY NextRunIsTime, IdPair
    <2>2. entries' \subseteq entries \cup {<<s, NextRun(cron[s], now)>>}
      BY DEF Hydrate, Add
    <2>3. UNCHANGED <<row, fire, finished, upd>> /\ hydrating' \subseteq hydrating /\ s \in hydrating
      BY DEF Hydrate
    <2>4. \A t \in Schedules : nextRunAt'[t] = nextRunAt[t] \/ nextRunAt'[t] \in Times
      BY NextRunIsTime DEF Hydrate
    <2> QED
      BY <2>1, <2>2, <2>3, <2>4
  <1>9. CASE OfRuns
    BY <1>9 DEF OfRuns, Pipeline, RunClaimed, RunLost, RunEnds, Tick
  <1>10. CASE UNCHANGED vars
    BY <1>10 DEF vars
  <1> QED
    BY <1>1, <1>2, <1>3, <1>4, <1>5, <1>6, <1>7, <1>8, <1>9, <1>10, NextSteps

\* An update's record after its row is written.
Rewritten(u, new) ==
    /\ new.n = u.n /\ new.s = u.s /\ new.pc = "remove" /\ new.old = u.old /\ new.cron = u.cron
    /\ new.at = IF row'[u.s] = "on" THEN nextRunAt'[u.s] ELSE 0
    /\ upd' \subseteq (upd \ {u}) \cup {new}
    /\ row[u.s] # "gone" => new \in upd'

LEMMA UpdateWritten ==
    ASSUME NEW u \in upd, UpdateWrite(u)
    PROVE  \E new : Rewritten(u, new)
  <1>1. PICK at : at = IF row'[u.s] = "on" THEN nextRunAt'[u.s] ELSE 0
    OBVIOUS
  <1>2. PICK new : new = [n |-> u.n, s |-> u.s, pc |-> "remove", old |-> u.old, at |-> at,
                          enabled |-> u.enabled, cron |-> u.cron]
    OBVIOUS
  <1>3. /\ new.n = u.n /\ new.s = u.s /\ new.pc = "remove" /\ new.old = u.old /\ new.cron = u.cron
        /\ new.at = at
    BY <1>2
  <1>4. upd' \subseteq (upd \ {u}) \cup {new} /\ (row[u.s] # "gone" => new \in upd')
    BY <1>1, <1>2 DEF UpdateWrite
  <1> QED
    BY <1>1, <1>3, <1>4 DEF Rewritten

LEMMA UpdateStep == SchedulerTypes /\ FireInv /\ RowInv /\ UpdateInv /\ [Next]_vars => UpdateInv'
  <1> SUFFICES ASSUME SchedulerTypes, FireInv, RowInv, UpdateInv, [Next]_vars PROVE UpdateInv'
    OBVIOUS
  <1> USE Numbers DEF SchedulerTypes, UpdateInv, rowVars, fireVars, runVars, bounds
  <1>1. \A u \in upd : u.n \in Nat /\ u.s \in Schedules
    BY DEF Update
  <1>2. CASE Creating
    <2> SUFFICES ASSUME NEW s \in Schedules, NEW c \in Crons, NEW e \in {"on", "off"},
                        CreateSchedule(s, c, e)
                 PROVE  UpdateInv'
      BY <1>2 DEF Creating
    <2>1. PICK new : /\ new = [n |-> 0, s |-> s, pc |-> "add", old |-> 0, at |-> NextRun(c, now),
                               enabled |-> "same", cron |-> 0]
                     /\ upd' \subseteq upd \cup {new}
      BY DEF CreateSchedule
    <2>2. new.n = 0 /\ new.s = s /\ new.pc = "add" /\ new.at \in Times
      BY <2>1, NextRunIsTime
    <2>3. \A u \in upd : u.s # s
      BY DEF RowInv, CreateSchedule
    <2>4. UNCHANGED <<changes, hydrating>> /\ hydrating = {}
      BY DEF CreateSchedule, Serving
    <2> QED
      BY <2>1, <2>2, <2>3, <2>4
  <1>3. CASE Reading
    <2> SUFFICES ASSUME NEW s \in Schedules, NEW c \in Crons \cup {0}, NEW e \in {"same", "on", "off"},
                        UpdateRead(s, e, c)
                 PROVE  UpdateInv'
      BY <1>3 DEF Reading
    <2>1. PICK new : /\ new = [n |-> changes + 1, s |-> s, pc |-> "write", old |-> nextRunAt[s],
                               at |-> IF c = 0 THEN 0 ELSE NextRun(c, now), enabled |-> e, cron |-> c]
                     /\ upd' = upd \cup {new}
      BY DEF UpdateRead
    <2>2. new.n = changes + 1 /\ new.pc = "write" /\ (new.cron # 0 => new.at \in Times)
      BY <2>1, NextRunIsTime
    <2>3. changes' = changes + 1 /\ UNCHANGED hydrating /\ hydrating = {}
      BY DEF UpdateRead, Serving
    <2> QED
      BY <1>1, <2>1, <2>2, <2>3
  <1>4. CASE Deleting
    BY <1>4 DEF Deleting, DeleteSchedule
  <1>5. CASE Updating
    <2> SUFFICES ASSUME NEW u \in upd, UpdateWrite(u) \/ UpdateRemove(u) \/ UpdateAdd(u)
                 PROVE  UpdateInv'
      BY <1>5 DEF Updating
    <2>1. CASE UpdateWrite(u)
      <3>1. PICK new : /\ new.n = u.n /\ new.s = u.s /\ new.pc = "remove"
                       /\ upd' \subseteq (upd \ {u}) \cup {new}
        BY <2>1, UpdateWritten DEF Rewritten
      <3>2. u.n # 0 /\ UNCHANGED <<changes, hydrating>>
        BY <2>1 DEF UpdateWrite
      <3> QED
        BY <3>1, <3>2
    <2>2. CASE UpdateRemove(u)
      <3>1. PICK new : /\ new.n = u.n /\ new.s = u.s /\ new.pc = "add" /\ new.at = u.at
                       /\ upd' = (upd \ {u}) \cup (IF u.at = 0 THEN {} ELSE {new})
        BY <2>2 DEF UpdateRemove
      <3>2. u.n # 0 /\ UNCHANGED <<changes, hydrating>> /\ (u.at # 0 => new.at \in Times)
        BY <2>2, <3>1 DEF UpdateRemove, Update
      <3> QED
        BY <3>1, <3>2
    <2>3. CASE UpdateAdd(u)
      BY <2>3 DEF UpdateAdd
    <2> QED
      BY <2>1, <2>2, <2>3
  <1>6. CASE Firing
    BY <1>6, FiringFrame DEF Firing
  <1>7. CASE Restart
    BY <1>7 DEF Restart, Crash
  <1>8. CASE Dying
    BY <1>8 DEF Dying, FireFailedGone, Crash
  <1>9. CASE Hydrating
    BY <1>9 DEF Hydrating, Hydrate
  <1>10. CASE OfRuns
    BY <1>10 DEF OfRuns, Pipeline, RunClaimed, RunLost, RunEnds, Tick, Fault
  <1>11. CASE UNCHANGED vars
    BY <1>11 DEF vars
  <1> QED
    BY <1>2, <1>3, <1>4, <1>5, <1>6, <1>7, <1>8, <1>9, <1>10, <1>11, NextSteps

LEMMA MadeStep == SchedulerTypes /\ MadeInv /\ [Next]_vars => MadeInv'
  <1> SUFFICES ASSUME SchedulerTypes, MadeInv, [Next]_vars PROVE MadeInv'
    OBVIOUS
  <1> USE DEF SchedulerTypes, MadeInv, rowVars, fireVars, runVars, bounds, Goto
  <1>1. CASE Creating \/ Reading \/ Deleting \/ Updating
    <2>1. UNCHANGED <<fire, made, run, ofSched>>
      <3>1. CASE Creating
        BY <3>1 DEF Creating, CreateSchedule
      <3>2. CASE Reading
        BY <3>2 DEF Reading, UpdateRead
      <3>3. CASE Deleting
        BY <3>3 DEF Deleting, DeleteSchedule
      <3>4. CASE Updating
        BY <3>4 DEF Updating, UpdateWrite, UpdateRemove, UpdateAdd
      <3> QED
        BY <1>1, <3>1, <3>2, <3>3, <3>4
    <2> QED
      BY <2>1
  <1>2. CASE Firing
    <2> SUFFICES ASSUME NEW i \in Ids,
                        \/ FireStart(i) \/ FireLoad(i) \/ FireCheck(i) \/ FireSkip(i) \/ FireCreate(i)
                        \/ FireAdd(i) \/ FireUpdate(i) \/ FireCatch(i) \/ FireReadd(i) \/ FireThrows(i)
                        \/ FireEnd(i) \/ FireFailed(i)
                 PROVE  MadeInv'
      BY <1>2 DEF Firing
    <2>1. CASE FireStart(i) \/ FireLoad(i) \/ FireCheck(i) \/ FireSkip(i)
      BY <2>1 DEF FireStart, FireLoad, FireCheck, FireSkip
    <2>2. CASE FireCreate(i)
      BY <2>2, IdParts DEF FireCreate
    <2>3. CASE FireAdd(i)
      BY <2>3 DEF FireAdd
    <2>4. CASE FireUpdate(i) \/ FireCatch(i) \/ FireReadd(i)
      BY <2>4 DEF FireUpdate, FireCatch, FireReadd
    <2>5. CASE FireThrows(i)
      BY <2>5 DEF FireThrows
    <2>6. CASE FireEnd(i) \/ FireFailed(i)
      BY <2>6 DEF FireEnd, FireFailed, Forget
    <2> QED
      BY <2>1, <2>2, <2>3, <2>4, <2>5, <2>6
  <1>3. CASE Restart \/ Dying \/ Hydrating
    <2>1. CASE Restart
      BY <2>1 DEF Restart, Crash
    <2>2. CASE Dying
      BY <2>2 DEF Dying, FireFailedGone, Crash
    <2>3. CASE Hydrating
      BY <2>3 DEF Hydrating, Hydrate
    <2> QED
      BY <1>3, <2>1, <2>2, <2>3
  <1>4. CASE OfRuns
    BY <1>4 DEF OfRuns, Pipeline, RunClaimed, RunLost, RunEnds, Tick
  <1>5. CASE UNCHANGED vars
    BY <1>5 DEF vars
  <1> QED
    BY <1>1, <1>2, <1>3, <1>4, <1>5, NextSteps

-----------------------------------------------------------------------------
(* One token                                                               *)

\* What has happened stays so.
LEMMA Monotone ==
    ASSUME SchedulerTypes, [Next]_vars
    PROVE  /\ \A s \in Schedules : row[s] = "gone" => row'[s] = "gone"
           /\ changes' \in {changes, changes + 1} /\ faults' \in {faults, faults + 1}
           /\ changes \in Nat /\ faults \in Nat
  <1> USE Numbers DEF SchedulerTypes, rowVars, fireVars, runVars, bounds, Fault
  <1>1. CASE Creating
    BY <1>1 DEF Creating, CreateSchedule
  <1>2. CASE Reading
    BY <1>2 DEF Reading, UpdateRead
  <1>3. CASE Deleting
    BY <1>3 DEF Deleting, DeleteSchedule
  <1>4. CASE Updating
    BY <1>4 DEF Updating, UpdateWrite, UpdateRemove, UpdateAdd
  <1>5. CASE Firing
    <2>1. PICK i \in Ids :
              \/ FireStart(i) \/ FireLoad(i) \/ FireCheck(i) \/ FireSkip(i) \/ FireCreate(i)
              \/ FireAdd(i) \/ FireUpdate(i) \/ FireCatch(i) \/ FireReadd(i) \/ FireThrows(i)
              \/ FireEnd(i) \/ FireFailed(i)
      BY <1>5 DEF Firing
    <2> QED
      BY <2>1 DEF FireStart, FireLoad, FireCheck, FireSkip, FireCreate, FireAdd, FireUpdate,
                  FireCatch, FireReadd, FireThrows, FireEnd, FireFailed
  <1>6. CASE Restart
    BY <1>6 DEF Restart, Crash
  <1>7. CASE Dying
    BY <1>7 DEF Dying, FireFailedGone, Crash
  <1>8. CASE Hydrating
    BY <1>8 DEF Hydrating, Hydrate
  <1>9. CASE OfRuns
    BY <1>9 DEF OfRuns, Pipeline, RunClaimed, RunLost, RunEnds, Tick
  <1>10. CASE UNCHANGED vars
    BY <1>10 DEF vars
  <1> QED
    BY <1>1, <1>2, <1>3, <1>4, <1>5, <1>6, <1>7, <1>8, <1>9, <1>10, NextSteps

LEMMA StillUndisturbed ==
    ASSUME SchedulerTypes, [Next]_vars, NEW s \in Schedules, Undisturbed(s)'
    PROVE  Undisturbed(s)
  BY Monotone DEF Undisturbed

\* FireReadd passes the token on; every other step of a handler keeps it or
\* drops it.
LEMMA FiringTokens ==
    ASSUME SchedulerTypes, FireInv, NEW i \in Ids,
           \/ FireStart(i) \/ FireLoad(i) \/ FireCheck(i) \/ FireSkip(i) \/ FireCreate(i)
           \/ FireAdd(i) \/ FireUpdate(i) \/ FireCatch(i) \/ FireReadd(i) \/ FireThrows(i)
           \/ FireEnd(i) \/ FireFailed(i)
    PROVE  \/ \A j \in Ids : Token(j)' => Token(j)
           \/ /\ Token(i)
              /\ \A j \in Ids : Token(j)' => j = <<i[1], next[i]>> \/ (Token(j) /\ j # i)
  <1> USE DEF SchedulerTypes, rowVars, fireVars, runVars, bounds, Goto, Token, LiveStages,
              BeforeUpdate, Readding
  <1>1. CASE FireReadd(i)
    <2>1. next[i] \in Times /\ next[i] > i[2] /\ i \notin entries
      BY <1>1 DEF FireReadd, FireInv, Chosen
    <2>2. PICK n : n = <<i[1], next[i]>>
      OBVIOUS
    <2>3. n # i
      BY <2>1, <2>2, IdParts, IdPair
    <2>4. entries' \subseteq entries \cup {n} /\ fire'[i] \in {"end", "failed"}
      BY <1>1, <2>2 DEF FireReadd, Add
    <2>5. \A j \in Ids : j # i => fire'[j] = fire[j]
      BY <1>1 DEF FireReadd
    <2>6. Token(i)
      BY <1>1 DEF FireReadd
    <2> QED
      BY <2>1, <2>2, <2>3, <2>4, <2>5, <2>6
  <1>2. CASE FireStart(i)
    BY <1>2 DEF FireStart
  <1>3. CASE FireLoad(i) \/ FireCheck(i) \/ FireSkip(i) \/ FireCreate(i)
    BY <1>3 DEF FireLoad, FireCheck, FireSkip, FireCreate
  <1>4. CASE FireAdd(i) \/ FireUpdate(i) \/ FireCatch(i)
    BY <1>4 DEF FireAdd, FireUpdate, FireCatch
  <1>5. CASE FireThrows(i)
    BY <1>5 DEF FireThrows
  <1>6. CASE FireEnd(i) \/ FireFailed(i)
    BY <1>6 DEF FireEnd, FireFailed, Forget
  <1> QED
    BY <1>1, <1>2, <1>3, <1>4, <1>5, <1>6

LEMMA TokenStep ==
    SchedulerTypes /\ FireInv /\ RowInv /\ UpdateInv /\ TokenInv /\ [Next]_vars => TokenInv'
  <1> SUFFICES ASSUME SchedulerTypes, FireInv, RowInv, UpdateInv, TokenInv, [Next]_vars,
                      NEW s \in Schedules, Undisturbed(s)', OneChain(s)', row'[s] # "gone"
               PROVE  OneToken(s)'
    BY DEF TokenInv
  <1>1. /\ Undisturbed(s) /\ row[s] # "gone"
        /\ changes' \in {changes, changes + 1} /\ changes \in Nat
        /\ \A u \in upd : u.n \in Nat /\ u.s \in Schedules /\ u.n <= changes /\ (u.n = 0 => u.pc = "add")
        /\ \A u, v \in upd : u.n = v.n /\ u.n # 0 => u = v
    BY Monotone, StillUndisturbed DEF UpdateInv, Update, SchedulerTypes
  <1>2. ASSUME OneChain(s)
        PROVE  OneToken(s)
    BY <1>1, <1>2 DEF TokenInv
  <1> USE <1>1 DEF OneToken, rowVars, fireVars, runVars, bounds
  <1>3. CASE Creating
    <2> SUFFICES ASSUME NEW t \in Schedules, NEW c \in Crons, NEW e \in {"on", "off"},
                        CreateSchedule(t, c, e)
                 PROVE  OneToken(s)'
      BY <1>3 DEF Creating
    <2>1. /\ UNCHANGED <<entries, finished, fire, hydrating, changes>> /\ hydrating = {}
          /\ \A u \in upd' \ upd : u.s = t /\ u.n = 0 /\ u.pc = "add"
      BY DEF CreateSchedule, Serving
    <2>2. \A i \in Ids : i[1] = t => ~ Known(i)
      BY DEF RowInv, CreateSchedule
    <2>3. OneChain(s)
      BY <2>1 DEF OneChain, Editing
    <2> QED
      BY <1>2, <2>1, <2>2, <2>3 DEF Token, Known
  <1>4. CASE Reading
    <2> SUFFICES ASSUME NEW t \in Schedules, NEW c \in Crons \cup {0}, NEW e \in {"same", "on", "off"},
                        UpdateRead(t, e, c)
                 PROVE  OneToken(s)'
      BY <1>4 DEF Reading
    <2>1. /\ UNCHANGED <<entries, finished, fire, hydrating>> /\ hydrating = {} /\ changes' = changes + 1
          /\ \A u \in upd' \ upd : u.n = changes + 1
      BY DEF UpdateRead, Serving
    <2>2. OneChain(s)
      BY <2>1 DEF OneChain
    <2> QED
      BY <1>2, <2>1, <2>2 DEF Token, Known
  <1>5. CASE Deleting
    BY <1>2, <1>5 DEF Deleting, DeleteSchedule, Token, Known, OneChain
  <1>6. CASE Updating
    <2> SUFFICES ASSUME NEW u \in upd, UpdateWrite(u) \/ UpdateRemove(u) \/ UpdateAdd(u)
                 PROVE  OneToken(s)'
      BY <1>6 DEF Updating
    <2>1. CASE UpdateWrite(u)
      <3>1. PICK new : /\ new.n = u.n /\ new.s = u.s /\ new.pc = "remove"
                       /\ upd' \subseteq (upd \ {u}) \cup {new}
        BY <2>1, UpdateWritten DEF Rewritten
      <3>2. u.pc = "write" /\ UNCHANGED <<entries, finished, fire, hydrating, changes>>
        BY <2>1 DEF UpdateWrite
      <3>3. OneChain(s)
        BY <3>1, <3>2 DEF OneChain, Editing
      <3> QED
        BY <1>2, <3>1, <3>2, <3>3 DEF Token, Known
    <2>2. CASE UpdateRemove(u)
      <3>1. /\ u.pc = "remove" /\ UNCHANGED changes
            /\ \A v \in upd' : (v \in upd /\ v # u) \/ v.pc = "add"
        BY <2>2 DEF UpdateRemove
      <3>2. u.n \in Nat \ {0} /\ u.n <= changes
        BY <3>1
      <3>3. ~ OneChain(s)'
        BY <3>1, <3>2 DEF OneChain, Editing
      <3> QED
        BY <3>3
    <2>3. CASE UpdateAdd(u)
      <3>1. /\ u.pc = "add" /\ UNCHANGED <<finished, fire, hydrating, changes>> /\ upd' = upd \ {u}
            /\ entries' \subseteq entries \cup {<<u.s, u.at>>}
        BY <2>3 DEF UpdateAdd, Add
      <3>2. <<u.s, u.at>> \in Ids /\ <<u.s, u.at>>[1] = u.s
        BY <3>1, IdPair DEF UpdateInv
      <3>3. OneChain(s)
        BY <3>1 DEF OneChain
      <3>4. CASE u.s # s
        BY <1>2, <3>1, <3>2, <3>3, <3>4 DEF Token, Known
      <3>5. CASE u.s = s /\ u.n = 0
        BY <1>2, <3>1, <3>2, <3>3, <3>5 DEF Token, Known, UpdateInv
      <3>6. CASE u.s = s /\ u.n # 0
        <4>1. u.n \in Nat \ {0} /\ u.n <= changes
          BY <3>6
        <4>2. ~ OneChain(s)'
          BY <3>1, <4>1 DEF OneChain, Editing
        <4> QED
          BY <4>2
      <3> QED
        BY <3>4, <3>5, <3>6
    <2> QED
      BY <2>1, <2>2, <2>3
  <1>7. CASE Firing
    <2> SUFFICES ASSUME NEW i \in Ids,
                        \/ FireStart(i) \/ FireLoad(i) \/ FireCheck(i) \/ FireSkip(i) \/ FireCreate(i)
                        \/ FireAdd(i) \/ FireUpdate(i) \/ FireCatch(i) \/ FireReadd(i) \/ FireThrows(i)
                        \/ FireEnd(i) \/ FireFailed(i)
                 PROVE  OneToken(s)'
      BY <1>7 DEF Firing
    <2>1. /\ UNCHANGED <<now, row, cron, upd, hydrating, changes>>
          /\ i[1] \in Schedules /\ Known(i)
          /\ \A j \in Ids : j[1] # i[1] /\ Known(j)' => Known(j)
      BY FiringFrame
    <2>2. OneChain(s)
      BY <2>1 DEF OneChain
    <2>3. \/ \A j \in Ids : Token(j)' => Token(j)
          \/ /\ Token(i)
             /\ \A j \in Ids : Token(j)' => j = <<i[1], next[i]>> \/ (Token(j) /\ j # i)
      BY FiringTokens
    <2>4. \A j, k \in Ids : j[1] = s /\ k[1] = s /\ Token(j)' /\ Token(k)' => j = k
      BY <1>2, <2>2, <2>3
    <2>5. \A u \in upd' : u.s = s /\ u.n = 0 => \A j \in Ids : j[1] = s => ~ Known(j)'
      BY <1>2, <2>1, <2>2
    <2> QED
      BY <1>2, <2>1, <2>2, <2>4, <2>5
  <1>8. CASE Restart
    BY <1>8 DEF Restart, Crash, OneChain
  <1>9. CASE Dying
    <2>1. PICK i \in Ids : row[i[1]] = "gone" /\ upd' = {} /\ UNCHANGED changes
      BY <1>9 DEF Dying, FireFailedGone, Crash
    <2>2. i[1] \in Schedules
      BY IdParts
    <2> QED
      BY <2>1, <2>2 DEF Undisturbed
  <1>10. CASE Hydrating
    BY <1>2, <1>10 DEF Hydrating, Hydrate, OneChain
  <1>11. CASE OfRuns \/ UNCHANGED vars
    <2>1. UNCHANGED <<entries, finished, fire, upd, hydrating, changes>>
      BY <1>11 DEF OfRuns, Pipeline, RunClaimed, RunLost, RunEnds, Tick, Fault, vars
    <2> QED
      BY <1>2, <2>1 DEF Token, Known, OneChain
  <1> QED
    BY <1>3, <1>4, <1>5, <1>6, <1>7, <1>8, <1>9, <1>10, <1>11, NextSteps

-----------------------------------------------------------------------------
(* One unfinished run                                                      *)

Starting == {"check", "create", "add"}

LEMMA RunStep ==
    SchedulerTypes /\ MadeInv /\ TokenInv /\ RunInv /\ [Next]_vars => RunInv'
  <1> SUFFICES ASSUME SchedulerTypes, MadeInv, TokenInv, RunInv, [Next]_vars,
                      changes' = 0, NEW s \in Schedules, Undisturbed(s)'
               PROVE  SoleRun(s)'
    BY DEF RunInv
  <1>1. /\ changes = 0 /\ Undisturbed(s) /\ SoleRun(s)
        /\ \A i \in Ids : i[1] \in Schedules
    BY Monotone, StillUndisturbed, IdParts DEF RunInv
  <1> USE <1>1 DEF SoleRun, rowVars, fireVars, runVars, bounds, Goto, Active
  <1>2. CASE Creating \/ Reading \/ Deleting \/ Updating \/ Hydrating
    <2>1. UNCHANGED <<fire, run, ofSched>>
      <3>1. CASE Creating
        BY <3>1 DEF Creating, CreateSchedule
      <3>2. CASE Reading
        BY <3>2 DEF Reading, UpdateRead
      <3>3. CASE Deleting
        BY <3>3 DEF Deleting, DeleteSchedule
      <3>4. CASE Updating
        BY <3>4 DEF Updating, UpdateWrite, UpdateRemove, UpdateAdd
      <3>5. CASE Hydrating
        BY <3>5 DEF Hydrating, Hydrate
      <3> QED
        BY <1>2, <3>1, <3>2, <3>3, <3>4, <3>5
    <2> QED
      BY <2>1
  <1>3. CASE Firing
    <2> SUFFICES ASSUME NEW i \in Ids,
                        \/ FireStart(i) \/ FireLoad(i) \/ FireCheck(i) \/ FireSkip(i) \/ FireCreate(i)
                        \/ FireAdd(i) \/ FireUpdate(i) \/ FireCatch(i) \/ FireReadd(i) \/ FireThrows(i)
                        \/ FireEnd(i) \/ FireFailed(i)
                 PROVE  SoleRun(s)'
      BY <1>3 DEF Firing
    <2> USE DEF SchedulerTypes
    <2>1. CASE FireLoad(i)
      <3>1. fire[i] = "load" /\ UNCHANGED <<run, ofSched>>
            /\ fire' = [fire EXCEPT ![i] = IF row[i[1]] = "on" THEN "check" ELSE "end"]
        BY <2>1 DEF FireLoad
      <3>2. ASSUME i[1] = s, row[s] = "on", NEW j \in Ids, j[1] = s, fire[j] \in Starting PROVE j = i
        BY <3>1, <3>2 DEF TokenInv, OneChain, OneToken, Token, LiveStages, BeforeUpdate, Starting
      <3> QED
        BY <3>1, <3>2 DEF Starting
    <2>2. CASE FireCheck(i)
      <3>1. fire[i] = "check" /\ UNCHANGED <<run, ofSched>>
            /\ fire' = [fire EXCEPT ![i] = IF Active(i[1]) # {} THEN "skip" ELSE "create"]
        BY <2>2 DEF FireCheck
      <3> QED
        BY <3>1
    <2>3. CASE FireCreate(i)
      <3>1. PICK r \in Runs : /\ run[r] = "free" /\ fire[i] = "create"
                              /\ run' = [run EXCEPT ![r] = "row"]
                              /\ ofSched' = [ofSched EXCEPT ![r] = i[1]]
                              /\ fire' = [fire EXCEPT ![i] = "add"]
        BY <2>3 DEF FireCreate
      <3>2. CASE i[1] = s
        <4>1. Active(s)' = {r}
          BY <3>1, <3>2
        <4> QED
          BY <3>1, <3>2, <4>1
      <3>3. CASE i[1] # s
        <4>1. Active(s)' = Active(s)
          BY <3>1, <3>3
        <4> QED
          BY <3>1, <3>3, <4>1
      <3> QED
        BY <3>2, <3>3
    <2>4. CASE FireAdd(i)
      <3>1. /\ fire[i] = "add" /\ run' = [run EXCEPT ![made[i]] = "queued"]
            /\ fire' = [fire EXCEPT ![i] = "update"] /\ UNCHANGED ofSched
        BY <2>4 DEF FireAdd
      <3>2. run[made[i]] = "row"
        BY <3>1 DEF MadeInv
      <3>3. Active(s)' = Active(s)
        BY <3>1, <3>2
      <3> QED
        BY <3>1, <3>3
    <2>5. CASE FireStart(i) \/ FireSkip(i) \/ FireUpdate(i) \/ FireCatch(i)
      BY <2>5 DEF FireStart, FireSkip, FireUpdate, FireCatch
    <2>6. CASE FireReadd(i)
      BY <2>6 DEF FireReadd
    <2>7. CASE FireThrows(i)
      BY <2>7 DEF FireThrows
    <2>8. CASE FireEnd(i) \/ FireFailed(i)
      BY <2>8 DEF FireEnd, FireFailed, Forget
    <2> QED
      BY <2>1, <2>2, <2>3, <2>4, <2>5, <2>6, <2>7, <2>8
  <1>4. CASE Restart \/ Dying
    <2>1. fire' = [i \in Ids |-> "no"] /\ UNCHANGED <<run, ofSched>>
      BY <1>4 DEF Restart, Dying, FireFailedGone, Crash
    <2> QED
      BY <2>1
  <1>5. CASE OfRuns
    <2>1. fire' = fire /\ ofSched' = ofSched /\ \A r \in Runs : run'[r] # "free" => run[r] # "free"
      BY <1>5 DEF OfRuns, Pipeline, RunClaimed, RunLost, RunEnds, Tick, SchedulerTypes
    <2> QED
      BY <2>1
  <1>6. CASE UNCHANGED vars
    BY <1>6 DEF vars
  <1> QED
    BY <1>2, <1>3, <1>4, <1>5, <1>6, NextSteps

-----------------------------------------------------------------------------
(* The chain of a schedule: steps that do not touch it                     *)

SameFor(s) ==
    /\ row'[s] = row[s] /\ nextRunAt'[s] = nextRunAt[s] /\ (s \in hydrating' <=> s \in hydrating)
    /\ \A j \in Ids : j[1] = s =>
          /\ j \in entries' <=> j \in entries
          /\ j \in finished' <=> j \in finished
          /\ fire'[j] = fire[j] /\ next'[j] = next[j]
    /\ \A u : u.s = s => (u \in upd' <=> u \in upd)

LEMMA QuietStep ==
    ASSUME SchedulerTypes, SchedulerTypes', NEW s \in Schedules, SameFor(s), ChainOf(s),
           changes' = 0 => changes = 0, changes' = 1 => changes \in {0, 1}
    PROVE  ChainOf(s)'
  <1> USE DEF SameFor, ChainOf
  <1>1. \A j \in Ids : j[1] = s => /\ Token(j)' <=> Token(j)
                                   /\ Done(j)' <=> Done(j)
                                   /\ Known(j)' <=> Known(j)
    BY DEF Token, Done, Known
  <1>2. SmoothInv(s)'
    BY DEF SmoothInv
  <1>3. OffInv(s)'
    BY <1>1 DEF OffInv
  <1>4. NextInv(s)'
    BY DEF NextInv
  <1>5. EditInv(s)'
    <2>1. ASSUME NEW u \in upd, u.s = s PROVE Future(u)' <=> Future(u)
      <3>1. <<u.s, u.old>> \in entries' <=> <<u.s, u.old>> \in entries
        <4>1. u.old \in {0} \cup Times
          BY DEF SchedulerTypes, Update
        <4>2. CASE u.old \in Times
          BY <2>1, <4>2, IdPair
        <4>3. CASE u.old \notin Times
          BY <4>3 DEF SchedulerTypes, Ids
        <4> QED
          BY <4>2, <4>3
      <3> QED
        BY <2>1, <3>1 DEF Future
    <2> QED
      BY <2>1 DEF EditInv, Editing
  <1>6. DoneInv(s)'
    <2>1. ASSUME NEW i \in Ids, i[1] = s, Followed(i) PROVE Followed(i)'
      BY <1>1, <2>1 DEF Followed
    <2> QED
      BY <1>1, <2>1 DEF DoneInv
  <1>7. AliveInv(s)'
    BY <1>1 DEF AliveInv
  <1> QED
    BY <1>2, <1>3, <1>4, <1>5, <1>6, <1>7

\* A handler leaves the other schedules alone.
LEMMA FiringElsewhere ==
    ASSUME SchedulerTypes, FireInv, NEW i \in Ids, NEW s \in Schedules, i[1] # s,
           \/ FireStart(i) \/ FireLoad(i) \/ FireCheck(i) \/ FireSkip(i) \/ FireCreate(i)
           \/ FireAdd(i) \/ FireUpdate(i) \/ FireCatch(i) \/ FireReadd(i) \/ FireThrows(i)
           \/ FireEnd(i) \/ FireFailed(i)
    PROVE  SameFor(s)
  <1> USE DEF SchedulerTypes, rowVars, fireVars, runVars, bounds, Goto, SetRow, SameFor
  <1>1. i[1] \in Schedules /\ \A j \in Ids : j[1] = s => j # i
    BY IdParts
  <1>2. CASE FireReadd(i)
    <2>1. next[i] \in Times
      BY <1>2 DEF FireReadd, FireInv, Chosen, Readding
    <2>2. PICK n : n = <<i[1], next[i]>>
      OBVIOUS
    <2>3. n[1] = i[1] /\ (entries' = entries \/ entries' = entries \cup {n})
      BY <1>1, <1>2, <2>1, <2>2, IdPair DEF FireReadd, Add
    <2>4. UNCHANGED <<row, nextRunAt, upd, hydrating, finished, next>>
      BY <1>2 DEF FireReadd
    <2>5. \A j \in Ids : j # i => fire'[j] = fire[j]
      BY <1>2 DEF FireReadd
    <2> QED
      BY <1>1, <2>3, <2>4, <2>5
  <1>3. CASE FireStart(i) \/ FireLoad(i) \/ FireCheck(i)
    BY <1>1, <1>3 DEF FireStart, FireLoad, FireCheck
  <1>4. CASE FireSkip(i) \/ FireUpdate(i)
    BY <1>1, <1>4 DEF FireSkip, FireUpdate
  <1>5. CASE FireCreate(i) \/ FireAdd(i)
    BY <1>1, <1>5 DEF FireCreate, FireAdd
  <1>6. CASE FireCatch(i)
    BY <1>1, <1>6 DEF FireCatch
  <1>7. CASE FireThrows(i)
    BY <1>1, <1>7 DEF FireThrows
  <1>8. CASE FireEnd(i) \/ FireFailed(i)
    BY <1>1, <1>8 DEF FireEnd, FireFailed, Forget
  <1> QED
    BY <1>2, <1>3, <1>4, <1>5, <1>6, <1>7, <1>8

\* A request leaves the other schedules alone.
LEMMA UpdatingElsewhere ==
    ASSUME SchedulerTypes, UpdateInv, NEW u \in upd, NEW s \in Schedules, u.s # s,
           UpdateWrite(u) \/ UpdateRemove(u) \/ UpdateAdd(u)
    PROVE  SameFor(s)
  <1> USE DEF SchedulerTypes, rowVars, fireVars, runVars, bounds, SameFor
  <1>1. u.s \in Schedules
    BY DEF Update
  <1>2. CASE UpdateWrite(u)
    <2>1. PICK new : Rewritten(u, new)
      BY <1>2, UpdateWritten
    <2>2. /\ row'[s] = row[s] /\ nextRunAt'[s] = nextRunAt[s]
          /\ UNCHANGED <<entries, finished, fire, next, hydrating>>
      BY <1>1, <1>2 DEF UpdateWrite
    <2>3. \A v \in upd : v # u => v \in upd'
      BY <1>2 DEF UpdateWrite
    <2>4. \A v : v.s = s => (v \in upd' <=> v \in upd)
      BY <2>1, <2>3 DEF Rewritten
    <2> QED
      BY <2>2, <2>4
  <1>3. CASE UpdateRemove(u)
    <2>1. /\ entries' = entries \ {<<u.s, u.old>>} /\ finished' = finished \ {<<u.s, u.old>>}
          /\ UNCHANGED <<row, nextRunAt, fire, next, hydrating>>
      BY <1>3 DEF UpdateRemove
    <2>2. \A v : v.s = s => (v \in upd' <=> v \in upd)
      BY <1>3 DEF UpdateRemove
    <2>3. \A j \in Ids : j[1] = s => j # <<u.s, u.old>>
      BY IdParts
    <2> QED
      BY <2>1, <2>2, <2>3
  <1>4. CASE UpdateAdd(u)
    <2>1. entries' = entries \/ entries' = entries \cup {<<u.s, u.at>>}
      BY <1>4 DEF UpdateAdd, Add
    <2>2. \A j \in Ids : j[1] = s => j # <<u.s, u.at>>
      BY IdParts
    <2>3. upd' = upd \ {u} /\ UNCHANGED <<row, nextRunAt, finished, fire, next, hydrating>>
      BY <1>4 DEF UpdateAdd
    <2> QED
      BY <2>1, <2>2, <2>3
  <1> QED
    BY <1>2, <1>3, <1>4

-----------------------------------------------------------------------------
(* The chain of a schedule: its own requests                               *)

Before(s) == /\ SchedulerTypes /\ FireInv /\ RowInv /\ UpdateInv /\ TokenInv
             /\ ChainOf(s) /\ Undisturbed(s)

LEMMA ChainCreate ==
    ASSUME NEW s \in Schedules, Before(s), NEW c \in Crons, NEW e \in {"on", "off"},
           CreateSchedule(s, c, e)
    PROVE  ChainOf(s)'
  <1> USE DEF SchedulerTypes, rowVars, fireVars, runVars, bounds
  <1>1. /\ \A i \in Ids : i[1] = s => ~ Known(i)
        /\ \A u \in upd : u.s # s
    BY DEF CreateSchedule, Before, RowInv
  <1>2. /\ row'[s] = e /\ nextRunAt'[s] = NextRun(c, now)
        /\ UNCHANGED <<entries, finished, fire, next, hydrating, changes>>
    BY DEF CreateSchedule, Before
  <1>3. PICK new : /\ new = [n |-> 0, s |-> s, pc |-> "add", old |-> 0, at |-> NextRun(c, now),
                             enabled |-> "same", cron |-> 0]
                   /\ upd' = IF e = "on" THEN upd \cup {new} ELSE upd
    BY DEF CreateSchedule
  <1>4. new.n = 0 /\ new.s = s /\ new.pc = "add" /\ new.at = NextRun(c, now)
    BY <1>3
  <1>5. SmoothInv(s)'
    BY <1>1, <1>2 DEF SmoothInv, Known
  <1>6. OffInv(s)'
    BY <1>1, <1>2, <1>3 DEF OffInv, Known
  <1>7. NextInv(s)'
    BY <1>1, <1>2, <1>3, <1>4 DEF NextInv, Known, BeforeUpdate, Readding
  <1>8. EditInv(s)'
    BY <1>1, <1>2, <1>3, <1>4 DEF EditInv, Editing
  <1>9. DoneInv(s)'
    BY <1>1, <1>2 DEF DoneInv, Done, Known
  <1>10. AliveInv(s)'
    BY <1>2, <1>3, <1>4 DEF AliveInv
  <1> QED
    BY <1>5, <1>6, <1>7, <1>8, <1>9, <1>10 DEF ChainOf

LEMMA ChainRead ==
    ASSUME NEW s \in Schedules, Before(s), NEW c \in Crons \cup {0}, NEW e \in {"same", "on", "off"},
           UpdateRead(s, e, c), changes' <= 1
    PROVE  ChainOf(s)'
  <1> USE DEF Before, ChainOf, rowVars, fireVars, runVars, bounds
  <1>1. PICK new : /\ new = [n |-> changes + 1, s |-> s, pc |-> "write", old |-> nextRunAt[s],
                             at |-> IF c = 0 THEN 0 ELSE NextRun(c, now), enabled |-> e, cron |-> c]
                   /\ upd' = upd \cup {new}
    BY DEF UpdateRead
  <1>2. /\ new.n = changes + 1 /\ new.s = s /\ new.pc = "write" /\ new.old = nextRunAt[s] /\ new.cron = c
        /\ new.at = IF c = 0 THEN 0 ELSE NextRun(c, now)
    BY <1>1
  <1>3. /\ row[s] \in {"on", "off"} /\ changes = 0 /\ changes' = 1 /\ hydrating = {}
        /\ UNCHANGED <<row, nextRunAt, entries, finished, fire, next, hydrating>>
    BY Numbers DEF UpdateRead, SchedulerTypes, Serving
  <1>4. \A u \in upd : u.n = 0 /\ u.pc = "add" /\ u.n # new.n
    BY <1>2, <1>3, Numbers DEF UpdateInv, SchedulerTypes, Update
  <1>5. SmoothInv(s)'
    BY <1>3 DEF SmoothInv
  <1>6. OffInv(s)'
    BY <1>1, <1>2, <1>3, <1>4 DEF OffInv, Known
  <1>7. NextInv(s)'
    BY <1>3 DEF NextInv
  <1>8. EditInv(s)'
    <2> SUFFICES ASSUME row[s] = "on" PROVE EditInv(s)'
      BY <1>3 DEF EditInv
    <2>1. \A u \in upd' : Editing(u, s) => u = new
      BY <1>1, <1>4 DEF Editing
    <2>2. nextRunAt[s] \in Nat
      BY <1>3, TimesNat DEF RowInv
    <2>3. \A i \in Ids : i[1] = s =>
             /\ i \in entries \/ fire[i] \in BeforeUpdate => i[2] >= new.old
             /\ fire[i] \in Readding => next[i] >= new.old
      BY <1>2, <1>3, <2>2, IdParts DEF NextInv
    <2>4. \A v \in upd' : v.s = s /\ v.n = 0 => v.at >= new.old
      BY <1>1, <1>2, <1>3, <2>2 DEF NextInv
    <2>5. new.cron # 0 => \A i \in Ids : i[1] = s /\ (i \in finished \/ fire[i] # "no") => i[2] < new.at
      <3> SUFFICES ASSUME new.cron # 0, NEW i \in Ids, i \in finished \/ fire[i] # "no"
                   PROVE  i[2] < new.at
        OBVIOUS
      <3>1. PICK t \in Times : t = new.at /\ t > now
        BY <1>2, NextRunIsTime DEF SchedulerTypes
      <3>2. i[2] <= now /\ i[2] \in Nat /\ now \in Nat /\ t \in Nat
        BY IdParts, TimesNat, Numbers DEF FireInv, SchedulerTypes
      <3> QED
        BY <3>1, <3>2
    <2> QED
      BY <1>2, <1>3, <2>1, <2>3, <2>4, <2>5 DEF EditInv
  <1>9. DoneInv(s)'
    BY <1>1, <1>3 DEF DoneInv, Done, Followed, Token
  <1>10. AliveInv(s)'
    BY <1>1, <1>3 DEF AliveInv, Token
  <1> QED
    BY <1>5, <1>6, <1>7, <1>8, <1>9, <1>10

\* A change is the only one there has been.
LEMMA OneChange ==
    ASSUME SchedulerTypes, UpdateInv, changes <= 1, NEW u \in upd, u.n # 0
    PROVE  changes = 1 /\ u.n = 1 /\ \A v \in upd : v.n # 0 => v = u
  <1>1. changes \in Nat /\ \A v \in upd : v.n \in Nat /\ v.n <= changes
    BY Numbers DEF SchedulerTypes, UpdateInv, Update
  <1>2. \A v \in upd : v.n # 0 => v.n = 1
    BY <1>1
  <1> QED
    BY <1>1, <1>2 DEF UpdateInv

LEMMA ChainWrite ==
    ASSUME NEW s \in Schedules, Before(s), changes <= 1, NEW u \in upd, u.s = s, UpdateWrite(u)
    PROVE  ChainOf(s)'
  <1> USE DEF Before, ChainOf, rowVars, fireVars, runVars, bounds
  <1>1. u.pc = "write" /\ u.n # 0
    BY DEF UpdateWrite, UpdateInv
  <1>2. PICK new : Rewritten(u, new)
    BY UpdateWritten
  <1>3. /\ new.n = u.n /\ new.s = s /\ new.pc = "remove" /\ new.old = u.old /\ new.cron = u.cron
        /\ upd' \subseteq (upd \ {u}) \cup {new}
        /\ row[s] # "gone" => new \in upd'
    BY <1>2 DEF Rewritten
  <1>4. changes = 1 /\ \A v \in upd : v.n # 0 => v = u
    BY <1>1, OneChange
  <1>5. \A v \in upd' : v = new \/ (v \in upd /\ v.n = 0)
    BY <1>3, <1>4
  <1>6. /\ UNCHANGED <<entries, finished, fire, next, hydrating, changes>>
        /\ \A v \in upd : v # u => v \in upd'
    BY DEF UpdateWrite
  <1>7. row'[s] \in {"on", "off"} => row[s] \in {"on", "off"}
    BY DEF UpdateWrite, RowInv, SchedulerTypes
  <1>8. row'[s] # "gone" => row[s] # "gone"
    BY DEF UpdateWrite
  <1>9. row'[s] = "on" => /\ new.at = nextRunAt'[s] /\ new.at \in Times
                          /\ nextRunAt'[s] = IF u.cron = 0 THEN nextRunAt[s] ELSE u.at
    <2> SUFFICES ASSUME row'[s] = "on"
                 PROVE  /\ new.at = nextRunAt'[s] /\ new.at \in Times
                        /\ nextRunAt'[s] = IF u.cron = 0 THEN nextRunAt[s] ELSE u.at
      OBVIOUS
    <2>1. row[s] \in {"on", "off"} /\ nextRunAt[s] \in Times
      BY <1>7 DEF RowInv
    <2>2. nextRunAt'[s] = IF u.cron = 0 THEN nextRunAt[s] ELSE u.at
      BY <2>1 DEF UpdateWrite, SchedulerTypes
    <2>3. u.cron # 0 => u.at \in Times
      BY <1>1 DEF UpdateInv
    <2>4. new.at = nextRunAt'[s]
      BY <1>2 DEF Rewritten
    <2> QED
      BY <2>1, <2>2, <2>3, <2>4
  <1>10. SmoothInv(s)'
    BY <1>6, <1>8 DEF SmoothInv
  <1>11. OffInv(s)'
    BY <1>3, <1>4, <1>5, <1>6 DEF OffInv, UpdateInv
  <1>12. NextInv(s)'
    BY <1>4, <1>6 DEF NextInv
  <1>13. row[s] = "off" => /\ \A i \in Ids : i[1] = s => ~ Known(i)
                           /\ \A v \in upd : v.s = s => v.n # 0
    BY <1>1 DEF OffInv
  <1>14. ASSUME row'[s] = "on", Future(new)' PROVE row[s] = "on" /\ Future(u)
    <2>1. Future(u)
      <3>1. \A v \in upd' : v.n = 0 => v \in upd
        BY <1>1, <1>3, <1>5
      <3> QED
        BY <1>3, <1>6, <1>14, <3>1 DEF Future
    <2>2. row[s] # "off"
      <3> SUFFICES ASSUME row[s] = "off" PROVE FALSE
        OBVIOUS
      <3>1. <<u.s, u.old>> \notin entries
        <4>1. <<u.s, u.old>> \in entries => <<u.s, u.old>> \in Ids /\ <<u.s, u.old>>[1] = s
          BY DEF SchedulerTypes
        <4> QED
          BY <1>13, <4>1 DEF Known
      <3> QED
        BY <1>13, <2>1, <3>1 DEF Future, Known, Readding
    <2> QED
      BY <1>7, <1>14, <2>1, <2>2
  <1>15. EditInv(s)'
    <2> SUFFICES ASSUME row'[s] = "on" PROVE EditInv(s)'
      BY DEF EditInv
    <2>1. \A v \in upd' : Editing(v, s) => v = new
      BY <1>5 DEF Editing, UpdateInv
    <2>2. \A i \in Ids : i[1] = s =>
             /\ i \in entries \/ fire[i] \in BeforeUpdate => i[2] >= new.old
             /\ fire[i] \in Readding => next[i] >= new.old
      <3>1. CASE row[s] = "on"
        BY <1>1, <1>3, <3>1 DEF EditInv, Editing
      <3>2. CASE row[s] = "off"
        BY <1>13, <3>2 DEF Known, BeforeUpdate, Readding
      <3> QED
        BY <1>7, <3>1, <3>2
    <2>3. \A v \in upd' : v.s = s /\ v.n = 0 => v.at >= new.old
      <3>1. CASE row[s] = "on"
        BY <1>1, <1>3, <1>5, <3>1 DEF EditInv, Editing
      <3>2. CASE row[s] = "off"
        BY <1>1, <1>3, <1>5, <1>13, <3>2
      <3> QED
        BY <1>7, <3>1, <3>2
    <2>4. new.at # 0
      BY <1>9, TimesNat
    <2>5. ASSUME Future(new)'
          PROVE  IF new.cron = 0
                 THEN (IF new.pc = "write" THEN nextRunAt'[s] ELSE new.at) = new.old
                 ELSE \A i \in Ids : i[1] = s /\ (i \in finished \/ fire[i] # "no") => i[2] < new.at
      <3>1. row[s] = "on" /\ Future(u)
        BY <1>14, <2>5
      <3>2. IF u.cron = 0
            THEN nextRunAt[s] = u.old
            ELSE \A i \in Ids : i[1] = s /\ (i \in finished \/ fire[i] # "no") => i[2] < u.at
        BY <1>1, <3>1 DEF EditInv, Editing
      <3> QED
        BY <1>3, <1>9, <3>2
    <2> QED
      BY <1>6, <2>1, <2>2, <2>3, <2>4, <2>5 DEF EditInv
  <1>16. DoneInv(s)'
    <2> SUFFICES ASSUME row'[s] = "on", s \notin hydrating, NEW i \in Ids, i[1] = s, Done(i)
                 PROVE  Followed(i)'
      BY <1>6 DEF DoneInv, Done
    <2>1. row[s] = "on"
      BY <1>7, <1>13 DEF Done, Known
    <2>2. Followed(i)
      BY <2>1 DEF DoneInv
    <2> QED
      BY <1>1, <1>6, <2>2 DEF Followed, Token
  <1>17. AliveInv(s)'
    BY <1>3, <1>8 DEF AliveInv
  <1> QED
    BY <1>10, <1>11, <1>12, <1>15, <1>16, <1>17

LEMMA ChainRemove ==
    ASSUME NEW s \in Schedules, Before(s), changes <= 1, NEW u \in upd, u.s = s, UpdateRemove(u)
    PROVE  ChainOf(s)'
  <1> USE DEF Before, ChainOf, rowVars, fireVars, runVars, bounds
  <1>1. u.pc = "remove" /\ u.n # 0 /\ Editing(u, s)
    BY DEF UpdateRemove, UpdateInv, Editing
  <1>2. PICK new : new = [n |-> u.n, s |-> u.s, pc |-> "add", old |-> u.old, at |-> u.at,
                          enabled |-> u.enabled, cron |-> u.cron]
    OBVIOUS
  <1>3. /\ new.n = u.n /\ new.s = s /\ new.pc = "add" /\ new.at = u.at
        /\ upd' = (upd \ {u}) \cup (IF u.at = 0 THEN {} ELSE {new})
    BY <1>2 DEF UpdateRemove
  <1>4. changes = 1 /\ \A v \in upd : v.n # 0 => v = u
    BY <1>1, OneChange
  <1>5. /\ entries' = entries \ {<<s, u.old>>} /\ finished' = finished \ {<<s, u.old>>}
        /\ UNCHANGED <<row, nextRunAt, fire, next, hydrating, changes>>
    BY DEF UpdateRemove
  <1>6. \A v \in upd' : v.pc = "add"
    BY <1>3, <1>4 DEF UpdateInv
  <1>7. row[s] = "on" => u.at # 0
    BY <1>1 DEF EditInv
  <1>8. SmoothInv(s)'
    BY <1>5 DEF SmoothInv
  <1>9. OffInv(s)'
    BY <1>4, <1>5, <1>6 DEF OffInv
  <1>10. NextInv(s)'
    BY <1>4, <1>5 DEF NextInv
  <1>11. EditInv(s)'
    BY <1>6 DEF EditInv, Editing
  <1>12. DoneInv(s)'
    <2> SUFFICES ASSUME row[s] = "on", s \notin hydrating, NEW i \in Ids, i[1] = s, Done(i)
                 PROVE  Followed(i)'
      BY <1>5 DEF DoneInv, Done
    <2>1. Followed(i) /\ new \in upd'
      BY <1>3, <1>7 DEF DoneInv
    <2>2. CASE i[2] < u.at
      <3>1. new.at > i[2]
        BY <1>3, <2>2, IdParts, TimesNat DEF SchedulerTypes, Update
      <3> QED
        BY <1>3, <2>1, <3>1 DEF Followed
    <2>3. ASSUME NEW v \in upd, v.s = s, v.pc = "add", v.at > i[2] PROVE Followed(i)'
      BY <1>1, <1>3, <2>3 DEF Followed
    <2>4. ASSUME NEW j \in Ids, j[1] = s, j[2] > i[2], Token(j), ~ (i[2] < u.at) PROVE Followed(i)'
      <3>1. ~ Future(u) \/ (u.cron = 0 /\ u.at = u.old)
        BY <1>1, <2>4 DEF EditInv, Done
      <3>2. j # <<s, u.old>> \/ j \notin entries
        <4> SUFFICES ASSUME j = <<s, u.old>>, j \in entries PROVE FALSE
          OBVIOUS
        <4>1. Future(u)
          BY DEF Future
        <4>2. j[2] = u.old
          OBVIOUS
        <4>3. u.at > i[2]
          BY <2>4, <3>1, <4>1, <4>2
        <4> QED
          BY <2>4, <4>3, IdParts, TimesNat DEF SchedulerTypes, Update
      <3>3. Token(j)'
        BY <1>5, <2>4, <3>2 DEF Token
      <3> QED
        BY <2>4, <3>3 DEF Followed
    <2> QED
      BY <2>1, <2>2, <2>3, <2>4 DEF Followed
  <1>13. AliveInv(s)'
    BY <1>3, <1>5, <1>7 DEF AliveInv
  <1> QED
    BY <1>8, <1>9, <1>10, <1>11, <1>12, <1>13

LEMMA ChainAdd ==
    ASSUME NEW s \in Schedules, Before(s), changes <= 1, NEW u \in upd, u.s = s, UpdateAdd(u)
    PROVE  ChainOf(s)'
  <1> USE DEF Before, ChainOf, rowVars, fireVars, runVars, bounds
  <1>1. PICK a : a = <<s, u.at>>
    OBVIOUS
  <1>2. u.pc = "add" /\ u.at \in Times /\ a \in Ids /\ a[1] = s /\ a[2] = u.at
    BY <1>1, IdPair DEF UpdateAdd, UpdateInv
  <1>3. /\ upd' = upd \ {u}
        /\ UNCHANGED <<row, nextRunAt, finished, fire, next, hydrating, changes>>
        /\ entries \subseteq entries' /\ entries' \subseteq entries \cup {a}
        /\ a \in entries' \/ a \in finished \/ fire[a] # "no"
    BY <1>1, <1>2, AddKnown DEF UpdateAdd
  <1>4. \A j \in Ids : Token(j) => Token(j)'
    BY <1>3 DEF Token
  <1>5. ASSUME NEW v \in upd, Editing(v, s)
        PROVE  u.n = 0 /\ OneChain(s) /\ (row[s] # "gone" => \A i \in Ids : i[1] = s => ~ Known(i))
    <2>1. v.n # 0 /\ v # u
      BY <1>2, <1>5 DEF Editing, UpdateInv
    <2>2. u.n = 0 /\ changes = 1
      BY <2>1, OneChange
    <2>3. OneChain(s)
      BY <1>5, <2>2 DEF OneChain
    <2> QED
      BY <2>2, <2>3 DEF TokenInv, OneToken
  <1>6. SmoothInv(s)'
    BY <1>3 DEF SmoothInv
  <1>7. OffInv(s)'
    <2> SUFFICES ASSUME row[s] = "off", changes = 0 \/ \E v \in upd : v.s = s /\ v.pc = "write"
                 PROVE  FALSE
      BY <1>3 DEF OffInv
    <2>1. u.n = 0
      BY <1>5, OneChange DEF Editing
    <2> QED
      BY <2>1 DEF OffInv
  <1>8. NextInv(s)'
    <2> SUFFICES ASSUME changes = 0, row[s] = "on" PROVE NextInv(s)'
      BY <1>3 DEF NextInv
    <2>1. u.n = 0 /\ u.at = nextRunAt[s]
      BY OneChange DEF NextInv
    <2>2. \A i \in Ids : i[1] = s => ~ Known(i)
      BY <2>1 DEF TokenInv, OneChain, OneToken
    <2> QED
      BY <1>2, <1>3, <2>1, <2>2 DEF NextInv, Known
  <1>9. EditInv(s)'
    <2> SUFFICES ASSUME row[s] = "on", NEW v \in upd, v # u, Editing(v, s)
                 PROVE  /\ \A i \in Ids : i[1] = s =>
                              /\ i \in entries' \/ fire[i] \in BeforeUpdate => i[2] >= v.old
                              /\ fire[i] \in Readding => next[i] >= v.old
                        /\ \A w \in upd' : w.s = s /\ w.n = 0 => w.at >= v.old
                        /\ v.pc = "remove" => v.at # 0
                        /\ Future(v)' =>
                              IF v.cron = 0
                              THEN (IF v.pc = "write" THEN nextRunAt[s] ELSE v.at) = v.old
                              ELSE \A i \in Ids : i[1] = s /\ (i \in finished \/ fire[i] # "no") => i[2] < v.at
      BY <1>3 DEF EditInv
    <2>1. u.n = 0 /\ \A i \in Ids : i[1] = s => ~ Known(i)
      BY <1>5
    <2>2. u.at >= v.old
      BY <2>1 DEF EditInv
    <2>3. Future(v)' => Future(v)
      <3>1. v.s = s
        BY DEF Editing
      <3>2. <<v.s, v.old>> \in entries' => <<v.s, v.old>> \in entries \/ u.at = v.old
        BY <1>1, <1>3, <3>1
      <3>3. u.at = v.old => Future(v)
        BY <2>1, <3>1 DEF Future
      <3> QED
        BY <1>3, <3>2, <3>3 DEF Future
    <2> QED
      BY <1>2, <1>3, <2>2, <2>3 DEF EditInv
  <1>10. ASSUME row[s] = "on", s \notin hydrating, ~ Token(a)' PROVE Done(a)
    BY <1>2, <1>3, <1>10 DEF Token, Done, SmoothInv, SchedulerTypes, Stages, LiveStages
  <1>11. ASSUME row[s] = "on", s \notin hydrating
         PROVE  \/ \E j \in Ids : j[1] = s /\ j[2] >= u.at /\ Token(j)'
                \/ \E v \in upd' : v.s = s /\ v.pc = "add" /\ v.at > u.at
    <2>1. CASE Token(a)'
      <3>1. a[2] >= u.at
        <4>1. PICK t \in Nat : t = u.at
          BY <1>2, TimesNat
        <4>2. t >= t
          OBVIOUS
        <4> QED
          BY <1>2, <4>1, <4>2
      <3> QED
        BY <1>2, <2>1, <3>1
    <2>2. CASE ~ Token(a)'
      <3>1. Followed(a)
        BY <1>2, <1>10, <1>11, <2>2 DEF DoneInv
      <3>2. ASSUME NEW j \in Ids, j[1] = s, j[2] > u.at, Token(j)
            PROVE  Token(j)' /\ j[2] >= u.at
        BY <1>2, <1>4, <3>2, IdParts, TimesNat
      <3>3. \A v \in upd : v.at > u.at => v # u
        <4>1. PICK t \in Nat : t = u.at
          BY <1>2, TimesNat
        <4>2. ~ (t > t)
          OBVIOUS
        <4> QED
          BY <4>1, <4>2
      <3> QED
        BY <1>2, <1>3, <3>1, <3>2, <3>3 DEF Followed
    <2> QED
      BY <2>1, <2>2
  <1>12. DoneInv(s)'
    <2> SUFFICES ASSUME row[s] = "on", s \notin hydrating, NEW i \in Ids, i[1] = s, Done(i)
                 PROVE  Followed(i)'
      BY <1>3 DEF DoneInv, Done
    <2>1. i[2] \in Nat /\ u.at \in Nat /\ \A j \in Ids : j[2] \in Nat
      BY <1>2, IdParts, TimesNat
    <2>2. CASE u.at > i[2]
      <3>1. ASSUME NEW j \in Ids, j[1] = s, j[2] >= u.at, Token(j)' PROVE Followed(i)'
        BY <2>1, <2>2, <3>1 DEF Followed
      <3>2. ASSUME NEW v \in upd', v.s = s, v.pc = "add", v.at > u.at PROVE Followed(i)'
        <4>1. v.at \in Nat
          BY <1>3, <3>2, TimesNat DEF UpdateInv
        <4> QED
          BY <2>1, <2>2, <3>2, <4>1 DEF Followed
      <3> QED
        BY <1>11, <3>1, <3>2
    <2>3. CASE ~ (u.at > i[2])
      <3>1. Followed(i)
        BY DEF DoneInv
      <3> QED
        BY <1>3, <1>4, <2>3, <3>1 DEF Followed
    <2> QED
      BY <2>2, <2>3
  <1>13. AliveInv(s)'
    BY <1>3, <1>11 DEF AliveInv
  <1> QED
    BY <1>6, <1>7, <1>8, <1>9, <1>12, <1>13

-----------------------------------------------------------------------------
(* The chain of a schedule: its own handlers                               *)

LEMMA GoneChain ==
    ASSUME NEW s \in Schedules, row'[s] = "gone"
    PROVE  ChainOf(s)'
  BY DEF ChainOf, SmoothInv, OffInv, NextInv, EditInv, DoneInv, AliveInv

\* While the chain is one, the handler at work is its only token.
LEMMA OnlyToken ==
    ASSUME NEW s \in Schedules, Before(s), row[s] # "gone", OneChain(s),
           NEW i \in Ids, i[1] = s, Token(i)
    PROVE  /\ \A j \in Ids : j[1] = s /\ j # i => j \notin entries /\ fire[j] \notin LiveStages
           /\ \A u \in upd : u.s = s => u.n # 0
  BY DEF Before, TokenInv, OneToken, Token, Known, LiveStages, BeforeUpdate, Readding

\* The steps of a handler by their effect on the chain.
Advances(i) ==
    /\ \A j \in Ids : j # i => fire'[j] = fire[j] /\ next'[j] = next[j]
    /\ \/ /\ i \in entries /\ entries' = entries \ {i} /\ finished' = finished /\ fire'[i] = "load"
          /\ nextRunAt' = nextRunAt
       \/ /\ fire[i] \in BeforeUpdate /\ fire'[i] \in BeforeUpdate \ {"catch"}
          /\ UNCHANGED <<entries, finished, nextRunAt>>
       \/ /\ fire[i] \in {"skip", "update"} /\ fire'[i] \in {"readd", "readd_skip"}
          /\ nextRunAt' = [nextRunAt EXCEPT ![i[1]] = next[i]] /\ next'[i] = next[i]
          /\ UNCHANGED <<entries, finished>>
       \/ /\ fire[i] = "end" /\ fire'[i] = "no" /\ finished' = finished \cup {i}
          /\ UNCHANGED <<entries, nextRunAt>>

LEMMA FiringKinds ==
    ASSUME NEW s \in Schedules, Before(s), row[s] # "gone", NEW i \in Ids, i[1] = s,
           \/ FireStart(i) \/ FireLoad(i) \/ FireCheck(i) \/ FireSkip(i) \/ FireCreate(i)
           \/ FireAdd(i) \/ FireUpdate(i) \/ FireCatch(i) \/ FireReadd(i) \/ FireEnd(i) \/ FireFailed(i)
    PROVE  Advances(i) \/ (FireLoad(i) /\ row[s] # "on") \/ FireReadd(i)
  <1> USE DEF SchedulerTypes, Before, rowVars, fireVars, runVars, bounds, Goto, SetRow, Advances, BeforeUpdate
  <1>1. fire[i] \notin {"catch", "failed"}
    BY DEF ChainOf, SmoothInv
  <1>2. CASE FireStart(i)
    BY <1>2 DEF FireStart
  <1>3. CASE FireLoad(i)
    BY <1>3 DEF FireLoad
  <1>4. CASE FireCheck(i)
    BY <1>4 DEF FireCheck
  <1>5. CASE FireSkip(i)
    BY <1>5 DEF FireSkip
  <1>6. CASE FireCreate(i)
    BY <1>6 DEF FireCreate
  <1>7. CASE FireAdd(i)
    BY <1>7 DEF FireAdd
  <1>8. CASE FireUpdate(i)
    BY <1>8 DEF FireUpdate
  <1>9. CASE FireEnd(i)
    BY <1>9 DEF FireEnd, Forget
  <1>10. CASE FireCatch(i) \/ FireFailed(i)
    BY <1>1, <1>10 DEF FireCatch, FireFailed
  <1> QED
    BY <1>2, <1>3, <1>4, <1>5, <1>6, <1>7, <1>8, <1>9, <1>10

LEMMA ChainAdvance ==
    ASSUME NEW s \in Schedules, Before(s), changes <= 1, row[s] # "gone", NEW i \in Ids, i[1] = s,
           Advances(i), UNCHANGED <<row, upd, hydrating, changes>>
    PROVE  ChainOf(s)'
  <1> USE DEF Before, ChainOf
  <1>1. Known(i) /\ (i \in finished => i \notin entries /\ fire[i] = "no")
        /\ (fire[i] # "no" => i \notin entries \cup finished)
    BY DEF Advances, Known, FireInv, BeforeUpdate
  <1>2. \A j \in Ids : (Token(j)' <=> Token(j)) /\ (Done(j)' <=> Done(j))
    BY <1>1 DEF Advances, Token, Done, LiveStages, BeforeUpdate, Readding
  <1>3. SmoothInv(s)'
    BY DEF SmoothInv, Advances, BeforeUpdate
  <1>4. OffInv(s)'
    BY <1>1 DEF OffInv
  <1>5. ASSUME OneChain(s), Token(i)
        PROVE  /\ \A j \in Ids : j[1] = s /\ j # i => j \notin entries /\ fire[j] \notin LiveStages
               /\ \A u \in upd : u.s = s => u.n # 0
    BY <1>5, OnlyToken
  <1>6. NextInv(s)'
    <2> SUFFICES ASSUME changes = 0, row[s] = "on" PROVE NextInv(s)'
      BY DEF NextInv
    <2>1. /\ \A j \in Ids : j[1] = s =>
                /\ j \in entries \/ fire[j] \in BeforeUpdate => nextRunAt[s] = j[2]
                /\ fire[j] \in Readding => nextRunAt[s] = next[j]
          /\ \A u \in upd : u.s = s => u.at = nextRunAt[s]
      BY DEF NextInv
    <2>2. CASE /\ nextRunAt' = nextRunAt
               /\ ~ (fire[i] \in {"skip", "update"} /\ fire'[i] \in {"readd", "readd_skip"})
      <3>1. CASE i \in entries /\ entries' = entries \ {i} /\ fire'[i] = "load"
        BY <2>1, <2>2, <3>1 DEF Advances, NextInv, BeforeUpdate, Readding
      <3>2. CASE /\ entries' = entries /\ fire'[i] \notin Readding
                 /\ fire'[i] \in BeforeUpdate => fire[i] \in BeforeUpdate
        BY <2>1, <2>2, <3>2 DEF Advances, NextInv
      <3> QED
        BY <2>2, <3>1, <3>2 DEF Advances, BeforeUpdate, Readding
    <2>3. CASE fire[i] \in {"skip", "update"} /\ fire'[i] \in {"readd", "readd_skip"}
      <3>1. /\ nextRunAt'[s] = next[i] /\ next'[i] = next[i] /\ entries' = entries /\ i \notin entries
            /\ \A j \in Ids : j # i => fire'[j] = fire[j] /\ next'[j] = next[j]
        BY <1>1, <2>3 DEF Advances, BeforeUpdate, SchedulerTypes
      <3>2. /\ \A j \in Ids : j[1] = s /\ j # i => j \notin entries /\ fire[j] \notin LiveStages
            /\ \A u \in upd : u.s = s => u.n # 0
        BY <1>5, <2>3 DEF OneChain, Token, LiveStages, BeforeUpdate
      <3>3. \A u \in upd : u.s # s
        BY <3>2, OneChange
      <3> QED
        BY <2>3, <3>1, <3>2, <3>3 DEF NextInv, LiveStages, BeforeUpdate, Readding
    <2> QED
      BY <2>2, <2>3 DEF Advances
  <1>7. EditInv(s)'
    <2> SUFFICES ASSUME row[s] = "on", NEW u \in upd, Editing(u, s)
                 PROVE  /\ \A j \in Ids : j[1] = s =>
                              /\ j \in entries' \/ fire'[j] \in BeforeUpdate => j[2] >= u.old
                              /\ fire'[j] \in Readding => next'[j] >= u.old
                        /\ \A v \in upd : v.s = s /\ v.n = 0 => v.at >= u.old
                        /\ u.pc = "remove" => u.at # 0
                        /\ Future(u)' =>
                              IF u.cron = 0
                              THEN (IF u.pc = "write" THEN nextRunAt'[s] ELSE u.at) = u.old
                              ELSE \A j \in Ids : j[1] = s /\ (j \in finished' \/ fire'[j] # "no") => j[2] < u.at
      BY DEF EditInv
    <2>1. /\ \A j \in Ids : j[1] = s =>
                /\ j \in entries \/ fire[j] \in BeforeUpdate => j[2] >= u.old
                /\ fire[j] \in Readding => next[j] >= u.old
          /\ \A v \in upd : v.s = s /\ v.n = 0 => v.at >= u.old
          /\ u.pc = "remove" => u.at # 0
          /\ Future(u) =>
                IF u.cron = 0
                THEN (IF u.pc = "write" THEN nextRunAt[s] ELSE u.at) = u.old
                ELSE \A j \in Ids : j[1] = s /\ (j \in finished \/ fire[j] # "no") => j[2] < u.at
      BY DEF EditInv
    <2>2. OneChain(s) /\ u.s = s
      <3>1. changes = 1
        BY OneChange DEF Editing, UpdateInv
      <3> QED
        BY <3>1 DEF OneChain, Editing
    <2>3. u.old \in Nat
      <3>1. u.old \in {0} \cup Times
        BY DEF SchedulerTypes, Update
      <3>2. PICK n \in {0} \cup Times : n = u.old
        BY <3>1
      <3>3. n \in Nat
        BY ONLY TimesNat, n \in {0} \cup Times
      <3> QED
        BY ONLY <3>2, <3>3
    <2>4. CASE fire[i] = "end"
      <3>1. /\ UNCHANGED <<entries, nextRunAt>> /\ fire'[i] = "no" /\ finished' = finished \cup {i}
            /\ \A j \in Ids : j # i => fire'[j] = fire[j] /\ next'[j] = next[j]
        BY <1>1, <2>4 DEF Advances, BeforeUpdate
      <3>2. Future(u)' <=> Future(u)
        <4>1. \A j \in Ids : fire'[j] \in Readding <=> fire[j] \in Readding
          BY <2>4, <3>1 DEF Readding
        <4>2. \A j \in Ids : fire'[j] \in Readding => next'[j] = next[j]
          BY <3>1 DEF Readding
        <4> QED
          BY <3>1, <4>1, <4>2 DEF Future
      <3>3. \A j \in Ids : j \in finished' \/ fire'[j] # "no" => j \in finished \/ fire[j] # "no"
        BY <1>1, <2>4 DEF Advances, BeforeUpdate
      <3> QED
        BY <1>1, <2>1, <2>4, <3>2, <3>3 DEF Advances, Readding, BeforeUpdate
    <2>5. CASE fire[i] # "end"
      <3>1. Token(i) /\ i \notin entries'
        <4>1. CASE i \in entries /\ entries' = entries \ {i}
          BY <4>1 DEF Token
        <4>2. CASE fire[i] \in BeforeUpdate /\ entries' = entries
          BY <1>1, <4>2 DEF Token, LiveStages, BeforeUpdate
        <4> QED
          BY <2>5, <4>1, <4>2 DEF Advances, BeforeUpdate
      <3>2. /\ \A j \in Ids : j[1] = s /\ j # i => j \notin entries /\ fire[j] \notin LiveStages
            /\ \A v \in upd : v.s = s => v.n # 0
        BY <1>5, <2>2, <3>1
      <3>3. /\ \A j \in Ids : j[1] = s /\ j # i => j \notin entries' /\ fire'[j] \notin LiveStages
            /\ i[2] >= u.old
        BY <2>1, <2>5, <3>2 DEF Advances, BeforeUpdate
      <3>4. fire'[i] \in Readding => next'[i] > u.old
        <4> SUFFICES ASSUME fire'[i] \in Readding PROVE next'[i] > u.old
          OBVIOUS
        <4>1. next'[i] = next[i] /\ next[i] > i[2] /\ next[i] \in Nat
          BY TimesNat DEF Advances, Readding, BeforeUpdate, FireInv, Chosen
        <4>2. i[2] \in Nat
          BY IdParts
        <4> QED
          BY <2>3, <3>3, <4>1, <4>2
      <3>5. ~ Future(u)'
        <4>1. <<s, u.old>> \notin entries'
          <5> SUFFICES ASSUME <<s, u.old>> \in entries' PROVE FALSE
            OBVIOUS
          <5>1. <<s, u.old>> \in Ids /\ <<s, u.old>>[1] = s
            BY DEF Advances, SchedulerTypes
          <5> QED
            BY <3>1, <3>3, <5>1
        <4>2. \A j \in Ids : j[1] = s /\ fire'[j] \in Readding => next'[j] # u.old
          <5> SUFFICES ASSUME NEW j \in Ids, j[1] = s, fire'[j] \in Readding, next'[j] = u.old PROVE FALSE
            OBVIOUS
          <5>1. j = i
            BY <3>3 DEF LiveStages
          <5>2. ~ (u.old > u.old)
            BY <2>3
          <5> QED
            BY <3>4, <5>1, <5>2
        <4> QED
          BY <2>2, <3>2, <4>1, <4>2 DEF Future
      <3>6. \A j \in Ids : j[1] = s =>
               /\ j \in entries' \/ fire'[j] \in BeforeUpdate => j[2] >= u.old
               /\ fire'[j] \in Readding => next'[j] >= u.old
        <4>1. fire'[i] \in Readding => next'[i] >= u.old
          <5> SUFFICES ASSUME fire'[i] \in Readding PROVE next'[i] >= u.old
            OBVIOUS
          <5>1. next'[i] > u.old /\ next'[i] \in Nat
            BY <3>4, TimesNat DEF Advances, Readding, BeforeUpdate, FireInv, Chosen
          <5> QED
            BY <2>3, <5>1
        <4> QED
          BY <3>3, <4>1 DEF LiveStages
      <3> QED
        BY <2>1, <3>5, <3>6
    <2> QED
      BY <2>4, <2>5
  <1>8. DoneInv(s)'
    <2> SUFFICES ASSUME row[s] = "on", s \notin hydrating, NEW j \in Ids, j[1] = s, Done(j)
                 PROVE  Followed(j)'
      BY <1>2 DEF DoneInv
    <2>1. Followed(j)
      BY DEF DoneInv
    <2> QED
      BY <1>2, <2>1 DEF Followed
  <1>9. AliveInv(s)'
    BY <1>2 DEF AliveInv
  <1> QED
    BY <1>3, <1>4, <1>6, <1>7, <1>8, <1>9

LEMMA ChainReadd ==
    ASSUME NEW s \in Schedules, Before(s), changes <= 1, row[s] # "gone", NEW i \in Ids, i[1] = s,
           FireReadd(i)
    PROVE  ChainOf(s)'
  <1> USE DEF Before, ChainOf, rowVars, fireVars, runVars, bounds
  <1>1. PICK n : n = next[i]
    OBVIOUS
  <1>2. PICK a : a = <<s, n>>
    OBVIOUS
  <1>3. fire[i] \in {"readd_skip", "readd"} /\ fire'[i] = "end"
    BY DEF FireReadd, SmoothInv, Goto, SchedulerTypes
  <1>4. n \in Times /\ n > i[2] /\ i \notin entries \cup finished /\ Token(i) /\ Known(i)
    BY <1>1, <1>3 DEF FireInv, Chosen, Readding, Token, Known, LiveStages
  <1>5. a \in Ids /\ a[1] = s /\ a[2] = n
    BY <1>2, <1>4, IdPair
  <1>6. n \in Nat /\ i[2] \in Nat /\ a # i
    <2>1. i[2] \in Nat /\ n \in Nat
      BY <1>4, IdParts, TimesNat
    <2> QED
      BY ONLY <2>1, <1>4, <1>5
  <1>7. /\ UNCHANGED <<row, nextRunAt, finished, next, upd, hydrating, changes>>
        /\ \A j \in Ids : j # i => fire'[j] = fire[j]
        /\ Add(a)
    BY <1>1, <1>2 DEF FireReadd, Goto
  <1>8. /\ entries \subseteq entries' /\ entries' \subseteq entries \cup {a}
        /\ a \in entries' \/ a \in finished \/ fire[a] # "no"
    BY <1>5, <1>7, AddKnown
  <1>9. ASSUME OneChain(s)
        PROVE  /\ \A j \in Ids : j[1] = s => /\ j \in entries' => j = a
                                             /\ fire'[j] \notin LiveStages
               /\ \A u \in upd : u.s = s => u.n # 0
    <2>1. /\ \A j \in Ids : j[1] = s /\ j # i => j \notin entries /\ fire[j] \notin LiveStages
          /\ \A u \in upd : u.s = s => u.n # 0
      BY <1>4, <1>9, OnlyToken
    <2>2. fire'[i] \notin LiveStages
      BY <1>3 DEF LiveStages, BeforeUpdate, Readding
    <2> QED
      BY <1>4, <1>7, <1>8, <2>1, <2>2
  <1>10. SmoothInv(s)'
    BY <1>3, <1>7 DEF SmoothInv
  <1>11. OffInv(s)'
    BY <1>4, <1>7 DEF OffInv
  <1>12. NextInv(s)'
    <2> SUFFICES ASSUME changes = 0, row[s] = "on" PROVE NextInv(s)'
      BY <1>7 DEF NextInv
    <2>1. /\ \A j \in Ids : j[1] = s => /\ j \in entries' => j = a
                                        /\ fire'[j] \notin LiveStages
          /\ \A u \in upd : u.s = s => u.n # 0
      BY <1>9 DEF OneChain
    <2>2. \A u \in upd : u.s # s
      BY <2>1, OneChange
    <2>3. nextRunAt[s] = n
      BY <1>1, <1>3 DEF NextInv, Readding
    <2> QED
      BY <1>5, <1>7, <2>1, <2>2, <2>3 DEF NextInv, LiveStages
  <1>13. EditInv(s)'
    <2> SUFFICES ASSUME row[s] = "on", NEW u \in upd, Editing(u, s)
                 PROVE  /\ \A j \in Ids : j[1] = s =>
                              /\ j \in entries' \/ fire'[j] \in BeforeUpdate => j[2] >= u.old
                              /\ fire'[j] \in Readding => next[j] >= u.old
                        /\ \A v \in upd : v.s = s /\ v.n = 0 => v.at >= u.old
                        /\ u.pc = "remove" => u.at # 0
                        /\ Future(u)' =>
                              IF u.cron = 0
                              THEN (IF u.pc = "write" THEN nextRunAt[s] ELSE u.at) = u.old
                              ELSE \A j \in Ids : j[1] = s /\ (j \in finished \/ fire'[j] # "no") => j[2] < u.at
      BY <1>7 DEF EditInv
    <2>1. /\ n >= u.old
          /\ \A v \in upd : v.s = s /\ v.n = 0 => v.at >= u.old
          /\ u.pc = "remove" => u.at # 0
          /\ Future(u) =>
                IF u.cron = 0
                THEN (IF u.pc = "write" THEN nextRunAt[s] ELSE u.at) = u.old
                ELSE \A j \in Ids : j[1] = s /\ (j \in finished \/ fire[j] # "no") => j[2] < u.at
      BY <1>1, <1>3 DEF EditInv, Readding
    <2>2. OneChain(s) /\ u.s = s
      <3>1. changes = 1
        BY OneChange DEF Editing, UpdateInv
      <3> QED
        BY <3>1 DEF OneChain, Editing
    <2>3. /\ \A j \in Ids : j[1] = s => /\ j \in entries' => j = a
                                        /\ fire'[j] \notin LiveStages
          /\ \A v \in upd : v.s = s => v.n # 0
      BY <1>9, <2>2
    <2>4. Future(u)' => Future(u)
      <3>1. <<s, u.old>> \in entries' => n = u.old
        <4> SUFFICES ASSUME <<s, u.old>> \in entries' PROVE n = u.old
          OBVIOUS
        <4>1. <<s, u.old>> \in Ids /\ <<s, u.old>>[1] = s
          BY <1>5, <1>8 DEF SchedulerTypes
        <4>2. <<s, u.old>> = a
          BY <2>3, <4>1
        <4> QED
          BY <1>2, <4>2
      <3>2. n = u.old => Future(u)
        BY <1>1, <1>3, <2>2 DEF Future, Readding
      <3> QED
        BY <1>7, <2>2, <2>3, <3>1, <3>2 DEF Future, LiveStages
    <2>5. \A j \in Ids : fire'[j] # "no" => fire[j] # "no"
      BY <1>3, <1>7
    <2> QED
      BY <1>5, <2>1, <2>3, <2>4, <2>5 DEF LiveStages
  <1>14. ASSUME row[s] = "on", s \notin hydrating
         PROVE  \/ Token(a)'
                \/ \E j \in Ids : j[1] = s /\ j[2] > n /\ Token(j)'
                \/ \E u \in upd : u.s = s /\ u.pc = "add" /\ u.at > n
    <2> SUFFICES ASSUME ~ Token(a)'
                 PROVE  \/ \E j \in Ids : j[1] = s /\ j[2] > n /\ Token(j)'
                        \/ \E u \in upd : u.s = s /\ u.pc = "add" /\ u.at > n
      OBVIOUS
    <2>1. Done(a)
      BY <1>5, <1>6, <1>7, <1>8, <1>14 DEF Token, Done, SmoothInv, SchedulerTypes, Stages, LiveStages
    <2>2. Followed(a)
      BY <1>5, <1>14, <2>1 DEF DoneInv
    <2>3. ASSUME NEW j \in Ids, j[1] = s, j[2] > n, Token(j) PROVE Token(j)'
      <3>1. j # i
        BY <1>4, <1>6, <2>3, IdParts
      <3> QED
        BY <1>7, <1>8, <2>3, <3>1 DEF Token
    <2> QED
      BY <1>5, <2>2, <2>3 DEF Followed
  <1>15. DoneInv(s)'
    <2> SUFFICES ASSUME row[s] = "on", s \notin hydrating, NEW j \in Ids, j[1] = s, Done(j)'
                 PROVE  Followed(j)'
      BY <1>7 DEF DoneInv
    <2>1. j[2] \in Nat /\ \A k \in Ids : k[2] \in Nat
      BY IdParts
    <2>2. CASE n > j[2]
      <3>1. CASE Token(a)'
        BY <1>5, <2>2, <3>1 DEF Followed
      <3>2. ASSUME NEW k \in Ids, k[1] = s, k[2] > n, Token(k)' PROVE Followed(j)'
        <4>1. k[2] > j[2]
          BY <1>6, <2>1, <2>2, <3>2
        <4> QED
          BY <3>2, <4>1 DEF Followed
      <3>3. ASSUME NEW u \in upd, u.s = s, u.pc = "add", u.at > n PROVE Followed(j)'
        <4>1. PICK t \in Nat : t = u.at
          BY <3>3, TimesNat DEF UpdateInv
        <4>2. t > j[2]
          BY <1>6, <2>1, <2>2, <3>3, <4>1
        <4> QED
          BY <1>7, <3>3, <4>1, <4>2 DEF Followed
      <3> QED
        BY <1>14, <3>1, <3>2, <3>3
    <2>3. CASE ~ (n > j[2])
      <3>1. j # i /\ Done(j)
        BY <1>4, <1>7, <2>3 DEF Done
      <3>2. Followed(j)
        BY <3>1 DEF DoneInv
      <3>3. ASSUME NEW k \in Ids, k[1] = s, k[2] > j[2], Token(k) PROVE Token(k)'
        <4>1. k # i
          BY <1>4, <1>6, <2>1, <2>3, <3>3
        <4> QED
          BY <1>7, <1>8, <3>3, <4>1 DEF Token
      <3> QED
        BY <1>7, <3>2, <3>3 DEF Followed
    <2> QED
      BY <2>2, <2>3
  <1>16. AliveInv(s)'
    BY <1>5, <1>7, <1>14 DEF AliveInv
  <1> QED
    BY <1>10, <1>11, <1>12, <1>13, <1>15, <1>16

\* A handler that finds its schedule disabled ends the chain.
LEMMA ChainLoadOff ==
    ASSUME NEW s \in Schedules, Before(s), row[s] \notin {"on", "gone"}, NEW i \in Ids, i[1] = s,
           FireLoad(i)
    PROVE  ChainOf(s)'
  <1> USE DEF Before, ChainOf, rowVars, fireVars, runVars, bounds
  <1>1. /\ UNCHANGED <<row, upd, changes>> /\ fire'[i] = "end" /\ Known(i)
        /\ \A j \in Ids : j # i => fire'[j] = fire[j]
    BY DEF FireLoad, Goto, SchedulerTypes, Known
  <1>2. SmoothInv(s)'
    BY <1>1 DEF SmoothInv
  <1>3. OffInv(s)'
    BY <1>1 DEF OffInv
  <1> QED
    BY <1>1, <1>2, <1>3 DEF NextInv, EditInv, DoneInv, AliveInv

-----------------------------------------------------------------------------
(* The chain of a schedule: restarts, and every step                       *)

\* hydrateSchedules adds an entry that is later than everything that has fired.
LEMMA ChainHydrate ==
    ASSUME NEW s \in Schedules, Before(s), Hydrate(s)
    PROVE  ChainOf(s)'
  <1> USE DEF Before, ChainOf, rowVars, fireVars, runVars, bounds
  <1>1. CASE row[s] = "gone"
    BY <1>1, GoneChain DEF Hydrate
  <1>2. CASE row[s] # "gone"
    <2>1. PICK t : t = NextRun(cron[s], now)
      OBVIOUS
    <2>2. PICK a : a = <<s, t>>
      OBVIOUS
    <2>3. t \in Times /\ t > now /\ a \in Ids /\ a[1] = s /\ a[2] = t
      BY <2>1, <2>2, NextRunIsTime, IdPair DEF SchedulerTypes
    <2>4. Add(a) /\ UNCHANGED <<row, finished, fire, next, upd, changes>> /\ upd = {}
      BY <2>1, <2>2 DEF Hydrate, UpdateInv
    <2>5. changes # 0
      BY <1>2 DEF Hydrate, TokenInv, OneChain, OneToken
    <2>6. t \in Nat /\ now \in Nat /\ \A j \in Ids : j[2] \in Nat
      BY <2>3, IdParts, TimesNat DEF SchedulerTypes
    <2>7. ~ (a[2] <= now)
      BY <2>3, <2>6
    <2>8. a \in entries'
      BY <2>3, <2>4, <2>7, AddKnown DEF FireInv
    <2>9. SmoothInv(s)' /\ OffInv(s)' /\ NextInv(s)' /\ EditInv(s)'
      BY <2>4, <2>5 DEF SmoothInv, OffInv, NextInv, EditInv
    <2>10. DoneInv(s)'
      <3> SUFFICES ASSUME NEW j \in Ids, j[1] = s, Done(j) PROVE Followed(j)'
        BY <2>4 DEF DoneInv, Done
      <3>1. j[2] <= now
        BY DEF Done, FireInv
      <3>2. a[2] > j[2]
        BY <2>3, <2>6, <3>1
      <3> QED
        BY <2>3, <2>8, <3>2 DEF Followed, Token
    <2>11. AliveInv(s)'
      BY <2>3, <2>8 DEF AliveInv, Token
    <2> QED
      BY <2>9, <2>10, <2>11
  <1> QED
    BY <1>1, <1>2

\* A restart leaves nothing but what hydrateSchedules has to enqueue.
LEMMA ChainRestart ==
    ASSUME SchedulerTypes, NEW s \in Schedules, Restart
    PROVE  ChainOf(s)'
  <1> USE DEF rowVars, fireVars, runVars, bounds
  <1>1. /\ row' = row /\ changes' # 0 /\ upd' = {} /\ (row[s] = "on" => s \in hydrating')
        /\ \A i \in Ids : fire'[i] = "no"
    BY Numbers DEF Restart, Crash, SchedulerTypes
  <1>2. SmoothInv(s)' /\ OffInv(s)' /\ NextInv(s)' /\ EditInv(s)'
    BY <1>1 DEF SmoothInv, OffInv, NextInv, EditInv
  <1>3. DoneInv(s)' /\ AliveInv(s)'
    BY <1>1 DEF DoneInv, AliveInv
  <1> QED
    BY <1>2, <1>3 DEF ChainOf

LEMMA ChainStep ==
    ASSUME SchedulerTypes, SchedulerTypes', FireInv, RowInv, UpdateInv, TokenInv, ChainInv, [Next]_vars
    PROVE  ChainInv'
  <1> SUFFICES ASSUME NEW s \in Schedules, faults' = 0, changes' <= 1, Undisturbed(s)'
               PROVE  ChainOf(s)'
    BY DEF ChainInv
  <1>1. /\ faults = 0 /\ changes <= 1 /\ changes \in Nat /\ changes' \in {changes, changes + 1}
        /\ row[s] = "gone" => row'[s] = "gone"
    <2>1. /\ changes' \in {changes, changes + 1} /\ faults' \in {faults, faults + 1}
          /\ changes \in Nat /\ faults \in Nat
          /\ row[s] = "gone" => row'[s] = "gone"
      BY Monotone
    <2> QED
      BY <2>1
  <1>2. Before(s) /\ ChainOf(s)
    BY <1>1, StillUndisturbed DEF Before, ChainInv
  <1>3. CASE row[s] = "gone"
    BY <1>1, <1>3, GoneChain
  <1>4. ASSUME SameFor(s) PROVE ChainOf(s)'
    BY <1>1, <1>2, <1>4, QuietStep
  <1> USE DEF rowVars, fireVars, runVars, bounds
  <1>5. CASE Creating
    <2>1. PICK t \in Schedules, c \in Crons, e \in {"on", "off"} : CreateSchedule(t, c, e)
      BY <1>5 DEF Creating
    <2>2. CASE t = s
      BY <1>2, <2>1, <2>2, ChainCreate
    <2>3. CASE t # s
      <3>1. SameFor(s)
        BY <2>1, <2>3 DEF CreateSchedule, SameFor, SchedulerTypes
      <3> QED
        BY <1>4, <3>1
    <2> QED
      BY <2>2, <2>3
  <1>6. CASE Reading
    <2>1. PICK t \in Schedules, c \in Crons \cup {0}, e \in {"same", "on", "off"} : UpdateRead(t, e, c)
      BY <1>6 DEF Reading
    <2>2. CASE t = s
      BY <1>2, <2>1, <2>2, ChainRead
    <2>3. CASE t # s
      <3>1. SameFor(s)
        BY <2>1, <2>3 DEF UpdateRead, SameFor, SchedulerTypes
      <3> QED
        BY <1>4, <3>1
    <2> QED
      BY <2>2, <2>3
  <1>7. CASE Deleting
    <2>1. PICK t \in Schedules : DeleteSchedule(t)
      BY <1>7 DEF Deleting
    <2>2. CASE t = s
      <3>1. row'[s] = "gone"
        BY <2>1, <2>2 DEF DeleteSchedule, SchedulerTypes
      <3> QED
        BY <3>1, GoneChain
    <2>3. CASE t # s
      <3>1. SameFor(s)
        BY <2>1, <2>3 DEF DeleteSchedule, SameFor, SchedulerTypes
      <3> QED
        BY <1>4, <3>1
    <2> QED
      BY <2>2, <2>3
  <1>8. CASE Updating
    <2>1. PICK u \in upd : UpdateWrite(u) \/ UpdateRemove(u) \/ UpdateAdd(u)
      BY <1>8 DEF Updating
    <2>2. CASE u.s = s
      BY <1>1, <1>2, <2>1, <2>2, ChainWrite, ChainRemove, ChainAdd
    <2>3. CASE u.s # s
      BY <1>4, <2>1, <2>3, UpdatingElsewhere
    <2> QED
      BY <2>2, <2>3
  <1>9. CASE Firing /\ row[s] # "gone"
    <2>1. PICK i \in Ids :
              \/ FireStart(i) \/ FireLoad(i) \/ FireCheck(i) \/ FireSkip(i) \/ FireCreate(i)
              \/ FireAdd(i) \/ FireUpdate(i) \/ FireCatch(i) \/ FireReadd(i) \/ FireThrows(i)
              \/ FireEnd(i) \/ FireFailed(i)
      BY <1>9 DEF Firing
    <2>2. CASE i[1] # s
      BY <1>4, <2>1, <2>2, FiringElsewhere
    <2>3. CASE i[1] = s
      <3>1. ~ FireThrows(i)
        BY <1>1 DEF FireThrows, Fault
      <3>2. UNCHANGED <<row, upd, hydrating, changes>>
        BY <2>1, FiringFrame
      <3>3. CASE Advances(i)
        BY <1>1, <1>2, <1>9, <2>3, <3>2, <3>3, ChainAdvance
      <3>4. CASE FireLoad(i) /\ row[s] # "on"
        BY <1>2, <1>9, <2>3, <3>4, ChainLoadOff
      <3>5. CASE FireReadd(i)
        BY <1>1, <1>2, <1>9, <2>3, <3>5, ChainReadd
      <3> QED
        BY <1>2, <1>9, <2>1, <2>3, <3>1, <3>3, <3>4, <3>5, FiringKinds
    <2> QED
      BY <2>2, <2>3
  <1>10. CASE Restart
    BY <1>10, ChainRestart
  <1>11. CASE Dying
    <2>1. PICK i \in Ids : FireFailedGone(i)
      BY <1>11 DEF Dying
    <2>2. row[i[1]] = "gone" /\ row' = row /\ i[1] \in Schedules
      BY <2>1, IdParts DEF FireFailedGone, Crash
    <2>3. i[1] = s
      BY <2>2 DEF Undisturbed
    <2> QED
      BY <2>2, <2>3, GoneChain
  <1>12. CASE Hydrating
    <2>1. PICK t \in Schedules : Hydrate(t)
      BY <1>12 DEF Hydrating
    <2>2. CASE t = s
      BY <1>2, <2>1, <2>2, ChainHydrate
    <2>3. CASE t # s
      <3>1. PICK a : a = <<t, NextRun(cron[t], now)>>
        OBVIOUS
      <3>2. a[1] = t /\ (entries' = entries \/ entries' = entries \cup {a})
        BY <2>1, <3>1 DEF Hydrate, Add
      <3>3. /\ UNCHANGED <<row, finished, fire, next, upd>> /\ hydrating' = hydrating \ {t}
            /\ nextRunAt'[s] = nextRunAt[s]
        BY <2>1, <2>3 DEF Hydrate, SchedulerTypes
      <3>4. SameFor(s)
        BY <2>3, <3>2, <3>3 DEF SameFor
      <3> QED
        BY <1>4, <3>4
    <2> QED
      BY <2>2, <2>3
  <1>13. CASE OfRuns
    <2>1. SameFor(s)
      BY <1>13 DEF OfRuns, Pipeline, RunClaimed, RunLost, RunEnds, Tick, SameFor
    <2> QED
      BY <1>4, <2>1
  <1>14. CASE UNCHANGED vars
    <2>1. SameFor(s)
      BY <1>14 DEF vars, SameFor
    <2> QED
      BY <1>4, <2>1
  <1> QED
    BY <1>3, <1>5, <1>6, <1>7, <1>8, <1>9, <1>10, <1>11, <1>12, <1>13, <1>14, NextSteps

-----------------------------------------------------------------------------
(* Theorems                                                                *)

LEMMA IInvInit == Init => IInv
  <1> SUFFICES ASSUME Init PROVE IInv
    OBVIOUS
  <1>1. SchedulerTypes
    BY TypesInit
  <1>2. /\ \A s \in Schedules : row[s] = "none"
        /\ \A i \in Ids : fire[i] = "no" /\ ~ Known(i)
        /\ \A r \in Runs : run[r] = "free"
        /\ entries = {} /\ finished = {} /\ upd = {} /\ hydrating = {}
    BY DEF Init, Known
  <1>3. FireInv /\ MadeInv
    BY <1>2 DEF FireInv, MadeInv, Loaded, Chosen, LiveStages, BeforeUpdate, Readding
  <1>4. RowInv /\ UpdateInv
    BY <1>2 DEF RowInv, UpdateInv
  <1>5. TokenInv
    BY <1>2 DEF TokenInv, OneToken, Token, LiveStages, BeforeUpdate, Readding
  <1>6. RunInv
    BY <1>2 DEF RunInv, SoleRun, Active
  <1>7. ChainInv
    BY <1>2 DEF ChainInv, ChainOf, SmoothInv, OffInv, NextInv, EditInv, DoneInv, AliveInv
  <1> QED
    BY <1>1, <1>3, <1>4, <1>5, <1>6, <1>7 DEF IInv

LEMMA IInvStep == IInv /\ [Next]_vars => IInv'
  <1> SUFFICES ASSUME IInv, [Next]_vars PROVE IInv'
    OBVIOUS
  <1>1. /\ SchedulerTypes /\ FireInv /\ MadeInv /\ RowInv /\ UpdateInv
        /\ TokenInv /\ RunInv /\ ChainInv
    BY DEF IInv
  <1>2. SchedulerTypes'
    BY <1>1, TypesStep
  <1>3. FireInv' /\ MadeInv'
    BY <1>1, FireStep, MadeStep
  <1>4. RowInv' /\ UpdateInv'
    BY <1>1, RowStep, UpdateStep
  <1>5. TokenInv' /\ RunInv'
    BY <1>1, TokenStep, RunStep
  <1>6. ChainInv'
    BY <1>1, <1>2, ChainStep
  <1> QED
    BY <1>2, <1>3, <1>4, <1>5, <1>6 DEF IInv

\* Through fires, edits, failed calls, restarts and deletions an entry is in one
\* place, an undisturbed schedule has one token, and what has fired is followed.
THEOREM SchedulerInvariant == Spec => []IInv
  <1>1. Init => IInv
    BY IInvInit
  <1>2. IInv /\ [Next]_vars => IInv'
    BY IInvStep
  <1> QED
    BY <1>1, <1>2, PTL DEF Spec

\* processScheduleFire looks for an unfinished run and creates one in two
\* awaits.  No other handler of the schedule can come between them, also while
\* calls fail, until a request or the end of the process starts a second chain.
THEOREM OverlapIsPrevented == Spec => []NoOverlapUnedited
  <1>1. IInv => NoOverlapUnedited
    BY DEF IInv, RunInv, SoleRun, NoOverlapUnedited
  <1> QED
    BY <1>1, SchedulerInvariant, PTL

\* updateSchedule reads the time of an entry, and the worker may be done with
\* that entry before the request removes it and adds the next one; a restart
\* may come at any time.  One of these does not end an enabled schedule.
THEOREM ChainSurvives == Spec => []ChainAlive
  <1>1. IInv => ChainAlive
    <2> SUFFICES ASSUME IInv, faults = 0, changes <= 1,
                        NEW s \in Schedules, row[s] = "on", Undisturbed(s)
                 PROVE  \/ \E i \in Ids : i[1] = s /\ (i \in entries \/ fire[i] \notin {"no", "end", "failed"})
                        \/ \E u \in upd : u.s = s
                        \/ s \in hydrating
      BY DEF ChainAlive
    <2>1. AliveInv(s)
      BY DEF IInv, ChainInv, ChainOf
    <2>2. \A i \in Ids : Token(i) => i \in entries \/ fire[i] \notin {"no", "end", "failed"}
      BY DEF Token, LiveStages, BeforeUpdate, Readding
    <2> QED
      BY <2>1, <2>2 DEF AliveInv
  <1> QED
    BY <1>1, SchedulerInvariant, PTL

=============================================================================
