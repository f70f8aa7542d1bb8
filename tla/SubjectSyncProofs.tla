-------------------------- MODULE SubjectSyncProofs --------------------------
(***************************************************************************)
(* SyncInv is an inductive invariant of SubjectSync for every number of    *)
(* subjects, tasks, workers, retries and crashes; SubjectSync implements   *)
(* SubjectHistory; and the row shows the newest snapshot unless the        *)
(* execution that wrote it overlapped another of its subject.              *)
(***************************************************************************)
EXTENDS SubjectSync, FiniteSetTheorems, TLAPS

(* One execution changes, the others do not. *)
LEMMA BecomeFrame ==
  ASSUME task \in [Tasks -> Task], NEW t \in Tasks, NEW r \in Task, Become(t, r)
  PROVE  /\ task' \in [Tasks -> Task]
         /\ task'[t] = r
         /\ \A u \in Tasks : u # t => task'[u] = task[u]
  BY DEF Become

(* A message of a subject is a task record. *)
LEMMA QueuedType ==
  ASSUME NEW s \in Subjects, NEW n \in 0 .. MaxRetries
  PROVE  Queued(s, n) \in Task
  BY SyncAssumption DEF Queued, Task, PCs, Statuses, Times

(* What keeps TaskInv when only the execution t changes, to r: r holds no    *)
(* open transaction, claims nothing saved that was not, and has an honest    *)
(* token.                                                                    *)
Quiet(t, r) ==
  /\ r.pc # "upserted"
  /\ r.subj = task[t].subj
  /\ r.saved => /\ task[t].saved
                /\ r.id = task[t].id /\ r.at = task[t].at
                /\ r.followers = task[t].followers
  /\ r.pc \in {"persisted", "committed"} \/ r.result = "ok" => r.saved
  /\ r.pc \in {"idle", "queued", "begun", "ready", "fetched"} => ~r.saved
  /\ r.at <= clock
  /\ r.token = "db" => r.at <= activeUntil[r.subj]
  /\ r.token = "env" => PlatformOf[r.subj] \in EnvCredential
  /\ r.pc = "fetched" => r.token # "none" /\ r.followers \in Counts
  /\ r.pc \in {"idle", "queued", "begun"} => r.token = "none"

LEMMA QuietTask ==
  ASSUME SyncInv, NEW t \in Tasks, NEW r \in Task, Become(t, r), Quiet(t, r),
         UNCHANGED <<clock, row, snapshots, activeUntil>>
  PROVE  task' \in [Tasks -> Task] /\ TaskInv'
<1>1. /\ task' \in [Tasks -> Task]
      /\ task'[t] = r
      /\ \A u \in Tasks : u # t => task'[u] = task[u]
  BY BecomeFrame DEF SyncInv, TypeOK
<1>2. TransactionsIsolated'
  BY <1>1 DEF SyncInv, TaskInv, TransactionsIsolated, Quiet, History!RowIds
<1>3. SavedStays'
  BY <1>1 DEF SyncInv, TaskInv, SavedStays, Quiet, SnapshotOf
<1>4. SavedWhenCommitted'
  BY <1>1 DEF SyncInv, TaskInv, SavedWhenCommitted, Quiet
<1>5. TokensWereActive'
  BY <1>1 DEF SyncInv, TaskInv, TokensWereActive, Quiet
<1>6. QED
  BY <1>1, <1>2, <1>3, <1>4, <1>5 DEF TaskInv

LEMMA QuietHistory ==
  ASSUME SyncInv, NEW t \in Tasks, NEW r \in Task, Become(t, r), Quiet(t, r),
         UNCHANGED <<clock, database, alerting, contested>>, crashes' \in 0 .. MaxCrashes,
         alone' \subseteq Tasks
  PROVE  SyncInv'
<1>1. task' \in [Tasks -> Task] /\ TaskInv'
  BY QuietTask DEF database
<1>2. TypeOK'
  BY <1>1 DEF SyncInv, TypeOK, database, alerting, History!Row, History!Snapshot
<1>3. DatabaseInv'
  BY DEF SyncInv, DatabaseInv, database, alerting, RowHasSnapshot, SnapshotsHaveRow,
         SnapshotsKeyed, IdsDistinct, AnnouncedAfterCommit, VideosBelongToSnapshot,
         NoDataAfterRevocation, ActiveUntilNow, History!RowIds, History!HasSnapshot
<1>4. QED
  BY <1>1, <1>2, <1>3 DEF SyncInv

LEMMA QuietStep ==
  ASSUME SyncInv, NEW t \in Tasks, NEW r \in Task, Become(t, r), Quiet(t, r),
         UNCHANGED <<clock, database, alerting, overlap>>, crashes' \in 0 .. MaxCrashes
  PROVE  SyncInv'
<1>1. alone' \subseteq Tasks /\ contested' = contested
  BY DEF overlap, SyncInv, TypeOK
<1>2. QED
  BY <1>1, QuietHistory

LEMMA InitSyncInv == Init => SyncInv
<1> SUFFICES ASSUME Init PROVE SyncInv
  OBVIOUS
<1>1. PICK f \in [Tasks -> Subjects] :
        task = [t \in Tasks |-> [Queued(f[t], 0) EXCEPT !.pc = "idle"]]
  BY DEF Init
<1>2. \A t \in Tasks : task[t] = [Queued(f[t], 0) EXCEPT !.pc = "idle"]
  BY <1>1
<1>3. task \in [Tasks -> Task]
  <2> SUFFICES ASSUME NEW t \in Tasks
               PROVE [Queued(f[t], 0) EXCEPT !.pc = "idle"] \in Task
    BY <1>1
  <2>1. Queued(f[t], 0) \in Task
    BY QueuedType, SyncAssumption
  <2>2. QED
    BY <2>1 DEF Task, PCs
<1>4. TypeOK
  BY <1>3, SyncAssumption DEF Init, TypeOK, Times, Statuses, History!Row, History!Snapshot
<1>5. DatabaseInv
  BY DEF Init, DatabaseInv, RowHasSnapshot, SnapshotsHaveRow, SnapshotsKeyed, IdsDistinct,
         AnnouncedAfterCommit, VideosBelongToSnapshot, NoDataAfterRevocation, ActiveUntilNow
<1>6. TaskInv
  BY <1>2 DEF Init, TaskInv, TransactionsIsolated, SavedStays, SavedWhenCommitted,
              TokensWereActive, Queued
<1>7. QED
  BY <1>4, <1>5, <1>6 DEF SyncInv

(* Updates of a task record stay task records. *)
LEMMA TaskUpdates ==
  ASSUME NEW r \in Task
  PROVE  /\ \A p \in PCs : [r EXCEPT !.pc = p] \in Task
         /\ \A p \in PCs, x \in Times : [r EXCEPT !.pc = p, !.at = x] \in Task
         /\ \A p \in PCs, x \in {"none", "db", "env"} : [r EXCEPT !.pc = p, !.token = x] \in Task
         /\ \A p \in PCs, x \in Counts, st \in Statuses :
              [r EXCEPT !.pc = p, !.followers = x, !.status = st] \in Task
         /\ \A p \in PCs, i \in Ids : [r EXCEPT !.pc = p, !.id = i] \in Task
         /\ \A p \in PCs, b \in BOOLEAN : [r EXCEPT !.pc = p, !.saved = b] \in Task
<1>1. \A p \in PCs : [r EXCEPT !.pc = p] \in Task
  BY DEF Task
<1>2. \A p \in PCs, x \in Times : [r EXCEPT !.pc = p, !.at = x] \in Task
  BY DEF Task
<1>3. \A p \in PCs, x \in {"none", "db", "env"} : [r EXCEPT !.pc = p, !.token = x] \in Task
  BY DEF Task
<1>4. \A p \in PCs, x \in Counts, st \in Statuses :
        [r EXCEPT !.pc = p, !.followers = x, !.status = st] \in Task
  BY DEF Task
<1>5. \A p \in PCs, i \in Ids : [r EXCEPT !.pc = p, !.id = i] \in Task
  BY DEF Task
<1>6. \A p \in PCs, b \in BOOLEAN : [r EXCEPT !.pc = p, !.saved = b] \in Task
  BY DEF Task
<1>7. QED
  BY <1>1, <1>2, <1>3, <1>4, <1>5, <1>6

LEMMA ReturnType ==
  ASSUME NEW r \in Task, NEW res \in {"ok", "not_found", "permanent", "no_credentials",
                                     "exhausted", "error", "lost"}
  PROVE  [r EXCEPT !.pc = "acking", !.result = res] \in Task
  BY DEF Task, PCs

(* What SyncInv says of one execution. *)
LEMMA OneTask ==
  ASSUME SyncInv, NEW t \in Tasks
  PROVE  /\ task[t] \in Task
         /\ clock \in Times
         /\ crashes \in 0 .. MaxCrashes
         /\ task[t].pc \in {"persisted", "committed"} \/ task[t].result = "ok" => task[t].saved
         /\ task[t].at <= clock
         /\ task[t].token = "db" => task[t].at <= activeUntil[task[t].subj]
         /\ task[t].token = "env" => PlatformOf[task[t].subj] \in EnvCredential
         /\ task[t].pc \in {"fetched", "upserted"} =>
              task[t].token # "none" /\ task[t].followers \in Counts
         /\ task[t].pc \in {"idle", "queued", "begun"} => task[t].token = "none"
         /\ task[t].pc \in {"idle", "queued", "begun", "ready", "fetched", "upserted"} =>
              ~task[t].saved
  BY DEF SyncInv, TypeOK, TaskInv, SavedWhenCommitted, TokensWereActive

(* The steps of an execution that touch nothing else. *)
LEMMA RequestStep ==
  ASSUME SyncInv, NEW t \in Tasks, TriggerSync(t) \/ RunDirectly(t)
  PROVE  SyncInv'
<1> DEFINE r == [task[t] EXCEPT !.pc = "queued"]
<1>1. r \in Task
  BY OneTask, TaskUpdates DEF PCs
<1>2. Quiet(t, r)
  BY OneTask DEF Quiet, Task, TriggerSync, RunDirectly
<1>3. Become(t, r) /\ UNCHANGED <<clock, database, alerting, overlap>> /\ crashes' \in 0 .. MaxCrashes
  BY OneTask DEF TriggerSync, RunDirectly
<1>4. QED
  BY <1>1, <1>2, <1>3, QuietStep

LEMMA BeginStep ==
  ASSUME SyncInv, NEW t \in Tasks, Begin(t)
  PROVE  SyncInv'
<1> DEFINE r == [task[t] EXCEPT !.pc = "begun", !.at = clock]
<1>1. r \in Task
  BY OneTask, TaskUpdates DEF PCs
<1>2. Quiet(t, r)
  BY OneTask, SyncAssumption DEF Quiet, Task, Begin, Times
<1>3. /\ Become(t, r) /\ UNCHANGED <<clock, database, alerting, contested>>
      /\ crashes' \in 0 .. MaxCrashes
  BY OneTask DEF Begin
<1>4. alone' \subseteq Tasks
  BY DEF Begin, SyncInv, TypeOK
<1>5. QED
  BY <1>1, <1>2, <1>3, <1>4, QuietHistory

LEMMA LookupStep ==
  ASSUME SyncInv, NEW t \in Tasks, LookupCredential(t)
  PROVE  SyncInv'
<1> DEFINE r == [task[t] EXCEPT !.pc = "ready", !.token = TokenFor(task[t].subj)]
<1>1. r \in Task
  BY OneTask, TaskUpdates DEF PCs, TokenFor
<1>2. task[t].subj \in Subjects /\ ActiveUntilNow
  BY OneTask DEF Task, SyncInv, DatabaseInv
<1>3. Quiet(t, r)
  BY <1>2, OneTask DEF Quiet, Task, TokenFor, ActiveUntilNow, LookupCredential
<1>4. Become(t, r) /\ UNCHANGED <<clock, database, alerting, overlap>> /\ crashes' \in 0 .. MaxCrashes
  BY OneTask DEF LookupCredential
<1>5. QED
  BY <1>1, <1>3, <1>4, QuietStep

(* Every return: the result is not "ok", or the snapshot is saved. *)
LEMMA ReturnStep ==
  ASSUME SyncInv, NEW t \in Tasks,
         NEW res \in {"ok", "not_found", "permanent", "no_credentials", "exhausted",
                      "error", "lost"},
         Return(t, res), res = "ok" => task[t].saved,
         UNCHANGED <<clock, database, alerting, overlap, crashes>>
  PROVE  SyncInv'
<1> DEFINE r == [task[t] EXCEPT !.pc = "acking", !.result = res]
<1>1. r \in Task
  BY OneTask, ReturnType
<1>2. Quiet(t, r)
  BY OneTask DEF Quiet, Task
<1>3. Become(t, r) /\ crashes' \in 0 .. MaxCrashes
  BY OneTask DEF Return
<1>4. QED
  BY <1>1, <1>2, <1>3, QuietStep

(* A message that waits again knows nothing. *)
LEMMA QueuedQuiet ==
  ASSUME SyncInv, NEW t \in Tasks, NEW n \in 0 .. MaxRetries
  PROVE  Queued(task[t].subj, n) \in Task /\ Quiet(t, Queued(task[t].subj, n))
<1>1. task[t].subj \in Subjects /\ 0 <= clock
  BY OneTask, SyncAssumption DEF Task, Times
<1>2. QED
  BY <1>1, QueuedType, OneTask DEF Quiet, Queued

LEMMA FetchStep ==
  ASSUME SyncInv, NEW t \in Tasks, Fetch(t)
  PROVE  SyncInv'
<1>1. PICK n \in Counts, st \in Statuses :
        Become(t, [task[t] EXCEPT !.pc = "fetched", !.followers = n, !.status = st])
  BY DEF Fetch
<1> DEFINE r == [task[t] EXCEPT !.pc = "fetched", !.followers = n, !.status = st]
<1>2. r \in Task
  BY OneTask, TaskUpdates DEF PCs
<1>3. Quiet(t, r)
  BY OneTask DEF Quiet, Task, Fetch
<1>4. UNCHANGED <<clock, database, alerting, overlap>> /\ crashes' \in 0 .. MaxCrashes
  BY OneTask DEF Fetch
<1>5. QED
  BY <1>1, <1>2, <1>3, <1>4, QuietStep

(* The returns that leave everything else alone, and the retry. *)
LEMMA EndStep ==
  ASSUME SyncInv, NEW t \in Tasks,
         \/ DecryptFails(t) \/ NoCredential(t) \/ FetchRefused(t) \/ FetchTransient(t)
         \/ SyncVideosFails(t)
  PROVE  SyncInv'
<1>1. CASE DecryptFails(t)
  BY <1>1, ReturnStep DEF DecryptFails
<1>2. CASE NoCredential(t)
  BY <1>2, ReturnStep DEF NoCredential
<1>3. CASE FetchRefused(t)
  BY <1>3, ReturnStep DEF FetchRefused
<1>4. CASE FetchTransient(t)
  <2>1. CASE t \notin DirectTasks /\ task[t].tries < MaxRetries
    <3>1. task[t].tries + 1 \in 0 .. MaxRetries
      BY <2>1, OneTask, SyncAssumption DEF Task
    <3>2. /\ Become(t, Queued(task[t].subj, task[t].tries + 1))
          /\ UNCHANGED <<clock, database, alerting, overlap, crashes>>
      BY <1>4, <2>1 DEF FetchTransient
    <3>3. QED
      BY <3>1, <3>2, QueuedQuiet, QuietStep, OneTask
  <2>2. CASE ~(t \notin DirectTasks /\ task[t].tries < MaxRetries)
    BY <1>4, <2>2, ReturnStep DEF FetchTransient
  <2>3. QED
    BY <2>1, <2>2
<1>5. CASE SyncVideosFails(t)
  BY <1>5, ReturnStep DEF SyncVideosFails
<1>6. QED
  BY <1>1, <1>2, <1>3, <1>4, <1>5

LEMMA PersistFailsStep ==
  ASSUME SyncInv, NEW t \in Tasks, PersistFails(t)
  PROVE  SyncInv'
<1> DEFINE r == [task[t] EXCEPT !.pc = "acking", !.result = "error", !.id = NoId]
<1>1. task[t] \in Task
  BY OneTask
<1>2. r \in Task
  BY <1>1 DEF Task, PCs
<1>3. Quiet(t, r)
  BY OneTask DEF Quiet, Task, PersistFails
<1>4. Become(t, r) /\ UNCHANGED <<clock, database, alerting, overlap>> /\ crashes' \in 0 .. MaxCrashes
  BY OneTask DEF PersistFails
<1>5. QED
  BY <1>2, <1>3, <1>4, QuietStep

LEMMA AcknowledgeStep ==
  ASSUME SyncInv, NEW t \in Tasks, Acknowledge(t)
  PROVE  SyncInv'
<1> DEFINE r == [task[t] EXCEPT !.pc = "done"]
<1>1. r \in Task
  BY OneTask, TaskUpdates DEF PCs
<1>2. Quiet(t, r)
  BY OneTask DEF Quiet, Task, Acknowledge
<1>3. Become(t, r) /\ UNCHANGED <<clock, database, alerting, overlap>> /\ crashes' \in 0 .. MaxCrashes
  BY OneTask DEF Acknowledge
<1>4. QED
  BY <1>1, <1>2, <1>3, QuietStep

LEMMA CrashStep ==
  ASSUME SyncInv, NEW t \in Tasks, Crash(t)
  PROVE  SyncInv'
<1>1. UNCHANGED <<clock, database, alerting, overlap>> /\ crashes' \in 0 .. MaxCrashes
  BY OneTask, SyncAssumption DEF Crash
<1>2. CASE t \in DirectTasks
  <2> DEFINE r == [Queued(task[t].subj, 0) EXCEPT !.pc = "done", !.result = "lost"]
  <2>1. Queued(task[t].subj, 0) \in Task /\ Quiet(t, Queued(task[t].subj, 0))
    BY QueuedQuiet, SyncAssumption
  <2>2. r \in Task
    BY <2>1 DEF Task, PCs
  <2>3. Quiet(t, r)
    BY <2>1 DEF Quiet, Queued
  <2>4. Become(t, r)
    BY <1>2 DEF Crash
  <2>5. QED
    BY <1>1, <2>2, <2>3, <2>4, QuietStep
<1>3. CASE t \notin DirectTasks
  <2>1. task[t].tries \in 0 .. MaxRetries
    BY OneTask DEF Task
  <2>2. Become(t, Queued(task[t].subj, task[t].tries))
    BY <1>3 DEF Crash
  <2>3. QED
    BY <1>1, <2>1, <2>2, QueuedQuiet, QuietStep
<1>4. QED
  BY <1>2, <1>3

-----------------------------------------------------------------------------
(* The transaction. *)

(* After the upsert the transaction holds the row's lock and an id that no   *)
(* other row and no other transaction has.                                   *)
LEMMA UpsertStep ==
  ASSUME SyncInv, NEW t \in Tasks, UpsertSubject(t)
  PROVE  SyncInv'
<1> DEFINE s == task[t].subj
<1>1. PICK i \in Ids :
        /\ IF row[s] = NoRow THEN Fresh(i) ELSE i = row[s].id
        /\ Become(t, [task[t] EXCEPT !.pc = "upserted", !.id = i])
  BY DEF UpsertSubject
<1>2. PICK r \in Task : r = [task[t] EXCEPT !.pc = "upserted", !.id = i]
  BY OneTask, TaskUpdates DEF PCs
<1>3. /\ task' \in [Tasks -> Task]
      /\ task'[t] = r
      /\ \A u \in Tasks : u # t => task'[u] = task[u]
  BY <1>1, <1>2, BecomeFrame DEF SyncInv, TypeOK
<1>4. UNCHANGED <<clock, database, alerting, overlap, crashes>> /\ task[t].pc = "fetched" /\ ~Locked(s)
  BY DEF UpsertSubject
<1>5. r.pc = "upserted" /\ r.id = i /\ r.subj = s
      /\ r.token = task[t].token /\ r.at = task[t].at /\ r.result = task[t].result
      /\ r.followers = task[t].followers
  BY <1>2, OneTask DEF Task
<1>6. /\ ~r.saved /\ task[t].result # "ok" /\ task[t].at <= clock
      /\ task[t].token = "db" => task[t].at <= activeUntil[s]
      /\ task[t].token = "env" => PlatformOf[s] \in EnvCredential
      /\ task[t].token # "none" /\ task[t].followers \in Counts
  BY <1>2, <1>4, OneTask DEF Task
<1>7. TypeOK'
  BY <1>3, <1>4 DEF SyncInv, TypeOK, database, alerting, overlap, History!Row, History!Snapshot
<1>8. DatabaseInv'
  BY <1>4 DEF SyncInv, DatabaseInv, database, alerting, RowHasSnapshot, SnapshotsHaveRow,
         SnapshotsKeyed, IdsDistinct, AnnouncedAfterCommit, VideosBelongToSnapshot,
         NoDataAfterRevocation, ActiveUntilNow, History!RowIds, History!HasSnapshot
<1>9. TransactionsIsolated'
  <2>1. IF row[s] = NoRow THEN i \notin History!RowIds ELSE i = row[s].id
    BY <1>1 DEF Fresh
  <2>2. \A u \in Tasks : u # t /\ task[u].pc = "upserted" => task[u].subj # s
    BY <1>4 DEF Locked
  <2>3. ASSUME NEW u \in Tasks, u # t, task[u].pc = "upserted"
        PROVE  task[u].id # i
    <3>1. CASE row[s] = NoRow
      BY <1>1, <3>1 DEF Fresh
    <3>2. CASE row[s] # NoRow
      <4>1. i = row[s].id /\ i \in History!RowIds
        BY <2>1, <3>2, OneTask DEF History!RowIds, Task
      <4>2. CASE row[task[u].subj] = NoRow
        BY <2>3, <4>1, <4>2 DEF SyncInv, TaskInv, TransactionsIsolated
      <4>3. CASE row[task[u].subj] # NoRow
        BY <2>2, <2>3, <3>2, <4>1, <4>3, OneTask
        DEF SyncInv, TaskInv, TransactionsIsolated, DatabaseInv, IdsDistinct, Task
      <4>4. QED
        BY <4>2, <4>3
    <3>3. QED
      BY <3>1, <3>2
  <2>4. History!RowIds' = History!RowIds /\ row' = row
    BY <1>4 DEF database, History!RowIds
  <2>5. SUFFICES ASSUME NEW u \in Tasks, task'[u].pc = "upserted"
                 PROVE  /\ task'[u].id \in Ids
                        /\ IF row[task'[u].subj] = NoRow
                             THEN task'[u].id \notin History!RowIds
                             ELSE task'[u].id = row[task'[u].subj].id
                        /\ \A v \in Tasks : v # u /\ task'[v].pc = "upserted" =>
                             task'[v].subj # task'[u].subj /\ task'[v].id # task'[u].id
    BY <2>4 DEF TransactionsIsolated
  <2>6. CASE u = t
    <3>1. task'[u].subj = s /\ task'[u].id = i
      BY <1>3, <1>5, <2>6
    <3>2. ASSUME NEW v \in Tasks, v # u, task'[v].pc = "upserted"
          PROVE  task'[v].subj # s /\ task'[v].id # i
      <4>1. task'[v] = task[v]
        BY <1>3, <2>6, <3>2
      <4>2. QED
        BY <2>2, <2>3, <2>6, <3>2, <4>1
    <3>3. QED
      BY <2>1, <3>1, <3>2
  <2>7. CASE u # t
    <3>1. task'[u] = task[u] /\ task[u].pc = "upserted"
      BY <1>3, <2>5, <2>7
    <3>2. /\ task[u].id \in Ids
          /\ IF row[task[u].subj] = NoRow
               THEN task[u].id \notin History!RowIds
               ELSE task[u].id = row[task[u].subj].id
          /\ \A v \in Tasks : v # u /\ task[v].pc = "upserted" =>
               task[v].subj # task[u].subj /\ task[v].id # task[u].id
      BY <3>1 DEF SyncInv, TaskInv, TransactionsIsolated
    <3>3. ASSUME NEW v \in Tasks, v # u, task'[v].pc = "upserted"
          PROVE  task'[v].subj # task[u].subj /\ task'[v].id # task[u].id
      <4>1. CASE v = t
        <5>1. task'[v].subj = s /\ task'[v].id = i
          BY <1>3, <1>5, <4>1
        <5>2. task[u].subj # s /\ task[u].id # i
          BY <2>2, <2>3, <2>7, <3>1
        <5>3. QED
          BY <5>1, <5>2
      <4>2. CASE v # t
        <5>1. task'[v] = task[v]
          BY <1>3, <4>2
        <5>2. QED
          BY <3>2, <3>3, <5>1
      <4>3. QED
        BY <4>1, <4>2
    <3>4. QED
      BY <3>1, <3>2, <3>3
  <2>8. QED
    BY <2>6, <2>7
<1>10. SavedStays'
  <2> SUFFICES ASSUME NEW u \in Tasks, task'[u].saved
               PROVE  /\ SnapshotOf(u)' \in snapshots
                      /\ row[task'[u].subj] # NoRow
                      /\ row[task'[u].subj].id = task'[u].id
    BY <1>4 DEF SavedStays, database
  <2>1. u # t
    BY <1>3, <1>5, <1>6
  <2>2. task'[u] = task[u]
    BY <1>3, <2>1
  <2>3. /\ SnapshotOf(u) \in snapshots
        /\ row[task[u].subj] # NoRow
        /\ row[task[u].subj].id = task[u].id
    BY <2>2 DEF SyncInv, TaskInv, SavedStays
  <2>4. QED
    BY <2>2, <2>3 DEF SnapshotOf
<1>11. SavedWhenCommitted'
  <2> SUFFICES ASSUME NEW u \in Tasks
               PROVE  /\ task'[u].pc \in {"persisted", "committed"} \/ task'[u].result = "ok"
                           => task'[u].saved
                      /\ task'[u].pc \in {"idle", "queued", "begun", "ready", "fetched", "upserted"}
                           => ~task'[u].saved
    BY DEF SavedWhenCommitted
  <2>1. CASE u = t
    BY <1>3, <1>5, <1>6, <2>1
  <2>2. CASE u # t
    <3>1. task'[u] = task[u]
      BY <1>3, <2>2
    <3>2. QED
      BY <3>1, OneTask
  <2>3. QED
    BY <2>1, <2>2
<1>12. TokensWereActive'
  <2>1. clock' = clock /\ activeUntil' = activeUntil
    BY <1>4 DEF database
  <2> SUFFICES ASSUME NEW u \in Tasks
               PROVE  /\ task'[u].at <= clock
                      /\ task'[u].token = "db" => task'[u].at <= activeUntil[task'[u].subj]
                      /\ task'[u].token = "env" => PlatformOf[task'[u].subj] \in EnvCredential
                      /\ task'[u].pc \in {"fetched", "upserted"} =>
                           task'[u].token # "none" /\ task'[u].followers \in Counts
                      /\ task'[u].pc \in {"idle", "queued", "begun"} => task'[u].token = "none"
    BY <2>1 DEF TokensWereActive
  <2>2. CASE u = t
    BY <1>3, <1>5, <1>6, <2>2
  <2>3. CASE u # t
    <3>1. task'[u] = task[u]
      BY <1>3, <2>3
    <3>2. QED
      BY <3>1, OneTask
  <2>4. QED
    BY <2>2, <2>3
<1>13. QED
  BY <1>7, <1>8, <1>9, <1>10, <1>11, <1>12 DEF SyncInv, TaskInv

(* After the commit the row and the new snapshot say the same, under an id   *)
(* that no other row has, at an instant the history did not have.            *)
LEMMA AppendStep ==
  ASSUME SyncInv, NEW t \in Tasks, AppendSnapshot(t)
  PROVE  SyncInv'
<1> DEFINE s == task[t].subj
           i == task[t].id
           n == task[t].followers
           sn == SnapshotOf(t)
           new == RowOf(t)
           r == [task[t] EXCEPT
                   !.pc = IF PlatformOf[s] = "youtube" THEN "persisted" ELSE "committed",
                   !.saved = TRUE]
<1>1. /\ task[t].pc = "upserted"
      /\ ~History!HasSnapshot(i, task[t].at)
      /\ row' = [row EXCEPT ![s] = new]
      /\ status' = [status EXCEPT ![s] = task[t].status]
      /\ snapshots' = snapshots \cup {sn}
      /\ unannounced' = unannounced \cup {s}
      /\ contested' \subseteq contested \cup {s}
      /\ Become(t, r)
      /\ UNCHANGED <<clock, cred, videosAt, activeUntil, announced, alone, crashes>>
  BY DEF AppendSnapshot, Commit
<1>2. /\ task[t] \in Task /\ s \in Subjects /\ n \in Counts /\ task[t].at \in Times
      /\ task[t].status \in Statuses /\ task[t].token # "none"
      /\ task[t].token \in {"none", "db", "env"} /\ ~task[t].saved
  BY <1>1, OneTask DEF Task
<1>3. r \in Task
  BY <1>2, TaskUpdates DEF PCs
<1>4. /\ task' \in [Tasks -> Task]
      /\ task'[t] = r
      /\ \A u \in Tasks : u # t => task'[u] = task[u]
  BY <1>1, <1>3, BecomeFrame DEF SyncInv, TypeOK
<1>5. /\ r.pc \in {"persisted", "committed"} /\ r.subj = s /\ r.id = i /\ r.saved = TRUE
      /\ r.token = task[t].token /\ r.at = task[t].at /\ r.followers = n
  BY <1>2 DEF Task
<1>6. /\ i \in Ids
      /\ row[s] = NoRow => i \notin History!RowIds
      /\ row[s] # NoRow => i = row[s].id
  BY <1>1 DEF SyncInv, TaskInv, TransactionsIsolated
<1>7. /\ sn = [id |-> i, at |-> task[t].at, followers |-> n]
      /\ sn.id = i /\ sn.at = task[t].at /\ sn.followers = n
      /\ new.id = i /\ new.at = task[t].at /\ new.followers = n /\ new.pending = FALSE
      /\ new \in History!Row /\ sn \in History!Snapshot
  BY <1>2, <1>6 DEF SnapshotOf, RowOf, History!Row, History!Snapshot
<1>8. new # NoRow
  BY <1>2, <1>6, SyncAssumption DEF RowOf
<1>9. /\ row \in [Subjects -> History!Row \cup {NoRow}]
      /\ row'[s] = new
      /\ \A x \in Subjects : x # s => row'[x] = row[x]
  BY <1>1, <1>2 DEF SyncInv, TypeOK
(* No other row has the id, and no row loses its id. *)
<1>10. \A x \in Subjects : x # s /\ row[x] # NoRow => row[x].id # i
  BY <1>2, <1>6 DEF SyncInv, DatabaseInv, IdsDistinct, History!RowIds
<1>11. \A x \in Subjects : row[x] # NoRow => row'[x] # NoRow /\ row'[x].id = row[x].id
  BY <1>6, <1>7, <1>8, <1>9
<1>12. History!RowIds' = History!RowIds \cup {i}
  <2>1. History!RowIds \subseteq History!RowIds'
    BY <1>11 DEF History!RowIds
  <2>2. i \in History!RowIds'
    BY <1>2, <1>7, <1>8, <1>9 DEF History!RowIds
  <2>3. History!RowIds' \subseteq History!RowIds \cup {i}
    BY <1>7, <1>9 DEF History!RowIds
  <2>4. QED
    BY <2>1, <2>2, <2>3
<1>13. TypeOK'
  <2>1. row' \in [Subjects -> History!Row \cup {NoRow}]
    BY <1>1, <1>2, <1>7, <1>9
  <2>2. status' \in [Subjects -> Statuses]
    BY <1>1, <1>2 DEF SyncInv, TypeOK
  <2>3. /\ snapshots' \subseteq History!Snapshot /\ unannounced' \subseteq Subjects
        /\ contested' \subseteq Subjects
    BY <1>1, <1>2, <1>7 DEF SyncInv, TypeOK
  <2>4. QED
    BY <1>1, <1>4, <2>1, <2>2, <2>3 DEF SyncInv, TypeOK, History!Row, History!Snapshot
<1>14. RowHasSnapshot'
  BY <1>1, <1>2, <1>7, <1>8, <1>9 DEF SyncInv, DatabaseInv, RowHasSnapshot
<1>15. SnapshotsHaveRow'
  BY <1>1, <1>7, <1>12 DEF SyncInv, DatabaseInv, SnapshotsHaveRow
<1>16. SnapshotsKeyed'
  BY <1>1, <1>7 DEF SyncInv, DatabaseInv, SnapshotsKeyed, History!HasSnapshot
<1>17. IdsDistinct'
  BY <1>7, <1>9, <1>10 DEF SyncInv, DatabaseInv, IdsDistinct
<1>18. AnnouncedAfterCommit'
  BY <1>1 DEF SyncInv, DatabaseInv, AnnouncedAfterCommit
<1>19. VideosBelongToSnapshot'
  BY <1>1, <1>11 DEF SyncInv, DatabaseInv, VideosBelongToSnapshot, History!HasSnapshot
<1>20. NoDataAfterRevocation'
  <2> SUFFICES ASSUME NEW x \in Subjects, row'[x] # NoRow,
                      PlatformOf[x] \notin EnvCredential,
                      NEW b \in snapshots', b.id = row'[x].id
               PROVE  b.at <= activeUntil[x]
    BY <1>1 DEF NoDataAfterRevocation
  <2>1. CASE b = sn
    <3>1. x = s
      BY <1>7, <1>9, <1>10, <2>1
    <3>2. task[t].token = "db"
      BY <1>2, <3>1, OneTask
    <3>3. QED
      BY <1>7, <2>1, <3>1, <3>2, OneTask
  <2>2. CASE b \in snapshots /\ row[x] # NoRow
    BY <1>11, <2>2 DEF SyncInv, DatabaseInv, NoDataAfterRevocation
  <2>3. CASE b \in snapshots /\ row[x] = NoRow
    <3>1. x = s /\ b.id = i
      BY <1>7, <1>9, <2>3
    <3>2. b.id \in History!RowIds
      BY <2>3 DEF SyncInv, DatabaseInv, SnapshotsHaveRow
    <3>3. QED
      BY <1>6, <2>3, <3>1, <3>2
  <2>4. QED
    BY <1>1, <2>1, <2>2, <2>3
<1>21. ActiveUntilNow'
  BY <1>1 DEF SyncInv, DatabaseInv, ActiveUntilNow
<1>22. TransactionsIsolated'
  <2> SUFFICES ASSUME NEW u \in Tasks, task'[u].pc = "upserted"
               PROVE  /\ task'[u].id \in Ids
                      /\ IF row'[task'[u].subj] = NoRow
                           THEN task'[u].id \notin History!RowIds'
                           ELSE task'[u].id = row'[task'[u].subj].id
                      /\ \A v \in Tasks : v # u /\ task'[v].pc = "upserted" =>
                           task'[v].subj # task'[u].subj /\ task'[v].id # task'[u].id
    BY DEF TransactionsIsolated
  <2>1. u # t /\ task'[u] = task[u]
    BY <1>4, <1>5
  <2>2. /\ task[u].id \in Ids
        /\ IF row[task[u].subj] = NoRow
             THEN task[u].id \notin History!RowIds
             ELSE task[u].id = row[task[u].subj].id
        /\ \A v \in Tasks : v # u /\ task[v].pc = "upserted" =>
             task[v].subj # task[u].subj /\ task[v].id # task[u].id
    BY <2>1 DEF SyncInv, TaskInv, TransactionsIsolated
  <2>3. task[u].subj \in Subjects /\ task[u].subj # s /\ task[u].id # i
    BY <1>1, <2>1, <2>2, OneTask DEF Task
  <2>4. row'[task[u].subj] = row[task[u].subj]
    BY <1>9, <2>3
  <2>5. ASSUME NEW v \in Tasks, v # u, task'[v].pc = "upserted"
        PROVE  task'[v].subj # task[u].subj /\ task'[v].id # task[u].id
    <3>1. task'[v] = task[v]
      BY <1>4, <1>5, <2>5
    <3>2. QED
      BY <2>2, <2>5, <3>1
  <2>6. QED
    BY <1>12, <2>1, <2>2, <2>3, <2>4, <2>5
<1>23. SavedStays'
  <2> SUFFICES ASSUME NEW u \in Tasks, task'[u].saved
               PROVE  /\ SnapshotOf(u)' \in snapshots'
                      /\ row'[task'[u].subj] # NoRow
                      /\ row'[task'[u].subj].id = task'[u].id
    BY DEF SavedStays
  <2>1. CASE u = t
    <3>1. /\ task'[u].id = i /\ task'[u].at = task[t].at /\ task'[u].followers = n
          /\ task'[u].subj = s
      BY <1>4, <1>5, <2>1
    <3>2. SnapshotOf(u)' = sn
      BY <1>7, <3>1 DEF SnapshotOf
    <3>3. QED
      BY <1>1, <1>7, <1>8, <1>9, <3>1, <3>2
  <2>2. CASE u # t
    <3>1. task'[u] = task[u] /\ task[u].subj \in Subjects
      BY <1>4, <2>2, OneTask DEF Task
    <3>2. SnapshotOf(u) \in snapshots /\ row[task[u].subj] # NoRow
          /\ row[task[u].subj].id = task[u].id
      BY <3>1 DEF SyncInv, TaskInv, SavedStays
    <3>3. QED
      BY <1>1, <1>11, <3>1, <3>2 DEF SnapshotOf
  <2>3. QED
    BY <2>1, <2>2
<1>24. SavedWhenCommitted'
  BY <1>4, <1>5 DEF SyncInv, TaskInv, SavedWhenCommitted
<1>25. TokensWereActive'
  <2> SUFFICES ASSUME NEW u \in Tasks
               PROVE  /\ task'[u].at <= clock
                      /\ task'[u].token = "db" => task'[u].at <= activeUntil[task'[u].subj]
                      /\ task'[u].token = "env" => PlatformOf[task'[u].subj] \in EnvCredential
                      /\ task'[u].pc \in {"fetched", "upserted"} =>
                           task'[u].token # "none" /\ task'[u].followers \in Counts
                      /\ task'[u].pc \in {"idle", "queued", "begun"} => task'[u].token = "none"
    BY <1>1 DEF TokensWereActive
  <2>1. CASE u = t
    <3>1. /\ task'[u].pc \in {"persisted", "committed"} /\ task'[u].subj = s
          /\ task'[u].token = task[t].token /\ task'[u].at = task[t].at
      BY <1>4, <1>5, <2>1
    <3>2. QED
      BY <3>1, OneTask
  <2>2. CASE u # t
    BY <1>4, <2>2, OneTask
  <2>3. QED
    BY <2>1, <2>2
<1>26. DatabaseInv'
  BY <1>14, <1>15, <1>16, <1>17, <1>18, <1>19, <1>20, <1>21 DEF DatabaseInv
<1>27. QED
  BY <1>13, <1>22, <1>23, <1>24, <1>25, <1>26 DEF SyncInv, TaskInv

LEMMA VideosStep ==
  ASSUME SyncInv, NEW t \in Tasks, SyncVideos(t)
  PROVE  SyncInv'
<1> DEFINE r == [task[t] EXCEPT !.pc = "committed"]
           s == task[t].subj
<1>1. /\ task[t].pc = "persisted" /\ Become(t, r)
      /\ UNCHANGED <<clock, row, status, cred, snapshots, activeUntil, announced,
                     unannounced, alone, contested, crashes>>
  BY DEF SyncVideos, alerting, overlap
<1>2. r \in Task
  BY OneTask, TaskUpdates DEF PCs
<1>3. Quiet(t, r)
  BY <1>1, OneTask DEF Quiet, Task
<1>4. task' \in [Tasks -> Task] /\ TaskInv'
  BY <1>1, <1>2, <1>3, QuietTask
<1>5. task[t].at \in Times /\ s \in Subjects /\ task[t].saved
  BY <1>1, OneTask DEF Task
<1>6. PICK new \in SUBSET (videosAt[s] \cup {task[t].at}) :
        videosAt' = [videosAt EXCEPT ![s] = new]
  <2>1. videosAt \in [Subjects -> SUBSET Times]
    BY DEF SyncInv, TypeOK
  <2>2. CASE videosAt' = videosAt
    <3>1. videosAt' = [videosAt EXCEPT ![s] = videosAt[s]]
      BY <1>5, <2>1, <2>2
    <3>2. QED
      BY <3>1
  <2>3. CASE videosAt' # videosAt
    <3>1. PICK kept \in SUBSET videosAt[s] :
            videosAt' = [videosAt EXCEPT ![s] = kept \cup {task[t].at}]
      BY <2>3 DEF SyncVideos
    <3>2. kept \cup {task[t].at} \in SUBSET (videosAt[s] \cup {task[t].at})
      BY <3>1
    <3>3. QED
      BY <3>1, <3>2
  <2>4. QED
    BY <2>2, <2>3
<1>7. /\ videosAt' \in [Subjects -> SUBSET Times]
      /\ videosAt'[s] = new
      /\ \A x \in Subjects : x # s => videosAt'[x] = videosAt[x]
  BY <1>5, <1>6 DEF SyncInv, TypeOK
<1>8. TypeOK'
  BY <1>1, <1>4, <1>7 DEF SyncInv, TypeOK, History!Row, History!Snapshot
<1>9. /\ row[s] # NoRow /\ row[s].id = task[t].id
      /\ SnapshotOf(t) \in snapshots
      /\ SnapshotOf(t).id = task[t].id /\ SnapshotOf(t).at = task[t].at
  BY <1>5 DEF SyncInv, TaskInv, SavedStays, SnapshotOf
<1>10. History!HasSnapshot(row[s].id, task[t].at)
  BY <1>9 DEF History!HasSnapshot
<1>11. VideosBelongToSnapshot'
  <2> SUFFICES ASSUME NEW x \in Subjects, NEW when \in videosAt'[x]
               PROVE  row[x] # NoRow /\ History!HasSnapshot(row[x].id, when)
    BY <1>1 DEF VideosBelongToSnapshot, History!HasSnapshot
  <2>1. CASE when \in videosAt[x]
    BY <2>1 DEF SyncInv, DatabaseInv, VideosBelongToSnapshot
  <2>2. CASE when \notin videosAt[x]
    <3>1. x = s /\ when = task[t].at
      BY <1>6, <1>7, <2>2
    <3>2. QED
      BY <1>9, <1>10, <3>1
  <2>3. QED
    BY <2>1, <2>2
<1>12. DatabaseInv'
  BY <1>1, <1>11 DEF SyncInv, DatabaseInv, RowHasSnapshot, SnapshotsHaveRow,
         SnapshotsKeyed, IdsDistinct, AnnouncedAfterCommit,
         NoDataAfterRevocation, ActiveUntilNow, History!RowIds
<1>13. QED
  BY <1>4, <1>8, <1>12 DEF SyncInv

LEMMA AnnounceStep ==
  ASSUME SyncInv, NEW t \in Tasks, TriggerAlertEvaluation(t)
  PROVE  SyncInv'
<1> DEFINE r == [task[t] EXCEPT !.pc = "acking", !.result = "ok"]
<1>1. /\ task[t].pc = "committed" /\ Become(t, r)
      /\ UNCHANGED <<clock, row, status, cred, snapshots, videosAt, activeUntil, alone,
                     contested, crashes>>
      /\ announced' \subseteq announced \cup {task[t].id}
      /\ unannounced' \subseteq unannounced
  BY DEF TriggerAlertEvaluation, Return, database, alerting, overlap
<1>2. r \in Task
  BY OneTask, ReturnType
<1>3. task[t].saved
  BY <1>1, OneTask
<1>4. Quiet(t, r)
  BY <1>1, <1>3, OneTask DEF Quiet, Task
<1>5. task' \in [Tasks -> Task] /\ TaskInv'
  BY <1>1, <1>2, <1>4, QuietTask
<1>6. SnapshotOf(t) \in snapshots /\ SnapshotOf(t).id = task[t].id
  BY <1>3 DEF SyncInv, TaskInv, SavedStays, SnapshotOf
<1>7. task[t].id \in Ids
  BY <1>6 DEF SyncInv, TypeOK, History!Snapshot
<1>8. TypeOK'
  BY <1>1, <1>5, <1>7 DEF SyncInv, TypeOK, History!Row, History!Snapshot
<1>9. AnnouncedAfterCommit'
  BY <1>1, <1>6 DEF SyncInv, DatabaseInv, AnnouncedAfterCommit
<1>10. DatabaseInv'
  BY <1>1, <1>9 DEF SyncInv, DatabaseInv, RowHasSnapshot, SnapshotsHaveRow,
         SnapshotsKeyed, IdsDistinct, VideosBelongToSnapshot, NoDataAfterRevocation,
         ActiveUntilNow, History!RowIds, History!HasSnapshot
<1>11. QED
  BY <1>5, <1>8, <1>10 DEF SyncInv

-----------------------------------------------------------------------------
(* The admin API and the clock. *)

(* Time and credentials move on: what was active until now stays so. *)
LEMMA CredentialStep ==
  ASSUME SyncInv, UNCHANGED <<row, snapshots, videosAt, task, alerting, overlap, crashes>>,
         TypeOK', ActiveUntilNow', clock <= clock',
         \A s \in Subjects : activeUntil[s] <= activeUntil'[s]
  PROVE  SyncInv'
<1>1. \A s \in Subjects : activeUntil[s] \in Nat /\ activeUntil'[s] \in Nat
  BY SyncAssumption DEF SyncInv, TypeOK, Times
<1>2. \A sn \in snapshots : sn.at \in Nat
  BY SyncAssumption DEF SyncInv, TypeOK, Times, History!Snapshot
<1>3. \A t \in Tasks : task[t].at \in Nat /\ task[t].subj \in Subjects
  BY OneTask, SyncAssumption DEF Task, Times
<1>4. clock \in Nat /\ clock' \in Nat
  BY SyncAssumption DEF SyncInv, TypeOK, Times
<1>5. NoDataAfterRevocation'
  BY <1>1, <1>2 DEF SyncInv, DatabaseInv, NoDataAfterRevocation
<1>6. DatabaseInv'
  BY <1>5 DEF SyncInv, DatabaseInv, alerting, RowHasSnapshot, SnapshotsHaveRow,
         SnapshotsKeyed, IdsDistinct, AnnouncedAfterCommit, VideosBelongToSnapshot,
         History!RowIds, History!HasSnapshot
<1>7. TokensWereActive'
  BY <1>1, <1>3, <1>4 DEF SyncInv, TaskInv, TokensWereActive
<1>8. TaskInv'
  BY <1>7 DEF SyncInv, TaskInv, TransactionsIsolated, SavedStays, SavedWhenCommitted,
              SnapshotOf, History!RowIds
<1>9. QED
  BY <1>6, <1>8 DEF SyncInv

LEMMA RevokeStep ==
  ASSUME SyncInv, NEW s \in Subjects, RevokeCredential(s)
  PROVE  SyncInv'
<1>1. /\ UNCHANGED <<clock, row, snapshots, videosAt, activeUntil, task, alerting, overlap, crashes>>
      /\ cred' = [cred EXCEPT ![s] = "inactive"]
      /\ status' = [status EXCEPT ![s] = "inactive"]
  BY DEF RevokeCredential
<1>2. TypeOK'
  BY <1>1 DEF SyncInv, TypeOK, alerting, overlap, Statuses, History!Row, History!Snapshot
<1>3. ActiveUntilNow'
  BY <1>1 DEF SyncInv, TypeOK, DatabaseInv, ActiveUntilNow
<1>4. clock <= clock' /\ \A x \in Subjects : activeUntil[x] <= activeUntil'[x]
  BY <1>1, SyncAssumption DEF SyncInv, TypeOK, Times
<1>5. QED
  BY <1>1, <1>2, <1>3, <1>4, CredentialStep

LEMMA UpdateStep ==
  ASSUME SyncInv, NEW s \in Subjects, UpdateCredential(s)
  PROVE  SyncInv'
<1>1. /\ UNCHANGED <<clock, row, status, snapshots, videosAt, task, alerting, overlap, crashes>>
      /\ \/ cred' = [cred EXCEPT ![s] = "active"] /\ activeUntil' = [activeUntil EXCEPT ![s] = clock]
         \/ cred' = [cred EXCEPT ![s] = "inactive"] /\ activeUntil' = activeUntil
  BY DEF UpdateCredential
<1>2. TypeOK'
  BY <1>1 DEF SyncInv, TypeOK, alerting, overlap, Statuses, History!Row, History!Snapshot
<1>3. ActiveUntilNow'
  BY <1>1, SyncAssumption DEF SyncInv, TypeOK, DatabaseInv, ActiveUntilNow, Times
<1>4. clock <= clock' /\ \A x \in Subjects : activeUntil[x] <= activeUntil'[x]
  BY <1>1, SyncAssumption DEF SyncInv, TypeOK, DatabaseInv, ActiveUntilNow, Times
<1>5. QED
  BY <1>1, <1>2, <1>3, <1>4, CredentialStep

LEMMA TickStep ==
  ASSUME SyncInv, Tick
  PROVE  SyncInv'
<1>1. /\ UNCHANGED <<row, status, cred, snapshots, videosAt, task, alerting, overlap, crashes>>
      /\ clock < MaxTime /\ clock' = clock + 1
      /\ activeUntil' = [s \in Subjects |-> IF cred[s] = "active" THEN clock + 1 ELSE activeUntil[s]]
  BY DEF Tick
<1>2. clock \in Nat /\ clock' \in Times /\ \A s \in Subjects : activeUntil[s] \in Times
  BY <1>1, SyncAssumption DEF SyncInv, TypeOK, Times
<1>3. TypeOK'
  BY <1>1, <1>2 DEF SyncInv, TypeOK, alerting, overlap, Statuses, History!Row, History!Snapshot
<1>4. \A s \in Subjects : activeUntil[s] <= clock
  BY DEF SyncInv, DatabaseInv, ActiveUntilNow
<1>5. ActiveUntilNow'
  BY <1>1, <1>2, <1>4 DEF ActiveUntilNow, Times
<1>6. clock <= clock' /\ \A x \in Subjects : activeUntil[x] <= activeUntil'[x]
  BY <1>1, <1>2, <1>4 DEF Times
<1>7. QED
  BY <1>1, <1>3, <1>5, <1>6, CredentialStep

(* A placeholder row has an id that no snapshot, row or transaction has. *)
LEMMA PlaceholderStep ==
  ASSUME SyncInv, NEW s \in Subjects, NEW i \in Ids, row[s] = NoRow, ~Locked(s), Fresh(i),
         row' = [row EXCEPT ![s] = Placeholder(s, i)],
         UNCHANGED <<clock, snapshots, videosAt, task, alerting, overlap, crashes>>,
         TypeOK', ActiveUntilNow',
         \A x \in Subjects : activeUntil[x] <= activeUntil'[x]
  PROVE  SyncInv'
<1> DEFINE new == Placeholder(s, i)
<1>1. new.id = i /\ new.pending = TRUE /\ new # NoRow
  BY SyncAssumption DEF Placeholder, SyncInv, TypeOK
<1>2. /\ row'[s] = new
      /\ \A x \in Subjects : x # s => row'[x] = row[x]
  BY DEF SyncInv, TypeOK
<1>3. i \notin History!RowIds /\ \A t \in Tasks : task[t].id # i
  BY DEF Fresh
<1>4. \A x \in Subjects : row[x] # NoRow => row'[x] = row[x] /\ x # s /\ row[x].id # i
  BY <1>2, <1>3 DEF History!RowIds
<1>5. History!RowIds' = History!RowIds \cup {i}
  <2>1. History!RowIds \subseteq History!RowIds'
    BY <1>4 DEF History!RowIds
  <2>2. i \in History!RowIds'
    BY <1>1, <1>2 DEF History!RowIds
  <2>3. History!RowIds' \subseteq History!RowIds \cup {i}
    BY <1>1, <1>2 DEF History!RowIds
  <2>4. QED
    BY <2>1, <2>2, <2>3
<1>6. \A sn \in snapshots : sn.id # i
  BY <1>3 DEF SyncInv, DatabaseInv, SnapshotsHaveRow
<1>7. RowHasSnapshot'
  BY <1>1, <1>2 DEF SyncInv, DatabaseInv, RowHasSnapshot
<1>8. SnapshotsHaveRow'
  BY <1>5 DEF SyncInv, DatabaseInv, SnapshotsHaveRow
<1>9. IdsDistinct'
  BY <1>1, <1>2, <1>4 DEF SyncInv, DatabaseInv, IdsDistinct
<1>10. VideosBelongToSnapshot'
  BY <1>4 DEF SyncInv, DatabaseInv, VideosBelongToSnapshot, History!HasSnapshot
<1>11. NoDataAfterRevocation'
  <2> SUFFICES ASSUME NEW x \in Subjects, row'[x] # NoRow,
                      PlatformOf[x] \notin EnvCredential,
                      NEW sn \in snapshots, sn.id = row'[x].id
               PROVE  sn.at <= activeUntil'[x]
    BY DEF NoDataAfterRevocation
  <2>1. x # s /\ row[x] # NoRow /\ row[x] = row'[x]
    BY <1>1, <1>2, <1>6
  <2>2. sn.at <= activeUntil[x]
    BY <2>1 DEF SyncInv, DatabaseInv, NoDataAfterRevocation
  <2>3. sn.at \in Nat /\ activeUntil[x] \in Nat /\ activeUntil'[x] \in Nat
    BY SyncAssumption DEF SyncInv, TypeOK, Times, History!Snapshot
  <2>4. QED
    BY <2>2, <2>3
<1>12. DatabaseInv'
  BY <1>7, <1>8, <1>9, <1>10, <1>11
  DEF SyncInv, DatabaseInv, alerting, SnapshotsKeyed, AnnouncedAfterCommit
<1>13. TransactionsIsolated'
  <2> SUFFICES ASSUME NEW u \in Tasks, task[u].pc = "upserted"
               PROVE  /\ task[u].id \in Ids
                      /\ IF row'[task[u].subj] = NoRow
                           THEN task[u].id \notin History!RowIds'
                           ELSE task[u].id = row'[task[u].subj].id
                      /\ \A v \in Tasks : v # u /\ task[v].pc = "upserted" =>
                           task[v].subj # task[u].subj /\ task[v].id # task[u].id
    BY DEF TransactionsIsolated
  <2>1. /\ task[u].id \in Ids
        /\ IF row[task[u].subj] = NoRow
             THEN task[u].id \notin History!RowIds
             ELSE task[u].id = row[task[u].subj].id
        /\ \A v \in Tasks : v # u /\ task[v].pc = "upserted" =>
             task[v].subj # task[u].subj /\ task[v].id # task[u].id
    BY DEF SyncInv, TaskInv, TransactionsIsolated
  <2>2. task[u].subj \in Subjects /\ task[u].subj # s
    BY OneTask DEF Locked, Task
  <2>3. row'[task[u].subj] = row[task[u].subj]
    BY <1>2, <2>2
  <2>4. QED
    BY <1>3, <1>5, <2>1, <2>3
<1>14. SavedStays'
  <2> SUFFICES ASSUME NEW u \in Tasks, task[u].saved
               PROVE  /\ SnapshotOf(u) \in snapshots
                      /\ row'[task[u].subj] # NoRow
                      /\ row'[task[u].subj].id = task[u].id
    BY DEF SavedStays, SnapshotOf
  <2>1. task[u].subj \in Subjects
    BY OneTask DEF Task
  <2>2. QED
    BY <1>4, <2>1 DEF SyncInv, TaskInv, SavedStays
<1>15. TokensWereActive'
  <2>1. \A t \in Tasks : task[t].at \in Nat /\ task[t].subj \in Subjects
    BY OneTask, SyncAssumption DEF Task, Times
  <2>2. \A x \in Subjects : activeUntil[x] \in Nat /\ activeUntil'[x] \in Nat
    BY SyncAssumption DEF SyncInv, TypeOK, Times
  <2>3. QED
    BY <2>1, <2>2 DEF SyncInv, TaskInv, TokensWereActive
<1>16. SavedWhenCommitted'
  BY DEF SyncInv, TaskInv, SavedWhenCommitted
<1>17. QED
  BY <1>12, <1>13, <1>14, <1>15, <1>16 DEF SyncInv, TaskInv

LEMMA CreateStep ==
  ASSUME SyncInv, NEW s \in Subjects, CreateCredential(s) \/ SeedSubject(s)
  PROVE  SyncInv'
<1>1. PICK i \in Ids : Fresh(i) /\ row' = [row EXCEPT ![s] = Placeholder(s, i)]
  BY DEF CreateCredential, SeedSubject
<1>2. /\ row[s] = NoRow /\ ~Locked(s)
      /\ UNCHANGED <<clock, snapshots, videosAt, task, alerting, overlap, crashes>>
      /\ status' = [status EXCEPT ![s] = "inactive"]
      /\ \/ cred' = [cred EXCEPT ![s] = "active"] /\ activeUntil' = [activeUntil EXCEPT ![s] = clock]
         \/ cred' = cred /\ activeUntil' = activeUntil
  BY DEF CreateCredential, SeedSubject
<1>3. Placeholder(s, i) \in History!Row
  BY DEF Placeholder, History!Row, SyncInv, TypeOK
<1>4. /\ cred' \in [Subjects -> {"none", "active", "inactive"}]
      /\ activeUntil' \in [Subjects -> Times]
      /\ status' \in [Subjects -> Statuses]
      /\ row' \in [Subjects -> History!Row \cup {NoRow}]
  BY <1>1, <1>2, <1>3 DEF SyncInv, TypeOK, Statuses
<1>5. TypeOK'
  BY <1>2, <1>4 DEF SyncInv, TypeOK, alerting, overlap, History!Row, History!Snapshot
<1>6. ActiveUntilNow' /\ \A x \in Subjects : activeUntil[x] <= activeUntil'[x]
  BY <1>2, SyncAssumption DEF SyncInv, TypeOK, DatabaseInv, ActiveUntilNow, Times
<1>7. QED
  BY <1>1, <1>2, <1>5, <1>6, PlaceholderStep

-----------------------------------------------------------------------------
(* The theorems. *)

LEMMA NextSyncInv == SyncInv /\ [Next]_vars => SyncInv'
<1> SUFFICES ASSUME SyncInv, [Next]_vars PROVE SyncInv'
  OBVIOUS
<1>1. ASSUME NEW t \in Tasks, TriggerSync(t) \/ RunDirectly(t) PROVE SyncInv'
  BY <1>1, RequestStep
<1>2. ASSUME NEW t \in Tasks, Step(t) PROVE SyncInv'
  BY <1>2, BeginStep, LookupStep, EndStep, FetchStep, UpsertStep, AppendStep,
     PersistFailsStep, VideosStep, AnnounceStep, AcknowledgeStep DEF Step
<1>3. ASSUME NEW t \in Tasks, Crash(t) PROVE SyncInv'
  BY <1>3, CrashStep
<1>4. ASSUME NEW s \in Subjects, Admin(s) PROVE SyncInv'
  BY <1>4, CreateStep, RevokeStep, UpdateStep DEF Admin
<1>5. CASE Tick
  BY <1>5, TickStep
<1>6. CASE UNCHANGED vars
  BY <1>6 DEF vars, SyncInv, TypeOK, DatabaseInv, TaskInv, RowHasSnapshot,
     SnapshotsHaveRow, SnapshotsKeyed, IdsDistinct, AnnouncedAfterCommit,
     VideosBelongToSnapshot, NoDataAfterRevocation, ActiveUntilNow, TransactionsIsolated,
     SavedStays, SavedWhenCommitted, TokensWereActive, SnapshotOf, History!RowIds,
     History!HasSnapshot, History!Row, History!Snapshot
<1>7. QED
  BY <1>1, <1>2, <1>3, <1>4, <1>5, <1>6 DEF Next

(* SyncInv always holds. *)
THEOREM SyncInvariant == Spec => []SyncInv
<1>1. Init => SyncInv
  BY InitSyncInv
<1>2. SyncInv /\ [Next]_vars => SyncInv'
  BY NextSyncInv
<1>3. QED
  BY <1>1, <1>2, PTL DEF Spec

(* Every variable keeps its type, and the task's counters their bounds. *)
THEOREM TypeCorrect == Spec => []TypeOK
<1>1. SyncInv => TypeOK
  BY DEF SyncInv
<1>2. QED
  BY <1>1, SyncInvariant, PTL

(* The row shows what one of its snapshots holds: upsert_subject and          *)
(* append_snapshot are one transaction, whatever overlaps or fails.          *)
THEOREM RowsFromSnapshots == Spec => []RowHasSnapshot
<1>1. SyncInv => RowHasSnapshot
  BY DEF SyncInv, DatabaseInv
<1>2. QED
  BY <1>1, SyncInvariant, PTL

(* No snapshot carries the id of an insert that lost the race for its row.   *)
THEOREM SnapshotsHaveTheirRow == Spec => []SnapshotsHaveRow
<1>1. SyncInv => SnapshotsHaveRow
  BY DEF SyncInv, DatabaseInv
<1>2. QED
  BY <1>1, SyncInvariant, PTL

(* Histories are keyed by instant and never mix two subjects. *)
THEOREM HistoriesSeparate == Spec => [](SnapshotsKeyed /\ IdsDistinct)
<1>1. SyncInv => SnapshotsKeyed /\ IdsDistinct
  BY DEF SyncInv, DatabaseInv
<1>2. QED
  BY <1>1, SyncInvariant, PTL

(* On a platform without a credential in the environment no snapshot is dated *)
(* after the last instant its subject's own credential was active: what begins *)
(* after a revocation records nothing.                                        *)
THEOREM RevocationStops == Spec => []NoDataAfterRevocation
<1>1. SyncInv => NoDataAfterRevocation
  BY DEF SyncInv, DatabaseInv
<1>2. QED
  BY <1>1, SyncInvariant, PTL

(* An evaluation is only requested for a subject with a committed snapshot.  *)
THEOREM DependentsFollow == Spec => []AnnouncedAfterCommit
<1>1. SyncInv => AnnouncedAfterCommit
  BY DEF SyncInv, DatabaseInv
<1>2. QED
  BY <1>1, SyncInvariant, PTL

(* The time of every stored video, of the last sync that listed it, is that   *)
(* of a committed snapshot of its subject.                                    *)
THEOREM VideosFollow == Spec => []VideosBelongToSnapshot
<1>1. SyncInv => VideosBelongToSnapshot
  BY DEF SyncInv, DatabaseInv
<1>2. QED
  BY <1>1, SyncInvariant, PTL

(* "ok" is returned only for what is in the database. *)
THEOREM OkIsDurable == Spec => []OkMeansPersisted
<1>1. SyncInv => OkMeansPersisted
  BY DEF SyncInv, TaskInv, SavedWhenCommitted, SavedStays, OkMeansPersisted
<1>2. QED
  BY <1>1, SyncInvariant, PTL

-----------------------------------------------------------------------------
(* SubjectSync implements SubjectHistory. *)

LEMMA PlaceholderRefines ==
  ASSUME SyncInv, NEW s \in Subjects, CreateCredential(s) \/ SeedSubject(s)
  PROVE  History!HistoryNext
<1>1. PICK i \in Ids : Fresh(i) /\ row' = [row EXCEPT ![s] = Placeholder(s, i)]
  BY DEF CreateCredential, SeedSubject
<1>2. row[s] = NoRow /\ snapshots' = snapshots /\ clock \in Times
  BY DEF CreateCredential, SeedSubject, SyncInv, TypeOK
<1>3. History!CreatePlaceholder(s, i, clock)
  BY <1>1, <1>2 DEF History!CreatePlaceholder, Placeholder, Fresh
<1>4. QED
  BY <1>2, <1>3 DEF History!HistoryNext

LEMMA AppendRefines ==
  ASSUME SyncInv, NEW t \in Tasks, AppendSnapshot(t)
  PROVE  History!HistoryNext
<1> DEFINE s == task[t].subj
           i == task[t].id
           n == task[t].followers
<1>1. /\ task[t].pc = "upserted"
      /\ ~History!HasSnapshot(i, task[t].at)
      /\ row' = [row EXCEPT ![s] = RowOf(t)]
      /\ snapshots' = snapshots \cup {SnapshotOf(t)}
  BY DEF AppendSnapshot, Commit
<1>2. /\ s \in Subjects /\ n \in Counts /\ task[t].at \in Times /\ i \in Ids
      /\ IF row[s] = NoRow THEN i \notin History!RowIds ELSE i = row[s].id
  BY <1>1, OneTask DEF Task, SyncInv, TaskInv, TransactionsIsolated
<1>3. History!RecordSync(s, i, task[t].at, n)
  BY <1>1, <1>2 DEF History!RecordSync, RowOf, SnapshotOf
<1>4. QED
  BY <1>2, <1>3 DEF History!HistoryNext

(* Only the commit of a sync and the placeholders touch rows and snapshots. *)
LEMMA NextRefines == SyncInv /\ [Next]_vars => [History!HistoryNext]_(History!historyVars)
<1> SUFFICES ASSUME SyncInv, [Next]_vars
             PROVE  History!HistoryNext \/ UNCHANGED <<row, snapshots>>
  BY DEF History!historyVars
<1>1. ASSUME NEW t \in Tasks, TriggerSync(t) \/ RunDirectly(t) \/ Crash(t)
      PROVE  UNCHANGED <<row, snapshots>>
  BY <1>1 DEF TriggerSync, RunDirectly, Crash, database
<1>2. ASSUME NEW t \in Tasks, Step(t)
      PROVE  History!HistoryNext \/ UNCHANGED <<row, snapshots>>
  <2>1. CASE AppendSnapshot(t)
    BY <2>1, AppendRefines
  <2>2. CASE ~AppendSnapshot(t)
    BY <1>2, <2>2 DEF Step, Begin, LookupCredential, DecryptFails, NoCredential, Fetch,
       FetchRefused, FetchTransient, UpsertSubject, PersistFails, SyncVideos,
       SyncVideosFails, TriggerAlertEvaluation, Acknowledge, database
  <2>3. QED
    BY <2>1, <2>2
<1>3. ASSUME NEW s \in Subjects, Admin(s)
      PROVE  History!HistoryNext \/ UNCHANGED <<row, snapshots>>
  <2>1. CASE CreateCredential(s) \/ SeedSubject(s)
    BY <2>1, PlaceholderRefines
  <2>2. CASE RevokeCredential(s) \/ UpdateCredential(s)
    BY <2>2 DEF RevokeCredential, UpdateCredential
  <2>3. QED
    BY <1>3, <2>1, <2>2 DEF Admin
<1>4. CASE Tick
  BY <1>4 DEF Tick
<1>5. CASE UNCHANGED vars
  BY <1>5 DEF vars
<1>6. QED
  BY <1>1, <1>2, <1>3, <1>4, <1>5 DEF Next

(* The tables behave as SubjectHistory says, whatever the tasks do. *)
THEOREM HistoryImplemented == Spec => ImplementsHistory
<1>1. Init => History!HistoryInit
  BY DEF Init, History!HistoryInit
<1>2. SyncInv /\ [Next]_vars => [History!HistoryNext]_(History!historyVars)
  BY NextRefines
<1>3. QED
  BY <1>1, <1>2, SyncInvariant, PTL DEF Spec, ImplementsHistory, History!HistorySpec

(* An id, once given, stays: whoever writes the row, and a first sync that   *)
(* lost the race, uses the id the row has (the RETURNING of upsert_subject). *)
THEOREM IdsStay == Spec => IdStable
<1> DEFINE A == \A s \in Subjects :
                  row[s] # NoRow => row'[s] # NoRow /\ row'[s].id = row[s].id
<1>1. SyncInv /\ [Next]_vars => [A]_vars
  <2> SUFFICES ASSUME SyncInv, [Next]_vars, ~UNCHANGED <<row, snapshots>> PROVE A
    OBVIOUS
  <2>1. History!HistoryNext
    BY NextRefines DEF History!historyVars
  <2>2. ASSUME NEW s \in Subjects, NEW i \in Ids, NEW when \in Times,
               History!CreatePlaceholder(s, i, when)
        PROVE  A
    BY <2>2 DEF History!CreatePlaceholder, SyncInv, TypeOK
  <2>3. ASSUME NEW s \in Subjects, NEW i \in Ids, NEW when \in Times, NEW n \in Counts,
               History!RecordSync(s, i, when, n)
        PROVE  A
    <3> DEFINE new == [id |-> i, at |-> when, followers |-> n, pending |-> FALSE]
    <3>1. new # NoRow /\ new.id = i
      BY SyncAssumption
    <3>2. row' = [row EXCEPT ![s] = new] /\ (row[s] # NoRow => i = row[s].id)
      BY <2>3 DEF History!RecordSync
    <3>3. QED
      BY <3>1, <3>2 DEF SyncInv, TypeOK
  <2>4. QED
    BY <2>1, <2>2, <2>3 DEF History!HistoryNext
<1>2. QED
  BY <1>1, SyncInvariant, PTL DEF Spec, IdStable

(* Snapshots are never changed or removed. *)
THEOREM SnapshotsStay == Spec => AppendOnly
<1>1. SyncInv /\ [Next]_vars => [snapshots \subseteq snapshots']_vars
  <2> SUFFICES ASSUME SyncInv, [Next]_vars, ~UNCHANGED <<row, snapshots>>
               PROVE  snapshots \subseteq snapshots'
    OBVIOUS
  <2>1. History!HistoryNext
    BY NextRefines DEF History!historyVars
  <2>2. QED
    BY <2>1 DEF History!HistoryNext, History!CreatePlaceholder, History!RecordSync
<1>2. QED
  BY <1>1, SyncInvariant, PTL DEF Spec, AppendOnly

-----------------------------------------------------------------------------
(* Overlaps: an execution that has met no other of its subject began after   *)
(* every snapshot of the subject, so the row it writes shows the newest one. *)

(* Where a step of an execution leads: it ends its transaction or was not    *)
(* under way, starts, or goes on with the instant at which it started.       *)
Underway == {"begun", "ready", "fetched", "upserted"}

Onward(t, r) ==
  /\ r.subj = task[t].subj
  /\ \/ r.pc \notin Underway
     \/ Begin(t) /\ r.at = clock
     \/ task[t].pc \in Underway /\ r.at = task[t].at

(* Every step of an execution leads onward. *)
LEMMA RecordOnward ==
  ASSUME SyncInv, NEW t \in Tasks, TriggerSync(t) \/ RunDirectly(t) \/ Step(t) \/ Crash(t)
  PROVE  \E r : Become(t, r) /\ Onward(t, r)
<1>1. task[t] \in Task
  BY OneTask
<1>2. CASE TriggerSync(t) \/ RunDirectly(t)
  <2> DEFINE r == [task[t] EXCEPT !.pc = "queued"]
  <2>1. r.pc = "queued" /\ r.subj = task[t].subj /\ Become(t, r)
    BY <1>1, <1>2 DEF TriggerSync, RunDirectly, Task
  <2>2. QED
    BY <2>1 DEF Onward, Underway
<1>3. CASE Begin(t)
  <2> DEFINE r == [task[t] EXCEPT !.pc = "begun", !.at = clock]
  <2>1. r.at = clock /\ r.subj = task[t].subj /\ Become(t, r)
    BY <1>1, <1>3 DEF Begin, Task
  <2>2. QED
    BY <1>3, <2>1 DEF Onward
<1>4. CASE LookupCredential(t)
  <2> DEFINE r == [task[t] EXCEPT !.pc = "ready", !.token = TokenFor(task[t].subj)]
  <2>1. r.at = task[t].at /\ r.subj = task[t].subj /\ Become(t, r) /\ task[t].pc = "begun"
    BY <1>1, <1>4 DEF LookupCredential, Task
  <2>2. QED
    BY <2>1 DEF Onward, Underway
<1>5. CASE Fetch(t)
  <2>1. PICK n \in Counts, st \in Statuses :
          Become(t, [task[t] EXCEPT !.pc = "fetched", !.followers = n, !.status = st])
    BY <1>5 DEF Fetch
  <2> DEFINE r == [task[t] EXCEPT !.pc = "fetched", !.followers = n, !.status = st]
  <2>2. r.at = task[t].at /\ r.subj = task[t].subj /\ Become(t, r) /\ task[t].pc = "ready"
    BY <1>1, <1>5, <2>1 DEF Fetch, Task
  <2>3. QED
    BY <2>2 DEF Onward, Underway
<1>6. CASE UpsertSubject(t)
  <2>1. PICK i \in Ids : Become(t, [task[t] EXCEPT !.pc = "upserted", !.id = i])
    BY <1>6 DEF UpsertSubject
  <2> DEFINE r == [task[t] EXCEPT !.pc = "upserted", !.id = i]
  <2>2. r.at = task[t].at /\ r.subj = task[t].subj /\ Become(t, r) /\ task[t].pc = "fetched"
    BY <1>1, <1>6, <2>1 DEF UpsertSubject, Task
  <2>3. QED
    BY <2>2 DEF Onward, Underway
<1>7. ASSUME NEW res, Return(t, res)
      PROVE  \E r : Become(t, r) /\ Onward(t, r)
  <2> DEFINE r == [task[t] EXCEPT !.pc = "acking", !.result = res]
  <2>1. r.pc = "acking" /\ r.subj = task[t].subj /\ Become(t, r)
    BY <1>1, <1>7 DEF Return, Task
  <2>2. QED
    BY <2>1 DEF Onward, Underway
<1>8. CASE \/ DecryptFails(t) \/ NoCredential(t) \/ FetchRefused(t) \/ SyncVideosFails(t)
           \/ TriggerAlertEvaluation(t)
  BY <1>7, <1>8 DEF DecryptFails, NoCredential, FetchRefused, SyncVideosFails,
     TriggerAlertEvaluation
<1>9. CASE FetchTransient(t)
  <2> DEFINE r == Queued(task[t].subj, task[t].tries + 1)
  <2>1. task[t].pc = "ready" /\ (Become(t, r) \/ Return(t, "exhausted"))
    BY <1>9 DEF FetchTransient
  <2>2. r.pc = "queued" /\ r.subj = task[t].subj
    BY DEF Queued
  <2> HIDE DEF r
  <2>3. Onward(t, r)
    BY <2>2 DEF Onward, Underway
  <2>4. QED
    BY <1>7, <2>1, <2>3
<1>10. CASE AppendSnapshot(t)
  <2> DEFINE pc == IF PlatformOf[task[t].subj] = "youtube" THEN "persisted" ELSE "committed"
             r == [task[t] EXCEPT !.pc = pc, !.saved = TRUE]
  <2>1. task[t].pc = "upserted" /\ Become(t, r)
    BY <1>10 DEF AppendSnapshot, Commit
  <2>2. r.pc \in {"persisted", "committed"} /\ r.subj = task[t].subj
    BY <1>1 DEF Task, PCs
  <2>3. QED
    BY <2>1, <2>2 DEF Onward, Underway
<1>11. CASE PersistFails(t)
  <2> DEFINE r == [task[t] EXCEPT !.pc = "acking", !.result = "error", !.id = NoId]
  <2>1. r.at = task[t].at /\ r.subj = task[t].subj /\ Become(t, r) /\ task[t].pc = "upserted"
    BY <1>1, <1>11 DEF PersistFails, Task
  <2>2. QED
    BY <2>1 DEF Onward, Underway
<1>12. CASE SyncVideos(t)
  <2> DEFINE r == [task[t] EXCEPT !.pc = "committed"]
  <2>1. r.pc = "committed" /\ r.subj = task[t].subj /\ Become(t, r)
    BY <1>1, <1>12 DEF SyncVideos, Task
  <2>2. QED
    BY <2>1 DEF Onward, Underway
<1>13. CASE Acknowledge(t)
  <2> DEFINE r == [task[t] EXCEPT !.pc = "done"]
  <2>1. r.pc = "done" /\ r.subj = task[t].subj /\ Become(t, r)
    BY <1>1, <1>13 DEF Acknowledge, Task
  <2>2. QED
    BY <2>1 DEF Onward, Underway
<1>14. CASE Crash(t)
  <2> DEFINE a == [Queued(task[t].subj, 0) EXCEPT !.pc = "done", !.result = "lost"]
             b == Queued(task[t].subj, task[t].tries)
  <2>1. Become(t, a) \/ Become(t, b)
    BY <1>14 DEF Crash
  <2>2. /\ a.pc = "done" /\ b.pc = "queued"
        /\ a.subj = task[t].subj /\ b.subj = task[t].subj
    BY DEF Queued
  <2> HIDE DEF a, b
  <2>3. QED
    BY <2>1, <2>2 DEF Onward, Underway
<1>15. QED
  BY <1>2, <1>3, <1>4, <1>5, <1>6, <1>8, <1>9, <1>10, <1>11, <1>12, <1>13, <1>14 DEF Step

(* What a step of an execution does to the others and to the tables. *)
LEMMA StepShape ==
  ASSUME SyncInv, NEW t \in Tasks, TriggerSync(t) \/ RunDirectly(t) \/ Step(t) \/ Crash(t)
  PROVE  /\ \A u \in Tasks : u # t => task'[u] = task[u]
         /\ Onward(t, task'[t])
         /\ clock' = clock
         /\ Begin(t) \/ alone' = alone
         /\ AppendSnapshot(t) \/ (row' = row /\ snapshots' = snapshots /\ contested' = contested)
<1>1. /\ clock' = clock
      /\ AppendSnapshot(t) \/ (row' = row /\ snapshots' = snapshots /\ contested' = contested)
  BY DEF TriggerSync, RunDirectly, Step, Crash, Begin, LookupCredential, DecryptFails,
     NoCredential, Fetch, FetchRefused, FetchTransient, UpsertSubject, AppendSnapshot, Commit,
     PersistFails, SyncVideos, SyncVideosFails, TriggerAlertEvaluation, Acknowledge, database,
     overlap
<1>2. Begin(t) \/ alone' = alone
  BY DEF TriggerSync, RunDirectly, Step, Crash, LookupCredential, DecryptFails,
     NoCredential, Fetch, FetchRefused, FetchTransient, UpsertSubject, AppendSnapshot, Commit,
     PersistFails, SyncVideos, SyncVideosFails, TriggerAlertEvaluation, Acknowledge, overlap
<1>3. PICK r : Become(t, r) /\ Onward(t, r)
  BY RecordOnward
<1>4. task'[t] = r /\ \A u \in Tasks : u # t => task'[u] = task[u]
  BY <1>3 DEF Become, SyncInv, TypeOK
<1>5. QED
  BY <1>1, <1>2, <1>3, <1>4

(* UnderWay, said of one execution. *)
LEMMA UnderWayIs ==
  ASSUME NEW s, NEW t
  PROVE  t \in UnderWay(s) <=> t \in Tasks /\ task[t].subj = s /\ task[t].pc \in Underway
  BY DEF UnderWay, Underway

(* AloneIsAlone, said of one execution. *)
LEMMA AloneTask ==
  ASSUME SyncInv, OverlapInv, NEW t \in Tasks, t \in alone, task[t].pc \in Underway
  PROVE  /\ UnderWay(task[t].subj) = {t}
         /\ row[task[t].subj] # NoRow =>
              \A sn \in snapshots : sn.id = row[task[t].subj].id => sn.at <= task[t].at
<1>1. task[t].subj \in Subjects
  BY OneTask DEF Task
<1>2. t \in UnderWay(task[t].subj)
  BY UnderWayIs
<1>3. QED
  BY <1>1, <1>2 DEF OverlapInv, AloneIsAlone

(* A step of an execution that commits nothing. *)
LEMMA OverlapQuiet ==
  ASSUME SyncInv, OverlapInv, NEW t \in Tasks,
         TriggerSync(t) \/ RunDirectly(t) \/ Step(t) \/ Crash(t),
         row' = row /\ snapshots' = snapshots /\ contested' = contested
  PROVE  OverlapInv'
<1>1. /\ \A u \in Tasks : u # t => task'[u] = task[u]
      /\ task'[t].subj = task[t].subj
      /\ \/ task'[t].pc \notin Underway
         \/ Begin(t) /\ task'[t].at = clock
         \/ task[t].pc \in Underway /\ task'[t].at = task[t].at
      /\ clock' = clock
      /\ Begin(t) \/ alone' = alone
  BY StepShape DEF Onward
<1>2. SnapshotsPast' /\ RowIsLatest'
  BY <1>1 DEF OverlapInv, SnapshotsPast, RowIsLatest
<1>3. ASSUME NEW u \in alone', NEW s \in Subjects, u \in UnderWay(s)'
      PROVE  /\ UnderWay(s)' = {u}
             /\ row[s] # NoRow => \A sn \in snapshots : sn.id = row[s].id => sn.at <= task'[u].at
  <2>1. u \in Tasks /\ task'[u].subj = s /\ task'[u].pc \in Underway
    BY <1>3 DEF UnderWay, Underway
  <2>2. ASSUME NEW v, v \in UnderWay(s)'
        PROVE  v \in Tasks /\ task'[v].subj = s /\ task'[v].pc \in Underway
    BY <2>2 DEF UnderWay, Underway
  <2>3. CASE Begin(t)
    <3>1. alone' = IF UnderWay(task[t].subj) = {} THEN alone \cup {t}
                   ELSE alone \ (UnderWay(task[t].subj) \cup {t})
      BY <2>3 DEF Begin
    <3>2. CASE u = t
      <4>1. UnderWay(s) = {}
        BY <1>1, <1>3, <2>1, <3>1, <3>2
      <4>2. UnderWay(s)' = {t}
        BY <1>1, <1>3, <2>2, <3>2, <4>1, UnderWayIs
      <4>3. task'[t].at = clock
        BY <1>1, <2>1, <2>3, <3>2 DEF Begin, Underway
      <4>4. QED
        BY <3>2, <4>2, <4>3 DEF OverlapInv, SnapshotsPast
    <3>3. CASE u # t
      <4>1. u \in alone /\ task'[u] = task[u] /\ task[u].pc \in Underway /\ task[u].subj = s
        BY <1>1, <2>1, <3>1, <3>3
      <4>2. UnderWay(s) = {u} /\ u \in UnderWay(s)
        BY <2>1, <4>1, AloneTask
      <4>3. task[t].subj # s
        BY <1>3, <3>1, <4>2
      <4>4. UnderWay(s)' = {u}
        BY <1>1, <1>3, <2>2, <4>2, <4>3, UnderWayIs
      <4>5. QED
        BY <2>1, <4>1, <4>4, AloneTask
    <3>4. QED
      BY <3>2, <3>3
  <2>4. CASE ~Begin(t)
    <3>1. /\ u \in alone /\ task[u].pc \in Underway /\ task[u].subj = s
          /\ task'[u].at = task[u].at
      BY <1>1, <2>1, <2>4
    <3>2. UnderWay(s) = {u}
      BY <2>1, <3>1, AloneTask
    <3>3. UnderWay(s)' = {u}
      BY <1>1, <1>3, <2>2, <2>4, <3>2, UnderWayIs
    <3>4. QED
      BY <2>1, <3>1, <3>3, AloneTask
  <2>5. QED
    BY <2>3, <2>4
<1>4. AloneIsAlone'
  BY <1>3 DEF AloneIsAlone
<1>5. QED
  BY <1>2, <1>4 DEF OverlapInv

(* The commit: of an execution that was alone, the row is the newest. *)
LEMMA OverlapAppend ==
  ASSUME SyncInv, SyncInv', OverlapInv, NEW t \in Tasks, AppendSnapshot(t)
  PROVE  OverlapInv'
<1> DEFINE s == task[t].subj
           sn == SnapshotOf(t)
           new == RowOf(t)
<1>1. /\ task[t].pc = "upserted" /\ s \in Subjects
      /\ row' = [row EXCEPT ![s] = new] /\ snapshots' = snapshots \cup {sn}
      /\ contested' = IF t \in alone THEN contested \ {s} ELSE contested \cup {s}
      /\ alone' = alone /\ clock' = clock
      /\ row \in [Subjects -> History!Row \cup {NoRow}]
  BY OneTask DEF AppendSnapshot, Commit, Task, SyncInv, TypeOK
<1>2. /\ sn.id = task[t].id /\ sn.at = task[t].at /\ new.id = task[t].id
      /\ new.at = task[t].at /\ task[t].at <= clock /\ task[t].at \in Nat
  BY OneTask, SyncAssumption DEF SnapshotOf, RowOf, Task, Times
<1>3. new # NoRow
  <2>1. task[t].id \in Ids
    BY <1>1 DEF SyncInv, TaskInv, TransactionsIsolated
  <2>2. task[t].at \in Times /\ task[t].followers \in Counts \cup {0}
    BY OneTask DEF Task
  <2>3. QED
    BY <2>1, <2>2, SyncAssumption DEF RowOf
<1>4. /\ row[s] = NoRow => \A x \in snapshots : x.id # task[t].id
      /\ row[s] # NoRow => row[s].id = task[t].id
  BY <1>1 DEF SyncInv, TaskInv, TransactionsIsolated, DatabaseInv, SnapshotsHaveRow
<1>5. /\ \A u \in Tasks : u # t => task'[u] = task[u]
      /\ task'[t].pc \notin Underway
  <2>1. ~Begin(t) /\ task'[t].pc \in {"persisted", "committed"}
    BY <1>1 DEF AppendSnapshot, Commit, Begin, Become, SyncInv, TypeOK, Task
  <2>2. QED
    BY <2>1, StepShape DEF Step, Underway
<1> HIDE DEF s, sn, new
<1>6. row'[s] = new /\ \A x \in Subjects : x # s => row'[x] = row[x]
  BY <1>1
<1>7. \A x \in Subjects : x # s /\ row'[x] # NoRow => row'[x].id # sn.id
  <2>1. row'[s] # NoRow /\ row'[s].id = sn.id
    BY <1>2, <1>3, <1>6
  <2>2. IdsDistinct'
    BY DEF SyncInv, DatabaseInv
  <2>3. QED
    BY <1>1, <2>1, <2>2 DEF IdsDistinct
<1>8. SnapshotsPast'
  BY <1>1, <1>2 DEF OverlapInv, SnapshotsPast
<1>9. AloneIsAlone'
  <2> SUFFICES ASSUME NEW u \in alone, NEW x \in Subjects, u \in UnderWay(x)'
               PROVE  /\ UnderWay(x)' = {u}
                      /\ row'[x] # NoRow =>
                           \A y \in snapshots' : y.id = row'[x].id => y.at <= task'[u].at
    BY <1>1 DEF AloneIsAlone
  <2>1. u \in Tasks /\ task'[u].subj = x /\ task'[u].pc \in Underway
    BY DEF UnderWay, Underway
  <2>2. u # t /\ task'[u] = task[u]
    BY <1>5, <2>1
  <2>3. UnderWay(x) = {u}
    BY <2>1, <2>2, AloneTask
  <2>4. UnderWay(x)' \subseteq UnderWay(x)
    BY <1>5 DEF UnderWay, Underway
  <2>5. x # s
    <3>1. t \in UnderWay(s)
      BY <1>1 DEF s, UnderWay
    <3>2. QED
      BY <2>2, <2>3, <3>1
  <2>6. row'[x] = row[x]
    BY <1>6, <2>5
  <2>7. row'[x] # NoRow => \A y \in snapshots' : y.id = row'[x].id => y \in snapshots
    BY <1>1, <1>7, <2>5
  <2>8. QED
    BY <2>1, <2>2, <2>3, <2>4, <2>6, <2>7, AloneTask
<1>10. RowIsLatest'
  <2> SUFFICES ASSUME NEW u \in Subjects \ contested', row'[u] # NoRow,
                      NEW x \in snapshots', x.id = row'[u].id
               PROVE  x.at <= row'[u].at
    BY DEF RowIsLatest
  <2>1. CASE u = s
    <3>1. t \in alone
      BY <1>1, <2>1
    <3>2. x.id = task[t].id /\ row'[u].at = task[t].at
      BY <1>2, <1>6, <2>1
    <3>3. CASE x = sn
      BY <1>2, <3>2, <3>3
    <3>4. CASE x # sn
      <4>1. x \in snapshots /\ row[s] # NoRow /\ x.id = row[s].id
        BY <1>1, <1>4, <3>2, <3>4
      <4>2. task[t].pc \in Underway
        BY <1>1 DEF Underway
      <4>3. x.at <= task[t].at
        BY <3>1, <4>1, <4>2, AloneTask DEF s
      <4>4. QED
        BY <3>2, <4>3
    <3>5. QED
      BY <3>3, <3>4
  <2>2. CASE u # s
    <3>1. u \notin contested /\ row'[u] = row[u] /\ x \in snapshots
      BY <1>1, <1>6, <1>7, <2>2
    <3>2. QED
      BY <3>1 DEF OverlapInv, RowIsLatest
  <2>3. QED
    BY <2>1, <2>2
<1>11. QED
  BY <1>8, <1>9, <1>10 DEF OverlapInv

LEMMA NextOverlapInv ==
  ASSUME SyncInv, OverlapInv, [Next]_vars
  PROVE  OverlapInv'
<1>1. SyncInv'
  BY NextSyncInv
<1>2. ASSUME NEW t \in Tasks, TriggerSync(t) \/ RunDirectly(t) \/ Step(t) \/ Crash(t)
      PROVE  OverlapInv'
  BY <1>1, <1>2, StepShape, OverlapQuiet, OverlapAppend
<1>3. ASSUME NEW s \in Subjects, CreateCredential(s) \/ SeedSubject(s)
      PROVE  OverlapInv'
  <2>1. PICK i \in Ids : Fresh(i) /\ row' = [row EXCEPT ![s] = Placeholder(s, i)]
    BY <1>3 DEF CreateCredential, SeedSubject
  <2>2. UNCHANGED <<clock, snapshots, task, alone, contested>>
    BY <1>3 DEF CreateCredential, SeedSubject, overlap
  <2>3. \A sn \in snapshots : sn.id # i
    BY <2>1 DEF SyncInv, DatabaseInv, SnapshotsHaveRow, Fresh
  <2>4. /\ row'[s] = Placeholder(s, i) /\ Placeholder(s, i).id = i
        /\ \A u \in Subjects : u # s => row'[u] = row[u]
    BY <2>1 DEF SyncInv, TypeOK, Placeholder
  <2>5. QED
    BY <2>2, <2>3, <2>4 DEF OverlapInv, AloneIsAlone, UnderWay, SnapshotsPast, RowIsLatest
<1>4. CASE \/ \E s \in Subjects : RevokeCredential(s) \/ UpdateCredential(s)
           \/ UNCHANGED vars
  <2>1. UNCHANGED <<clock, row, snapshots, task, alone, contested>>
    BY <1>4 DEF RevokeCredential, UpdateCredential, vars, overlap
  <2>2. QED
    BY <2>1 DEF OverlapInv, AloneIsAlone, UnderWay, SnapshotsPast, RowIsLatest
<1>5. CASE Tick
  <2>1. UNCHANGED <<row, snapshots, task, alone, contested>> /\ clock' = clock + 1
    BY <1>5 DEF Tick, overlap
  <2>2. clock \in Nat /\ \A sn \in snapshots : sn.at \in Nat
    BY SyncAssumption DEF SyncInv, TypeOK, Times, History!Snapshot
  <2>3. QED
    BY <2>1, <2>2 DEF OverlapInv, AloneIsAlone, UnderWay, SnapshotsPast, RowIsLatest
<1>6. QED
  BY <1>2, <1>3, <1>4, <1>5 DEF Next, Admin

(* Both invariants hold, for every number of workers and CLI runs. *)
THEOREM OverlapsSafe == Spec => []OverlapSafe
<1>1. Init => SyncInv /\ OverlapInv
  <2>1. Init => OverlapInv
    BY DEF Init, OverlapInv, AloneIsAlone, SnapshotsPast, RowIsLatest
  <2>2. QED
    BY <2>1, InitSyncInv
<1>2. SyncInv /\ OverlapInv /\ [Next]_vars => SyncInv' /\ OverlapInv'
  BY NextSyncInv, NextOverlapInv
<1>3. SyncInv /\ OverlapInv => OverlapSafe
  BY DEF OverlapSafe
<1>4. QED
  BY <1>1, <1>2, <1>3, PTL DEF Spec

(* The row shows the newest snapshot of its history unless the execution that *)
(* wrote it overlapped another of its subject, whatever was retried,          *)
(* redelivered or rolled back (upsert_subject overwrites last_synced_at       *)
(* without a comparison).                                                     *)
THEOREM RowsLatest == Spec => []RowIsLatest
<1>1. OverlapSafe => RowIsLatest
  BY DEF OverlapSafe, OverlapInv
<1>2. QED
  BY <1>1, OverlapsSafe, PTL
=============================================================================
