----------------------------- MODULE SubjectSync -----------------------------
(***************************************************************************)
(* The collector's sync tasks over the shared database: a Celery message   *)
(* is taken by a worker (or a CLI process runs the function directly), the *)
(* task reads the clock, looks up the subject's credential, calls the      *)
(* platform, and persists the row and the snapshot in one transaction      *)
(* (YouTube then stores videos in a second one) before it asks the alert   *)
(* engine for an evaluation.  Messages are acknowledged late, so a worker  *)
(* that dies makes the broker deliver the message again.  The gateway's    *)
(* admin API creates, disables and revokes credentials in between.         *)
(* (The second copy of a message that a worker leaves when it dies between *)
(* publishing a retry and acknowledging, see TaskBroker, is one more task  *)
(* of Tasks: here a retry replaces its message.)                           *)
(*                                                                         *)
(* The status and credential columns of the subjects row are the variables *)
(* status and cred; its other columns are row, as in SubjectHistory.       *)
(***************************************************************************)
EXTENDS Naturals, FiniteSets

CONSTANTS
  Subjects,       \* (platform, platform_id) pairs
  PlatformOf,     \* the platform of each subject
  Ids,            \* UUIDs
  Counts,         \* follower counts a platform can report
  Tasks,          \* executions requested: Celery messages and CLI runs
  DirectTasks,    \* those run by the CLI: no broker, no retry, no redelivery
  EnvCredential,  \* platforms with a credential in the environment
  MaxTime,        \* bound on the clock
  MaxRetries,     \* max_retries of the tasks
  MaxCrashes,     \* bound on worker deaths
  Concurrency,    \* how many messages the workers execute at once
  DbMayFail,      \* whether a database write may fail by itself
  BrokerMayFail,  \* whether send_task may raise
  NoRow, NoId

Platforms == {"facebook", "youtube", "tiktok"}
Times == 0 .. MaxTime

ASSUME SyncAssumption ==
  /\ PlatformOf \in [Subjects -> Platforms]
  /\ DirectTasks \subseteq Tasks
  /\ EnvCredential \subseteq {"facebook", "youtube"}
  /\ Counts \subseteq Nat \ {0}
  /\ MaxTime \in Nat /\ MaxRetries \in Nat /\ MaxCrashes \in Nat
  /\ Concurrency \in Nat \ {0}
  /\ DbMayFail \in BOOLEAN /\ BrokerMayFail \in BOOLEAN
  /\ NoId \notin Ids
  /\ \A i \in Ids, when \in Times, n \in Counts \cup {0}, p \in BOOLEAN :
       NoRow # [id |-> i, at |-> when, followers |-> n, pending |-> p]

VARIABLES
  clock,        \* the wall clock
  row,          \* row[s]: id, last_synced_at, followers of the subject, or NoRow
  status,       \* status[s]: the status column of that row
  cred,         \* cred[s]: the credential the row links to, and whether it is active
  snapshots,    \* activity_snapshots
  videosAt,     \* videosAt[s]: the last_synced_at of its videos (a set: {} is no videos)
  task,         \* task[t]: the state of each execution
  announced,    \* ids an evaluation has been requested for
  unannounced,  \* history: subjects with a snapshot newer than the last request
  crashes,      \* worker deaths so far
  activeUntil,  \* history: the last instant s had an active credential
  alone,        \* history: executions that overlapped no other of their subject
  contested     \* history: subjects whose row was last written by one that did

vars == <<clock, row, status, cred, snapshots, videosAt, task, announced,
          unannounced, crashes, activeUntil, alone, contested>>

History == INSTANCE SubjectHistory
  WITH Subjects <- Subjects, Ids <- Ids, Counts <- Counts, Times <- Times, NoRow <- NoRow,
       row <- row, snapshots <- snapshots

PCs == {"idle", "queued", "begun", "ready", "fetched", "upserted", "persisted",
        "committed", "acking", "done"}

Statuses == {"active", "inactive", "suspended"}

Task == [pc : PCs, subj : Subjects, tries : 0 .. MaxRetries, at : Times,
         token : {"none", "db", "env"}, followers : Counts \cup {0},
         status : Statuses, id : Ids \cup {NoId}, saved : BOOLEAN,
         result : {"none", "ok", "not_found", "permanent", "no_credentials",
                   "exhausted", "error", "lost"}]

\* A message for subject s that has been retried n times and is not running.
Queued(s, n) ==
  [pc |-> "queued", subj |-> s, tries |-> n, at |-> 0, token |-> "none",
   followers |-> 0, status |-> "inactive", id |-> NoId, saved |-> FALSE,
   result |-> "none"]

Init ==
  /\ clock = 0
  /\ row = [s \in Subjects |-> NoRow]
  /\ status = [s \in Subjects |-> "inactive"]
  /\ cred = [s \in Subjects |-> "none"]
  /\ snapshots = {}
  /\ videosAt = [s \in Subjects |-> {}]
  /\ \E f \in [Tasks -> Subjects] :
       task = [t \in Tasks |-> [Queued(f[t], 0) EXCEPT !.pc = "idle"]]
  /\ announced = {}
  /\ unannounced = {}
  /\ crashes = 0
  /\ activeUntil = [s \in Subjects |-> 0]
  /\ alone = {}
  /\ contested = {}

-----------------------------------------------------------------------------
(* Helpers. *)

Running == {"begun", "ready", "fetched", "upserted", "persisted", "committed", "acking"}

\* The executions of s between the reading of the clock and the commit.
UnderWay(s) ==
  {t \in Tasks : task[t].subj = s /\ task[t].pc \in {"begun", "ready", "fetched", "upserted"}}

WorkerFree == Cardinality({t \in Tasks \ DirectTasks : task[t].pc \in Running}) < Concurrency

Become(t, r) == task' = [task EXCEPT ![t] = r]

\* The function returns or raises; the message is not acknowledged yet.
Return(t, res) == Become(t, [task[t] EXCEPT !.pc = "acking", !.result = res])

database == <<row, status, cred, snapshots, videosAt, activeUntil>>
alerting == <<announced, unannounced>>
overlap == <<alone, contested>>

\* Fault: the upsert takes no lock.
Unlocked(s) == FALSE

\* An open transaction that has written the subject's row holds its lock.
Locked(s) == \E t \in Tasks : task[t].pc = "upserted" /\ task[t].subj = s

\* A new UUID: no row and no open transaction has it.
Fresh(i) == i \notin History!RowIds /\ \A t \in Tasks : task[t].id # i

-----------------------------------------------------------------------------
(* Requests. *)

\* POST /subjects/{id}/sync: a known Facebook or YouTube subject, no
\* deduplication.
TriggerSync(t) ==
  /\ t \notin DirectTasks /\ task[t].pc = "idle"
  /\ row[task[t].subj] # NoRow
  /\ PlatformOf[task[t].subj] # "tiktok"
  /\ Become(t, [task[t] EXCEPT !.pc = "queued"])
  /\ UNCHANGED <<clock, database, alerting, overlap, crashes>>

\* The CLI: sync-<platform> and sync-<platform>-one call the task function.
RunDirectly(t) ==
  /\ t \in DirectTasks /\ task[t].pc = "idle"
  /\ Become(t, [task[t] EXCEPT !.pc = "queued"])
  /\ UNCHANGED <<clock, database, alerting, overlap, crashes>>

-----------------------------------------------------------------------------
(* The task. *)

\* The body starts: synced_at = _now().
Begin(t) ==
  /\ task[t].pc = "queued"
  /\ t \in DirectTasks \/ WorkerFree
  /\ Become(t, [task[t] EXCEPT !.pc = "begun", !.at = clock])
  /\ alone' = IF UnderWay(task[t].subj) = {} THEN alone \cup {t}
              ELSE alone \ (UnderWay(task[t].subj) \cup {t})
  /\ UNCHANGED <<clock, database, alerting, contested, crashes>>

\* Fault: the lookup forgets is_active.
TokenOfAnyCredential(s) ==
  IF row[s] # NoRow /\ cred[s] # "none" THEN "db"
  ELSE IF PlatformOf[s] \in EnvCredential THEN "env"
  ELSE "none"

\* The credential lookup, in a transaction of its own: the subject's active
\* credential, else the environment's, else none.
TokenFor(s) ==
  IF row[s] # NoRow /\ cred[s] = "active" THEN "db"
  ELSE IF PlatformOf[s] \in EnvCredential THEN "env"
  ELSE "none"

LookupCredential(t) ==
  /\ task[t].pc = "begun"
  /\ Become(t, [task[t] EXCEPT !.pc = "ready", !.token = TokenFor(task[t].subj)])
  /\ UNCHANGED <<clock, database, alerting, overlap, crashes>>

\* A stored credential that cannot be decrypted raises outside the handlers.
DecryptFails(t) ==
  /\ task[t].pc = "begun"
  /\ TokenFor(task[t].subj) = "db"
  /\ Return(t, "error")
  /\ UNCHANGED <<clock, database, alerting, overlap, crashes>>

\* TikTok returns no_credentials; the other clients refuse to be built.
NoCredential(t) ==
  /\ task[t].pc = "ready" /\ task[t].token = "none"
  /\ Return(t, IF PlatformOf[task[t].subj] = "tiktok" THEN "no_credentials" ELSE "permanent")
  /\ UNCHANGED <<clock, database, alerting, overlap, crashes>>

\* The platform answers, and the normalizer derives a status from the counts
\* (never "suspended").
Fetch(t) ==
  /\ task[t].pc = "ready" /\ task[t].token # "none"
  /\ \E n \in Counts, st \in Statuses \ {"suspended"} :
       Become(t, [task[t] EXCEPT !.pc = "fetched", !.followers = n, !.status = st])
  /\ UNCHANGED <<clock, database, alerting, overlap, crashes>>

\* SubjectNotFoundError and PermanentPlatformError are logged and returned.
FetchRefused(t) ==
  /\ task[t].pc = "ready" /\ task[t].token # "none"
  /\ \E res \in {"not_found", "permanent"} : Return(t, res)
  /\ UNCHANGED <<clock, database, alerting, overlap, crashes>>

\* Fault: retries that are not counted.
RetryUncounted(t) ==
  /\ task[t].pc = "ready" /\ task[t].token # "none"
  /\ Become(t, Queued(task[t].subj, task[t].tries))
  /\ UNCHANGED <<clock, database, alerting, overlap, crashes>>

\* TransientPlatformError: Celery sends the message again until max_retries;
\* a direct call has no request to retry and just raises.  TikTok's client never
\* raises it.
FetchTransient(t) ==
  /\ task[t].pc = "ready" /\ task[t].token # "none"
  /\ PlatformOf[task[t].subj] # "tiktok"
  /\ IF t \notin DirectTasks /\ task[t].tries < MaxRetries
       THEN Become(t, Queued(task[t].subj, task[t].tries + 1))
       ELSE Return(t, "exhausted")
  /\ UNCHANGED <<clock, database, alerting, overlap, crashes>>

\* Fault: the id of the new Subject object, not the one the row has.
UpsertUnderNewId(t) ==
  /\ task[t].pc = "fetched" /\ ~Locked(task[t].subj)
  /\ \E i \in Ids : Fresh(i) /\ Become(t, [task[t] EXCEPT !.pc = "upserted", !.id = i])
  /\ UNCHANGED <<clock, database, alerting, overlap, crashes>>

\* Fault: the evaluation is requested inside the transaction.
AnnounceInTransaction(t) ==
  LET s == task[t].subj IN
  /\ task[t].pc = "fetched" /\ ~Locked(s)
  /\ \E i \in Ids :
       /\ IF row[s] = NoRow THEN Fresh(i) ELSE i = row[s].id
       /\ Become(t, [task[t] EXCEPT !.pc = "upserted", !.id = i])
       /\ announced' = announced \cup {i}
  /\ UNCHANGED <<clock, database, unannounced, overlap, crashes>>

\* upsert_subject inside the transaction: waits for the row's lock, and
\* returns the id the row has, or the new one.
UpsertSubject(t) ==
  LET s == task[t].subj IN
  /\ task[t].pc = "fetched"
  /\ ~Locked(s)
  /\ \E i \in Ids :
       /\ IF row[s] = NoRow THEN Fresh(i) ELSE i = row[s].id
       /\ Become(t, [task[t] EXCEPT !.pc = "upserted", !.id = i])
  /\ UNCHANGED <<clock, database, alerting, overlap, crashes>>

\* The transaction of sync_subject commits with this row and these snapshots.
Commit(t, newRow, newSnapshots) ==
  LET s == task[t].subj IN
  /\ task[t].pc = "upserted"
  /\ row' = [row EXCEPT ![s] = newRow]
  /\ status' = [status EXCEPT ![s] = task[t].status]
  /\ snapshots' = newSnapshots
  /\ unannounced' = unannounced \cup {s}
  /\ Become(t, [task[t] EXCEPT
       !.pc = IF PlatformOf[s] = "youtube" THEN "persisted" ELSE "committed",
       !.saved = TRUE])
  /\ contested' = IF t \in alone THEN contested \ {s} ELSE contested \cup {s}
  /\ UNCHANGED <<clock, cred, videosAt, activeUntil, announced, alone, crashes>>

RowOf(t) == [id |-> task[t].id, at |-> task[t].at, followers |-> task[t].followers, pending |-> FALSE]

SnapshotOf(t) == [id |-> task[t].id, at |-> task[t].at, followers |-> task[t].followers]

\* Fault: ON CONFLICT DO NOTHING.
AppendWithoutUpdate(t) ==
  /\ ~History!HasSnapshot(task[t].id, task[t].at)
  /\ Commit(t, IF row[task[t].subj] = NoRow THEN RowOf(t) ELSE row[task[t].subj],
            snapshots \cup {SnapshotOf(t)})

\* append_snapshot and the commit that ends sync_subject.
AppendSnapshot(t) ==
  /\ ~History!HasSnapshot(task[t].id, task[t].at)
  /\ Commit(t, RowOf(t), snapshots \cup {SnapshotOf(t)})

\* Fault: the upsert survives the refused snapshot.
KeepUpsert(t) ==
  /\ History!HasSnapshot(task[t].id, task[t].at) \/ DbMayFail
  /\ Commit(t, RowOf(t), snapshots)

\* Fault: the error of the transaction is swallowed.
SwallowError(t) ==
  /\ task[t].pc = "upserted"
  /\ DbMayFail \/ History!HasSnapshot(task[t].id, task[t].at)
  /\ Become(t, [task[t] EXCEPT !.pc = "committed"])
  /\ UNCHANGED <<clock, database, alerting, overlap, crashes>>

\* The primary key refuses a second snapshot of the same instant, or the
\* database fails: the transaction is rolled back and the error propagates.
PersistFails(t) ==
  /\ task[t].pc = "upserted"
  /\ DbMayFail \/ History!HasSnapshot(task[t].id, task[t].at)
  /\ Become(t, [task[t] EXCEPT !.pc = "acking", !.result = "error", !.id = NoId])
  /\ UNCHANGED <<clock, database, alerting, overlap, crashes>>

\* Fault: the videos take the time of the write, not synced_at.
StampVideosNow(t) ==
  /\ task[t].pc = "persisted"
  /\ \E kept \in SUBSET videosAt[task[t].subj] :
       videosAt' = [videosAt EXCEPT ![task[t].subj] = kept \cup {clock}]
  /\ Become(t, [task[t] EXCEPT !.pc = "committed"])
  /\ UNCHANGED <<clock, row, status, cred, snapshots, activeUntil, alerting, overlap, crashes>>

\* sync_videos, after sync_subject has committed: the videos listed now take
\* the time of this sync, the others keep theirs, and a channel may list none.
SyncVideos(t) ==
  /\ task[t].pc = "persisted"
  /\ \/ \E kept \in SUBSET videosAt[task[t].subj] :
          videosAt' = [videosAt EXCEPT ![task[t].subj] = kept \cup {task[t].at}]
     \/ UNCHANGED videosAt
  /\ Become(t, [task[t] EXCEPT !.pc = "committed"])
  /\ UNCHANGED <<clock, row, status, cred, snapshots, activeUntil, alerting, overlap, crashes>>

\* A failure there is raised: no retry, no evaluation, and the snapshot stays.
SyncVideosFails(t) ==
  /\ task[t].pc = "persisted" /\ DbMayFail
  /\ Return(t, "error")
  /\ UNCHANGED <<clock, database, alerting, overlap, crashes>>

\* Fault: nothing is sent.
SkipAnnouncement(t) ==
  /\ task[t].pc = "committed"
  /\ Return(t, "ok")
  /\ UNCHANGED <<clock, database, alerting, overlap, crashes>>

\* send_task with the id the transaction returned; an exception is swallowed.
TriggerAlertEvaluation(t) ==
  /\ task[t].pc = "committed"
  /\ \/ /\ announced' = announced \cup {task[t].id}
        /\ unannounced' = unannounced \ {task[t].subj}
     \/ BrokerMayFail /\ UNCHANGED alerting
  /\ Return(t, "ok")
  /\ UNCHANGED <<clock, database, overlap, crashes>>

\* task_acks_late: only now is the message gone.
Acknowledge(t) ==
  /\ task[t].pc = "acking"
  /\ Become(t, [task[t] EXCEPT !.pc = "done"])
  /\ UNCHANGED <<clock, database, alerting, overlap, crashes>>

\* The worker dies: an open transaction is rolled back, and the broker
\* delivers the message again.  Nobody runs a CLI command again.
Crash(t) ==
  /\ task[t].pc \in Running
  /\ crashes < MaxCrashes
  /\ crashes' = crashes + 1
  /\ IF t \in DirectTasks
       THEN Become(t, [Queued(task[t].subj, 0) EXCEPT !.pc = "done", !.result = "lost"])
       ELSE Become(t, Queued(task[t].subj, task[t].tries))
  /\ UNCHANGED <<clock, database, alerting, overlap>>

-----------------------------------------------------------------------------
(* The admin API and the seeding command, on the same tables. *)

Placeholder(s, i) == [id |-> i, at |-> clock, followers |-> 0, pending |-> TRUE]

\* create_credential: the credential and a placeholder row, in one
\* transaction that fails when the subject exists.
CreateCredential(s) ==
  /\ row[s] = NoRow /\ ~Locked(s)
  /\ \E i \in Ids : Fresh(i) /\ row' = [row EXCEPT ![s] = Placeholder(s, i)]
  /\ status' = [status EXCEPT ![s] = "inactive"]
  /\ cred' = [cred EXCEPT ![s] = "active"]
  /\ activeUntil' = [activeUntil EXCEPT ![s] = clock]
  /\ UNCHANGED <<clock, snapshots, videosAt, task, alerting, overlap, crashes>>

\* seed-subjects: a placeholder row without a credential.
SeedSubject(s) ==
  /\ row[s] = NoRow /\ ~Locked(s)
  /\ \E i \in Ids : Fresh(i) /\ row' = [row EXCEPT ![s] = Placeholder(s, i)]
  /\ status' = [status EXCEPT ![s] = "inactive"]
  /\ UNCHANGED <<clock, cred, snapshots, videosAt, activeUntil, task, alerting, overlap, crashes>>

\* revoke_credential: the credential and its subject, in one transaction; it
\* waits for the row's lock only when it has a status to change.
RevokeCredential(s) ==
  /\ cred[s] # "none"
  /\ status[s] = "inactive" \/ ~Locked(s)
  /\ cred' = [cred EXCEPT ![s] = "inactive"]
  /\ status' = [status EXCEPT ![s] = "inactive"]
  /\ UNCHANGED <<clock, row, snapshots, videosAt, activeUntil, task, alerting, overlap, crashes>>

\* update_credential with is_active: the credential alone.
UpdateCredential(s) ==
  /\ cred[s] # "none"
  /\ \/ /\ cred' = [cred EXCEPT ![s] = "active"]
        /\ activeUntil' = [activeUntil EXCEPT ![s] = clock]
     \/ /\ cred' = [cred EXCEPT ![s] = "inactive"]
        /\ UNCHANGED activeUntil
  /\ UNCHANGED <<clock, row, status, snapshots, videosAt, task, alerting, overlap, crashes>>

Tick ==
  /\ clock < MaxTime
  /\ clock' = clock + 1
  /\ activeUntil' = [s \in Subjects |-> IF cred[s] = "active" THEN clock + 1 ELSE activeUntil[s]]
  /\ UNCHANGED <<row, status, cred, snapshots, videosAt, task, alerting, overlap, crashes>>

-----------------------------------------------------------------------------

Step(t) ==
  \/ Begin(t) \/ LookupCredential(t) \/ DecryptFails(t) \/ NoCredential(t)
  \/ Fetch(t) \/ FetchRefused(t) \/ FetchTransient(t)
  \/ UpsertSubject(t) \/ AppendSnapshot(t) \/ PersistFails(t)
  \/ SyncVideos(t) \/ SyncVideosFails(t)
  \/ TriggerAlertEvaluation(t) \/ Acknowledge(t)

Admin(s) == CreateCredential(s) \/ SeedSubject(s) \/ RevokeCredential(s) \/ UpdateCredential(s)

Next ==
  \/ \E t \in Tasks : TriggerSync(t) \/ RunDirectly(t) \/ Step(t) \/ Crash(t)
  \/ \E s \in Subjects : Admin(s)
  \/ Tick

\* A worker that is alive executes its task, and the broker delivers queued
\* messages to free workers.  Nothing is assumed of admins, crashes, the clock.
Fairness == \A t \in Tasks : WF_vars(Step(t))

Spec == Init /\ [][Next]_vars

FairSpec == Spec /\ Fairness

-----------------------------------------------------------------------------
(* Properties. *)

TypeOK ==
  /\ clock \in Times
  /\ row \in [Subjects -> History!Row \cup {NoRow}]
  /\ status \in [Subjects -> Statuses]
  /\ cred \in [Subjects -> {"none", "active", "inactive"}]
  /\ snapshots \subseteq History!Snapshot
  /\ videosAt \in [Subjects -> SUBSET Times]
  /\ task \in [Tasks -> Task]
  /\ announced \subseteq Ids
  /\ unannounced \subseteq Subjects
  /\ crashes \in 0 .. MaxCrashes
  /\ activeUntil \in [Subjects -> Times]
  /\ alone \subseteq Tasks
  /\ contested \subseteq Subjects

\* A row that is not a placeholder has exactly the values of one committed
\* snapshot of its own id: the upsert and the append are one transaction
\* whatever fails, dies or overlaps (sync_subject).
RowHasSnapshot ==
  \A s \in Subjects :
    row[s] # NoRow /\ ~row[s].pending =>
      [id |-> row[s].id, at |-> row[s].at, followers |-> row[s].followers] \in snapshots

\* Every snapshot belongs to a row: concurrent first syncs of a subject never
\* leave snapshots under an id that lost the race (upsert_subject returns the
\* id that survived).
SnapshotsHaveRow == \A sn \in snapshots : sn.id \in History!RowIds

\* (subject_id, captured_at) is a key: two syncs that start in the same
\* instant never both count.
SnapshotsKeyed ==
  \A a, b \in snapshots : a.id = b.id /\ a.at = b.at => a = b

\* Two subjects never share an id, so no history mixes two subjects.
IdsDistinct ==
  \A s, u \in Subjects :
    row[s] # NoRow /\ row[u] # NoRow /\ row[s].id = row[u].id => s = u

\* A task reported "ok" only when its reading is a snapshot of the row that
\* still has its id (the result backend never reports a write that was lost).
OkMeansPersisted ==
  \A t \in Tasks :
    task[t].result = "ok" =>
      /\ SnapshotOf(t) \in snapshots
      /\ row[task[t].subj] # NoRow /\ row[task[t].subj].id = task[t].id

\* An evaluation is requested only for a subject whose snapshot is already
\* committed: the alert engine never looks for data that is not there.
AnnouncedAfterCommit ==
  \A i \in announced : \E sn \in snapshots : sn.id = i

\* The last_synced_at of every stored video, of this sync or kept from an
\* earlier one, is that of a committed snapshot of its subject (sync_videos
\* runs after sync_subject, in a transaction of its own).
VideosBelongToSnapshot ==
  \A s \in Subjects : \A when \in videosAt[s] :
    row[s] # NoRow /\ History!HasSnapshot(row[s].id, when)

\* A subject's id, once given, never changes, whoever writes the row next
\* (the upsert keeps it, so the history stays linked).
IdStable ==
  [][\A s \in Subjects :
       row[s] # NoRow => row'[s] # NoRow /\ row'[s].id = row[s].id]_vars

\* Snapshots are inserted, never updated or deleted (repository.py).
AppendOnly == [][snapshots \subseteq snapshots']_vars

\* A subject of a platform without a fallback credential (TikTok always) has
\* no snapshot dated after the last instant its own credential was active: what
\* begins after a revocation records nothing.  (An execution that has read its
\* token before the revocation still records, dated by its own beginning.)
NoDataAfterRevocation ==
  \A s \in Subjects :
    row[s] # NoRow /\ PlatformOf[s] \notin EnvCredential =>
      \A sn \in snapshots : sn.id = row[s].id => sn.at <= activeUntil[s]

\* Unless the execution that wrote it overlapped another of its subject, the
\* row shows the newest snapshot of its history: a stale row is the work of an
\* overlap, whatever was retried, redelivered or rolled back before, and the
\* next sync that runs alone repairs it (upsert_subject overwrites
\* last_synced_at without a comparison).
RowIsLatest ==
  \A s \in Subjects \ contested : row[s] # NoRow =>
    \A sn \in snapshots : sn.id = row[s].id => sn.at <= row[s].at

\* Every execution ends, through retries and redeliveries.
TasksSettle == \A t \in Tasks : task[t].pc = "queued" ~> task[t].pc = "done"

\* Every committed snapshot is followed by a request for an evaluation, unless
\* a worker dies: the redelivery may then find the platform refusing.
CommitsAnnounced ==
  \A s \in Subjects : s \in unannounced ~> s \notin unannounced \/ crashes > 0

\* The tables behave as SubjectHistory says.
ImplementsHistory == History!HistorySpec

-----------------------------------------------------------------------------
(* The inductive invariant: the safety properties above, and what the open *)
(* transactions and the running tasks know.                                *)

\* A transaction that has upserted has the row's lock for itself and the id
\* the row has, or an id nobody else has.
TransactionsIsolated ==
  \A t \in Tasks : task[t].pc = "upserted" =>
    /\ task[t].id \in Ids
    /\ IF row[task[t].subj] = NoRow
         THEN task[t].id \notin History!RowIds
         ELSE task[t].id = row[task[t].subj].id
    /\ \A u \in Tasks : u # t /\ task[u].pc = "upserted" =>
         task[u].subj # task[t].subj /\ task[u].id # task[t].id

\* What a committed execution saved is still there.
SavedStays ==
  \A t \in Tasks : task[t].saved =>
    /\ SnapshotOf(t) \in snapshots
    /\ row[task[t].subj] # NoRow
    /\ row[task[t].subj].id = task[t].id

SavedWhenCommitted ==
  \A t \in Tasks :
    /\ task[t].pc \in {"persisted", "committed"} \/ task[t].result = "ok" => task[t].saved
    /\ task[t].pc \in {"idle", "queued", "begun", "ready", "fetched", "upserted"} => ~task[t].saved

\* A stored token was active after the execution started, an execution
\* without a stored token has the environment's, and only an execution with a
\* token has a reading.
TokensWereActive ==
  \A t \in Tasks :
    /\ task[t].at <= clock
    /\ task[t].token = "db" => task[t].at <= activeUntil[task[t].subj]
    /\ task[t].token = "env" => PlatformOf[task[t].subj] \in EnvCredential
    /\ task[t].pc \in {"fetched", "upserted"} =>
         task[t].token # "none" /\ task[t].followers \in Counts
    /\ task[t].pc \in {"idle", "queued", "begun"} => task[t].token = "none"

ActiveUntilNow ==
  \A s \in Subjects :
    /\ activeUntil[s] <= clock
    /\ cred[s] = "active" => activeUntil[s] = clock

\* An execution that has overlapped no other is the only one of its subject
\* under way, and began after every snapshot of the subject.
AloneIsAlone ==
  \A t \in alone : \A s \in Subjects : t \in UnderWay(s) =>
    /\ UnderWay(s) = {t}
    /\ row[s] # NoRow => \A sn \in snapshots : sn.id = row[s].id => sn.at <= task[t].at

SnapshotsPast == \A sn \in snapshots : sn.at <= clock

OverlapInv == AloneIsAlone /\ SnapshotsPast /\ RowIsLatest

DatabaseInv ==
  /\ RowHasSnapshot
  /\ SnapshotsHaveRow
  /\ SnapshotsKeyed
  /\ IdsDistinct
  /\ AnnouncedAfterCommit
  /\ VideosBelongToSnapshot
  /\ NoDataAfterRevocation
  /\ ActiveUntilNow

TaskInv ==
  /\ TransactionsIsolated
  /\ SavedStays
  /\ SavedWhenCommitted
  /\ TokensWereActive

\* The inductive invariant of the proofs, checked on an instance first.
SyncInv == TypeOK /\ DatabaseInv /\ TaskInv

\* What the proof of RowIsLatest adds to it.
OverlapSafe == SyncInv /\ OverlapInv
=============================================================================
