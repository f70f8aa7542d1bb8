# Formal model of the Social Intelligence Platform

This directory is a TLA+ development of the platform in this repository: a
collector that copies social-media subjects into a database, an alert engine
that watches them, and an API gateway that serves them to a Telegram mini app
and to other clients. TLC checks the modules on small instances; TLAPS proves
the theorems for every value of the constants.

Paths below are abbreviated: `collector/` is
`social-data-collector/src/social_data_collector/`, `engine/` is
`social-alert-engine/src/social_alert_engine/`, `gateway/` is
`social-api-gateway/src/social_api_gateway/`.

## 1. The system

    beat --> [ one Redis list of Celery messages ] <-- gateway POST /sync
                 |                    |       ^
          collector workers     engine workers|  evaluate_subject_alerts(id)
                 |  ^------------------------ + ---- after each sync
                 v                    v
        Facebook/YouTube/TikTok    Telegram
                 |                    |
                 v                    v
           subjects, activity_snapshots, videos      alert_rules, alert_logs
                 ^                                        ^
                 +---- gateway: reads (through a Redis cache), admin API ----+

Everything the services share is one PostgreSQL database and one Redis
instance; there is no other channel and, except for row locks and unique keys,
nothing synchronises them.

| Component | State it keeps | Operations | What is hard | What makes it correct |
|---|---|---|---|---|
| Sync tasks (`collector/scheduler/tasks.py`) | none of their own; a message, a token, a reading | `sync_<platform>_subject` | two executions of one subject; late acknowledgement; autoretry; the YouTube task's two transactions; a revocation in between | row and snapshot appear together; history only grows; ids stay; what begins after a revocation records nothing; a row is stale only by an overlap; every sync ends |
| Persistence (`collector/persistence/`) | `subjects`, `activity_snapshots`, `videos` | `upsert_subject`, `append_snapshot`, `sync_subject`, `sync_videos` | the race of two first syncs; the unique key of two snapshots | the tables implement `SubjectHistory` |
| Credential resolver | `platform_credentials` | `resolve_credential` | read before, used after, a revocation | a token is active when it is read |
| Broker and Celery apps (`*/celery_app.py`) | the list, unacknowledged messages | publish, take, acknowledge, reject, redeliver | two applications on one queue; worker deaths; poison messages | a copy of a message is in one place; none is lost |
| Sync cycles, targets, CLI, seeding (`tasks.py`, `main.py`), crawl scripts | none | `sync_all_*`, `sync-*`, `seed-*`, `store-credential`, `crawl_*.py` | the beat names functions that are no tasks; check-then-insert against the admin API; the fallback list; one target that raises | every target is tried; the exit code tells of failures; what was seeded is synced |
| Platform clients (`collector/clients/`) | a pagination cursor, a retry count | `get_json`, page loops, fallbacks | retry and paging that end; partial pages; statuses searched as digits in a text | every call ends; a result has its cause; the sample is the newest posts |
| Normalizers (`collector/normalizers/`) | none | platform JSON to `Subject` | zero, missing and undated values; borders of the window | a subject is inactive for a reason |
| Alert evaluator (`engine/evaluator.py`, `tasks.py`) | `alert_logs` | load, judge, check cooldown, send, log | check, send and log are three steps; deaths and errors in between; overlapping evaluations | an alert is logged only by an evaluation that found the log clear when it asked; duplicates and lost entries are bounded by overlaps and failures |
| Baseline (`engine/baseline.py`) | none | mean and deviation of a window | the reading is in its own window; row and window are read apart | rules fire on what the documents call anomalies |
| Subjects API and cache (`gateway/subjects/`, `cache/`) | cached responses | read-through, `POST /sync` | fills that race commits; syncs that leave the cache alone | answers are not older than the time to live promises |
| Rate limits (`gateway/rate_limit/`, `deps.py`) | counters with an expiry | `check`, `rate_limit`, `rate_limit_auth` | two counters, two transactions; Redis failing in between; window borders; rounding | no window lets in more than its limit; nobody is rejected without cause |
| Admin API (`gateway/admin/`) | `platforms`, `platform_credentials`, `api_keys` | create, update, revoke, verify, grant | the cascade to the subject against a sync; sessions that nobody commits; roles in tokens | a revocation holds; a withdrawn role ends; one creator per platform |
| Alert rules API (`gateway/alerts/`) | `alert_rules` | create, update, delete | flushed and never committed | what is answered is stored |
| Login (`gateway/auth/`) | `telegram_users`, JWTs | `telegram_login` | select-then-insert; stale roles | one row per user, whose role a login never changes |
| Mini app | a query cache | reads, sync and refetch after 5 s | refetching too early | shows what was synced |
| Health, logging, configuration, migrations, scripts, deployment | none | | | |

`PROJECT.json` lists every component with its status, and under `hazards` every
place where the code is hard to test, with the properties that watch it.

## 2. The modules

| Module | Models | Kind |
|---|---|---|
| `SubjectHistory` | what the tables promise: a row per subject, one snapshot per sync | abstract specification |
| `SubjectSync` | the sync tasks, the credential lookup, the transactions, the seeding command and the admin API's credentials | detailed; implements `SubjectHistory` |
| `AlertCooldown` | what deduplication promises: an alert is logged only by an evaluation that was clear of the whole log when it asked, each alert is asked for anew, and one that was given up is never logged | abstract specification |
| `AlertEngine` | the evaluation tasks from message to log entry | detailed; implements `AlertCooldown`, however evaluations overlap |
| `Normalizer` | frequency, post count and status from a list of posts | operators |
| `FetchPromise` | what a fetch promises to the task: one result of the platform's kind | abstract specification |
| `PlatformFetch` | the calls of the three platform clients, one HTTP exchange per step | detailed; implements `FetchPromise` |
| `SyncCycle` | the command line: targets, loops, exit codes, crawls, seeding; composes `PlatformFetch` with the subjects table | state machine |
| `AlertBaseline` | from posts to alerts: what the metric rules decide, from a row and a window read apart | state machine around `Normalizer` and the arithmetic |
| `TaskBroker` | the two Celery applications on one list | state machine |
| `RateLimit` | the fixed-window counters of keys and logins | state machine |
| `ResponseCache` | the read-through of the subject routes against commits | state machine |
| `GatewaySession` | the database sessions of the requests that write: logins, grants, platforms, verifications, alert rules | state machine |
| `*Proofs` | theorems about the module of that name | proofs |
| `MC*` | constants of the instances for TLC | model checking |

### Correspondence with the code

**SubjectSync.** One execution of a task is a record with a program counter.
`TriggerSync` and `RunDirectly` are the two ways to ask for one (the route, and
the CLI, which has no broker behind it). `Begin` reads the clock
(`tasks.py:138-142`), `LookupCredential`, `DecryptFails` and `NoCredential` are
the lookup of `credential_resolver.py` with its fallback to the environment,
`Fetch`, `FetchRefused` and `FetchTransient` the platform's answer. `UpsertSubject`
opens the transaction (and holds the row's lock: `Locked`), `AppendSnapshot`
commits it, `PersistFails` rolls it back. `SyncVideos` and `SyncVideosFails` are
the YouTube task's second transaction (an upsert: the videos listed now take the time
of this sync, the others keep theirs), `TriggerAlertEvaluation` the message
that is sent at the end, `Acknowledge` the late acknowledgement. `Crash` is the
death of a worker anywhere in between: an open transaction is rolled back and
the message is queued again. `SeedSubject`, `CreateCredential`, `UpdateCredential`
and `RevokeCredential` change rows and credentials at any moment. The status and
the credential of a row are variables of their own because the admin API writes
them; the other columns are `row`, as in `SubjectHistory`. A sync never writes the status
`suspended`, which a row may have all the same. `UnderWay` are the executions of a subject
between the clock and the commit. `unannounced`, `activeUntil`, `alone` (executions that
overlapped no other of their subject) and `contested` (subjects whose row was last
written by one that did) are history variables.

**PlatformFetch.** An execution (`fetch`) has a call under way, its attempt, and what
has been read. `Busy` is a retry of `get_json`, or the error it raises after the last;
TikTok's client does not go through it. Each `...Read` and `...Refused` is one answer
to one call, with the branch that the client or the task takes. `TextOf` is the text
in which the clients look for a status: it holds the code, the body and, for
Facebook, the path with the id of the page (`clients/base.py:157-164`), so the
digits in an id (`IdMarks`) or anywhere in a body (`Bodies`) count as well. What the platform would list is `feed`,
chosen when the client is opened; a page may be as short as the platform likes.
`EmptyPage` is a page of a playlist without videos that names a next one, which the loop
follows however often it comes. `gone` and `flawed` are history
variables: that the platform said the subject does not exist, and that the
client took an error, an empty page or a repeated cursor for part of the list.
`Result` is what the normalizer makes of the answers.

**SyncCycle.** `SyncCommand`, `SyncOne` and `Crawl` begin a command (one at a time);
`ReadTargets` reads the targets of the next platform and joins the exit code of the
one before; `RunTarget` or `FetchTarget` is a task up to its result, `Persist`,
`PersistFails` and `Return` what the task does with it, `LookupFails` a task whose
lookup raises; `Complete` and `Exit` end the command. `SeedSubjects`, `SeedSelect`,
`SeedInsert` and `SeedComplete` are seed-subjects with its gap between the query and
the insert, `CreateCredential` the admin API. `AnsweredAs` is the id in the platform's
answer, which keys the row. `read`, `tried`, `raised`, `synced` and `seeded` are history
variables. Two simplifications:

- *A target of a cycle is fetched in one step* (`FetchTarget`), with any result that
  `FetchPromise` allows; call by call is only the command of one subject
  (`RunTarget`, `Call`, `Fetched`). The calls touch neither the table nor the other
  processes, so a fetch commutes with everything around it, and `ImplementsPromise`
  (checked, and proved as `FetchKeepsPromise`) says that call by call nothing else
  comes out. A crawl asks for less than a sync does and is given the same freedom.
- *The table has one column*, the status, with `pending` for a placeholder, and a
  sync is one transaction: how two syncs of one subject interleave, what a
  revocation does and what a crash leaves is `SubjectSync`.

**AlertEngine.** `Begin` takes a message for one subject or for all of them,
`Load` reads row and active rules in one session, `Judge` picks the rules that
fire (any set of metric rules, see `AlertBaseline` for which; `status_change`
exactly as the code compares), `CheckCooldown`, `Send` and `WriteLog` are the
three steps of `_persist_and_notify` for each alert. `DatabaseFails` may happen
at each access of the database, the first one of `evaluate_all` included, which reads
the subjects. `OpenClaims`, the alerts between check and log, are the claims of
`AlertCooldown`. `sent` is a history variable.
Rules are switched on and off only by a database administrator, because no
request's change of a rule is ever committed (see section 7).

**AlertBaseline.** A subject posts or does not at every instant (`posts`); a sync samples
the newest posts and records the followers and the `ActivityFrequency` of the sample,
which an error may have cut short (`cuts`, a history variable). `Load` reads the row,
`Judge` the window in a later session. Comparisons with a mean and a standard deviation are
made exact by multiplying with the number of values and squaring (`Spread`, `Outlier`), and
the sums are folds over the snapshots of the window.

**TaskBroker.** A delivery is a message, the number of its copy and its retries. `Take`,
`Discard`, `Finish`, `Retry`, `Acknowledge`, `Die` and `Start` are a worker's. `Finish` and
`Retry` publish (the request for an evaluation, or the retry under its own id) and put
the worker in `over`; only `Acknowledge` takes the delivery off its hands. A worker that
dies in between gives back a message that has had its effect: `Die` then leaves a
further copy, and `repeats` counts them. (In `SubjectSync` such a copy is one more
execution of `Tasks`.)
`Registered` is what each application's `include` makes known; the
`sync_all_*` functions are not decorated and therefore not in it.

**RateLimit.** `CountMinute` and `CountDay` are the two pipelines of
`RateLimitService.check`, with other requests in between; `CountLogin` is
`rate_limit_auth` and its copy in `auth/routes.py`. `FirstFails` and `SecondFails`
are a failure of Redis before or after it applied the pipeline.

**ResponseCache.** `Hit`, `Miss`, `LookupFails`, `Read`, `Store` and `StoreFails` are the
steps of `get_subject`, `list_subjects` and the activity route; `Commit` is a sync.
The data of a subject is the number of its changes.

**GatewaySession.** A request is a record of what it was asked and of its session.
Receiving it (`Login`, `Grant`, `CreatePlatform`, `SeedPlatform` of the command line, `UpdatePlatform`, `VerifyCredential`,
`CreateRule`, `UpdateRule`, `DeleteRule`) is the authorisation and the query that finds
the row; `Flush`, `FlushNothing` and `Refuse` are the one statement, which waits for the
row's lock and may meet a unique key or no row; `Commit` and `Answer` end the routes
that commit, `AnswerUncommitted` those that do not, and `Abort` a request that fails
anywhere. `Emits` and `RowAfter` say what the ORM writes: the columns that differ from
what the session read. A row is a value and, for users, a role. `tokens` are the JWTs
that were handed out; `Admins` is `require_admin`, which looks at nothing else.
`adminUntil` is a history variable.

## 3. What the runs check

Passing runs:

| Run | Instance | Shows |
|---|---|---|
| `SyncOverlap` | one YouTube channel, a message and a CLI run at once, a worker death, failures of the database and of the broker, no credential in the environment | row, snapshots, videos and requests for evaluations are consistent; a row that is behind its newest snapshot was written by an execution that overlapped another; what begins after a revocation records nothing; the tables implement `SubjectHistory`; the inductive invariants of the proofs hold |
| `SyncProgress` | one Facebook page, two messages, two worker processes, a retry and a death | under fairness every sync ends, and every commit is followed by a request for an evaluation unless a worker dies |
| `AlertOverlap` | two messages on one worker process and a CLI run beside it, a death, an error | duplicates are bounded by the evaluations at work, unlogged messages by deaths and errors; the log implements `AlertCooldown` while evaluations overlap and are redelivered |
| `AlertProgress` | two worker processes, an evaluation of all subjects, of which two have a rule, one of a subject without a row; a death and an error | every evaluation ends; the one of all subjects goes on to the next after an error |
| `BrokerShared` | two collector workers and an engine worker; a sync, a message of the beat's cycle and both evaluations; a retry, any number of deaths, one copy more of each message | a copy of a message is in one place, nothing published is lost, and nothing waits forever once workers stop dying and while one is up |
| `CycleRuns` | a page with 404 in its id, a channel, a TikTok account, and the same account registered without its open_id; two attempts, two pages of a list; a seeding, the admin API, database errors | every target is tried and the exit code tells of what raised; what was seeded is tried; a placeholder goes away; a subject that the platform says is missing is reported so; a fetch says `inactive` for a cause; the sample is the newest posts; the calls implement `FetchPromise`; every step, each exchange of a retry or a paging included, lessens the steps a command has left, and every command ends, but for empty pages that lead to others |
| `BaselineHistory` | posts, syncs and evaluations over six instants of twelve days, one list cut short | two deviations cannot be reached below six snapshots; a subject reported silent was silent, or its list was cut short |
| `RateWindows` | three requests of a key and of an address, windows of one and two seconds in thirds of a second, a failure of Redis | limits hold per window, twice the limit per interval, no rejection without cause, `Retry-After` at most half a second short |
| `CacheStaleness` | a subject and a list, overlapping fills, a failure of Redis | an answer misses a change for at most a time to live and one fill; 404 is never out of date |
| `SessionOverlap` | three requests of any kind on one user, platform, rule and credential; tokens that live one instant, a clock of two; failures anywhere | only grants change roles; a withdrawn role lets nobody in for longer than a token's life and a login; one creator per slug |

Runs that show a disagreement between the code and what the repository says
of it (each is a finding in `PROJECT.json`, with the quotation):

| Run | Counterexample |
|---|---|
| `BrokerRejects` | a worker of the collector takes the request for an evaluation, does not know its name and rejects it for good |
| `SessionRules` | a rule is created and confirmed, and gone when the session of the request is closed |

Other disagreements between code and documents that the modules reproduce,
without a run of their own:

- Of two overlapping syncs the older reading may commit last, and the row goes back
  behind the newest snapshot (`repository.py:53`). `RowIsLatest` says that only an overlap
  does that, and that the next sync which overlaps no other repairs it.
- Two evaluations of one subject that overlap both find the log clear and both send
  (`evaluator.py:244`), where the architecture document (v2, 592) promises "exactly one
  alert per cooldown window": `FloodBounded` and `NotificationsBounded` say how many,
  and `ImplementsCooldown` what the deduplication does keep.
- The beat names the `sync_all_*` functions (`collector/scheduler/celery_app.py:47`), which
  are plain functions and no tasks, where the module's docstring (3-5) says that it runs
  them: in `BrokerShared` every worker discards such a message.
- `errors.py` and the clients mean a missing page by 404, and look for the digits in
  a text that holds the path with the page's id and the whole body
  (`clients/base.py:164`, `clients/facebook.py:78`, `clients/youtube.py:87`): any refusal that
  mentions them is reported as not found. The converse is what holds:
  `MissingIsReported`.
- The pages of a playlist are asked for until the sample is full or no token comes
  (`clients/youtube.py:123-146`). A page without videos that names a next one adds nothing,
  and no page is counted, so nothing ends the loop but the platform, where the docstring
  (112-113) counts one call for every 50 items of the limit: the exception (`EmptyPage`) in
  `CommandDescends` and `CommandEnds`.
- TikTok's client raises only permanent errors, rate limits and timeouts included, where
  `errors.py:8-13` counts both as transient: `FetchPromise` has no transient result for
  TikTok, and none of its tasks is ever retried.
- TikTok's check that the cursor advances (`clients/tiktok.py:218-219`) comes after the
  one for an empty page and can never be true; the overall limit ends the loop
  (`CommandEnds` with `MayStick`), with doubles in the sample (`flawed`).
- An error of the TikTok list, a timeout included, ends the list as if it were all
  (`clients/tiktok.py:196-202`; also on a later page, where the docstring (174) has an empty
  list), and the subject may become inactive: the exception in
  `InactiveForCause` and `SilenceForCause`.
- A subject registered under an id the platform does not answer with (an empty
  open_id, `admin/platforms/service.py:190`, or a seeded one, `main.py:105`) stays a
  placeholder, where `docs/sprints/automated-sync-plan.md` (232) has the first sync replace it:
  `PendingForCause`.
- A `status_change` rule without an earlier entry compares the status with itself
  (`evaluator.py:214`): the change of the status that the architecture document (v2,
  585-587) promises to report fires nothing, and as nothing is logged it never will.
- A login that changes no column emits no UPDATE and leaves `last_login_at`
  (`auth/models.py:31`, `62`), a column the models leave out.
- The verification of a credential stores nothing (`admin/platforms/routes.py:337-340`):
  `AnswerUncommitted`.
- A revoked subject is made active by the next sync, which may use the
  environment's credential (`repository.py:59`, `service.py:260`); what a
  revocation does stop is `NoDataAfterRevocation`.
- A YouTube sync that fails in its second transaction leaves the first one
  committed (`tasks.py:430`, `repository.py:119`); `VideosBelongToSnapshot` bounds it.
- A subject the platform refuses stays active (`tasks.py:395`, `errors.py:17`):
  `FetchRefused` changes no table.
- An alert whose worker dies after the send is sent again, and one whose insert
  fails is sent and not stored (`evaluator.py:252`, `266`); `NotificationsBounded` and
  `AuditGap` say how often.
- `AlertBaseline` compares a reading with a window that holds it, so the spike of
  `test_evaluator.py:45` (500 after 100, 110, 120), if recorded by syncs, fires
  nothing: `OutlierNeedsHistory`.
- `activity_silence` needs three snapshots in the window (`evaluator.py:306`): three
  quiet syncs further apart fire nothing.
- A request beyond both limits is told the reset of the minute, and the two
  counters are two transactions (`rate_limit/service.py:65-82`): `RetryAfterNear` holds for the
  window that is named, `WindowRespected` for each counter.
- A sync does not touch the cache: `StalenessBounded` is all a client is promised.

### Bounds

Every bound is a constant with a name (`MaxTime`, `MaxRetries`, `MaxCrashes`,
`MaxRepeats`, `MaxFailures`, `MaxFaults`, `MaxChanges`, `Concurrency`).

- *Two executions* are what an overlap needs; every property of `SubjectSync`
  relates at most two executions or two snapshots. The clock has two instants:
  equal, earlier and later all occur. Two subjects share nothing but the supply of
  ids; that they stay apart is `IdsDistinct`, which is proved and not run.
- *One crash and one retry* (`SyncProgress`) together make an execution run three
  times; `SyncOverlap` has a crash and no retry, which is the same for the tables: the
  execution begins again. The proofs need no bound.
- *Broker*: workers die as often as they like; `MaxRepeats` bounds only the further copies
  of a message, which without it would be a counter. One copy more already runs beside
  its original on another worker, and both may be retried.
- *Two messages and a command line run* overlap by two and bring a third evaluation
  after them; the cooldown of two instants begins, holds and ends within the clock.
- *Three requests* exhaust both limits, cross both borders of the minute and the one
  of the day, and hit the failure of Redis before, between and after.
- *Cache*: three requests are a reader and two overlapping fills; times to live
  of one and two and a fill time of one let an entry expire while another fill
  is on its way. `FillTime` is an assumption: nothing in the code bounds the time
  between the read and the store, and `StalenessBounded` says what depends on it.
- *Sessions*: three requests are a login, a grant or withdrawal that overlaps it, and
  an administrator's request that uses the token, or three that create one
  platform. With `Expiry` and `RequestTime` of one the clock of two instants passes
  both the end of a token and the bound of `AdminAccessEnds`. At first all platforms,
  rules and credentials exist or none does, and all rows say the same (`MCInit`).
  `RequestTime` is an assumption like `FillTime`.
- *Baseline*: windows of up to six snapshots with two follower counts; six is the first
  size at which two deviations can be reached. A step of the clock is twelve days, so
  that thirty days begin, end and fall between two posts; a sample of two holds what
  the silence rule asks for and loses a third post. In six instants no snapshot leaves
  the window (with a seventh the state space is beyond the run); the theorem is for
  windows of any length, also those that the readings outgrow.
- *Cycles*: a platform of each kind, a subject in the environment's list and one that
  only the admin API knows, and a page, a channel and an account that are refused,
  busy or answered in every way of the models (`Codes`, `Bodies`, which hold any status). Two attempts are a
  retry and the last; lists of four posts (recent, undated, old) in pages of two with
  a limit of three are a full page, a part of one and a rest that is not asked for.
  The fallback and its end by the first row of a platform, a collision of the seeding
  with the admin API, and a crawl all happen. One command at a time: two share only
  the table, whose writers `SubjectSync` interleaves.

### Fairness

`SubjectSync` and `AlertEngine` assume weak fairness of each execution's steps,
`TaskBroker` of each worker's, `SyncCycle` of the steps of a command that runs. That is what a running Celery worker gives: it takes
the next message when it is free and executes it without waiting for anything
but the database, the platform and Telegram, each of which is asked with a
timeout. A command of `SyncCycle` is a single thread which ends because its lists of
targets, the attempts of a call and the pages of a list are bounded, except for the pages
of a playlist without videos: `CommandEnds` supposes that these stop coming (`EmptyPage`)
and assumes no other good behaviour of the platforms. Nothing is assumed about the clients, the beats, the administrators, the
clock, or about a worker that died: `MessagesSettle` supposes that workers at last stop
dying (a message that kills its worker is redelivered without end, and nothing in the
code counts that) and excuses messages while no worker is up; `CommitsAnnounced` is
checked where the broker accepts messages and excuses a death, after which the
redelivered task may be refused.
Deadlock is not checked: every instance ends when its messages, requests and
clock are used up.

## 4. What is proved

TLAPS checks the theorems below for every value of the constants that satisfies
the named assumption of the module. Those only say that the constants have the
types they have in the code (disjoint sets of clients, positive lengths of
windows, identifiers that differ from "none"). The theorems that count messages,
alerts and rejections assume, as a hypothesis, that the evaluations and the requests
of an execution are finitely many.

**SubjectSyncProofs** (`SyncAssumption`). None of the safety properties is inductive
by itself: `OkMeansPersisted` needs to know that the row's id did not change since
the task wrote it, `NoDataAfterRevocation` when a task read its token. `SyncInv` adds
what open transactions and running tasks know: `TransactionsIsolated` (an open
transaction holds the row's lock and an id nobody else has), `SavedStays` and
`SavedWhenCommitted` (what a task has committed is still there, and how far it is
says whether it has), `TokensWereActive` and `ActiveUntilNow`. From it follow type
correctness (`TypeCorrect`), `RowsFromSnapshots`, `SnapshotsHaveTheirRow`,
`HistoriesSeparate`, `RevocationStops`, `DependentsFollow`, `VideosFollow`, `OkIsDurable`, the action properties `IdsStay` and `SnapshotsStay`,
and `HistoryImplemented`: every step of every task is a step of `SubjectHistory` or
changes neither table. `RowsLatest` shows `RowIsLatest` for any number of workers and CLI
runs. `OverlapInv` adds to `SyncInv` what an execution knows that has overlapped no other
(`AloneIsAlone`): it is the only one of its subject under way and has read the clock
after every snapshot of the subject, so the row it writes is the newest again
(`OverlapsSafe`).

**AlertEngineProofs** (`EngineAssumption`). `EngineInv` carries, with each evaluation
that is about to write, the length of the log it checked and that this part of it was
clear. `CooldownImplemented` shows that the engine implements `AlertCooldown` for any
workers, CLI runs, deaths and errors: a check that finds the log clear is an `Ask`, an
entry an `Alert` of the claim its evaluation holds, a death or an error in between a
`GiveUp`. An entry inside the window of another was therefore asked for before that one
was written. `MessagesAccounted` needs no more than the types: a message
joins `sent` exactly when its evaluation goes on to write the entry, and leaves that
stage by an entry, a death or an error. Where evaluations do overlap, `FloodInv` counts
for every rule and every window the entries in it and the evaluations that asked
before the first of them was there (`Pending`): whoever asks later sees that entry
and does not alert, so the sum never exceeds what workers and CLI calls can have at
work at once. An entry adds one and takes its writer away (`WriterPending`).
`OverlapBounded` follows; `MessagesBounded` adds the messages that have no entry yet,
whose evaluations are pending too, and those that lost it.

**SyncCycleProofs** (`FetchAssumption`, `CycleAssumption`). The first part is about one
execution, whatever the platforms answer and for all page sizes, limits and lists.
`FetchInv`: each call is one of the platform's own (`CallsFit`), an outcome has its cause
(`OutcomesFit`), and a list that nothing has cut short has been read as the posts
`1 .. cursor`, so that a page continues those before. A sample of the newest posts makes
a subject inactive only if they show no activity, because the frequency counts them and
the post count is never less.

The second part is about the commands. `CycleInv`: what a command has read is what it has
tried and what is left (`CommandOK`), a task in hand is of a target that is left
(`InFlight`), the exit code so far counts what has raised, a seeding that ended well
left a row for all it had to seed (`SeedOK`), and each of those is read already or its
platform is still in the queue (`Queued`); `FetchInv` carries over. From it follow
`CycleTypeCorrect`, `CyclesComplete`, `ExitCodesTell`, `SeedingCounts`, `PlaceholdersResolve`,
`ListsFaithful`, `InactivityHasCause`; with `Heard` (whatever said that the subject does not
exist was the last exchange, whose outcome was `not_found`) `MissingReported`; and `FetchKeepsPromise`, the
refinement: a call is a stutter of `FetchPromise` but the last, which delivers.

`CommandsDescend` is what a proof of `CommandEnds` needs besides fairness: `StepsLeft` is a
natural number that every step of a command but an `EmptyPage` lessens and no step beside
it adds to (under `FiniteSubjects`, and `ResultAssumption`: `NoResult` is no result). `CallsLeft` counts
the exchanges of an execution, at most `MostCalls`: the attempts of the call under way
(`BusyNearer`), all attempts of the calls that come after it (`LaterNearer`), and a call
for every post the sample has room for, since every page but the last and the empty ones adds to it
(`UploadsNearer`; in `ListNearer` even if the cursor of TikTok does not move). It is in the
range because there is always room in a list that is read and an insight left to ask
for (`Unfinished`, which the steps keep). Targets are read once for each platform and taken
off the list when their task is over, so a command goes down by platforms, targets
and exchanges.

**AlertBaselineProofs** (`BaselineAssumption`). The sums of a window are folds, and the
induction theorems of the library take operators, which no prover here instantiates; so
`SubsetInduction` is proved from well-foundedness for the subsets of one finite set, and
from it that a sum has the value its recursion says (`SumChosen`), for any order of
choice (`SumRemove`). `SquareOfSum` is the inequality of Cauchy and Schwarz on such sums:
without the member that is judged, the deviations of the others add up to the
opposite of its own, so that its square is at most `(n - 1) / n` of the whole
(`DeviationOfMember`). `OutliersNeedHistory` follows for every window and every reading:
among `n` snapshots nothing fires unless `(n - 1)^2 >= sigma^2 * n`. `BaselineInv` adds that a
verdict is about a stored reading (`VerdictGrounded`) and that a stored frequency below
the threshold shows all posts of its last thirty days (`SnapshotsSampled`), because the
sample is the newest posts and one that shows fewer than it can hold shows all
(`SampleShowsAll`); `SilenceHasCause` follows. `BaselineTypes` is type correctness.

**TaskBrokerProofs** (`BrokerAssumption`). `OwnedInv` is type correctness and `OneOwner`;
`CopiesHaveOneOwner` and `MessagesKept` follow from it. A copy is new when a death leaves
it, because `repeats` bounds the copies there are; a message stays kept because what
publishes it again comes before its acknowledgement.

**RateLimitProofs** (`RateLimitAssumption`). `LimitInv`: `INCR` is atomic, so the counts
of one window differ from each other and stay behind the counter; whoever was let
in has a count within the limit. `WindowsRespected` follows because different
numbers in `1 .. Limit` are at most `Limit` many. For time, `TimeInv` adds where windows
lie (`Placed`: a count is made less than a length before the end of its window, and a
window opens only when the one before it is over), so an interval of a window's
length reaches into at most two windows, each of which admits at most its limit
(`SlidingIsBounded`); that every number up to the count of a request was counted by a
request of the same client in the same window (`Preceded`), so a rejection has a
limit's worth of others before it (`RejectionHasCause`); and what a rejected request
was told (`Judged`), from which the rounding of TTL gives `RetryAfterIsNear`.

**ResponseCacheProofs** (`CacheAssumption`). `CacheInv`: what a request has read was
current when it read, an entry expires a time to live and a fill after the first
change it misses; `StalenessIsBounded` follows. `MissingIsCurrent` needs that "not
found" is never stored for a subject, so whoever answers it has looked it up itself.

**GatewaySessionProofs** (`SessionAssumption`: the tables' keys are disjoint). None of the
three properties is inductive. `SessionInv` adds that a flushed row is held by
one session (`WritesIsolated`), so what that session flushed still fits the row when
it commits (`WritesFit`); and how old the role of a token can be: the role in a
token was the row's role when its login began, at most `RequestTime` before. From
it follow `SessionTypes`, `AccessEnds`, `PlatformsOnce` and `RolesStay`.

Only model-checked: liveness (`TasksSettle`, `CommitsAnnounced`, `EvaluationsSettle`,
`MessagesSettle`, `CommandEnds`), which is out of the prover's reach; of `CommandEnds` the
ranking is proved. Every safety invariant, action property and refinement that a run
checks has its theorem. Type correctness is proved for every module (of `TaskBroker` in
`OwnedInv`), and so no run repeats it.

## 5. Plan

Done, in this order: the tables and the sync (1), the alert engine (2), the
broker (3), the baseline (4), the rate limits (5), the cache (6), the sessions of the
gateway (7), the clients and normalizers (8), the command line, its cycles and
crawls (9), each with its runs and its proofs. What could come next:

1. API keys in `GatewaySession`: their creation and revocation, against requests of
   `RateLimit` that are already let in; and of a request: its effects appear with
   its answer or not at all, except where it aborts between the commit and the answer.
2. The gateway as one: rate limit, cache and session of a request in one module
   that composes `RateLimit`, `ResponseCache` and `GatewaySession`.
3. Proofs: ranks for the executions of `SubjectSync` and `AlertEngine` and for the
   messages of `TaskBroker`, as `StepsLeft` is one for the commands; abstract
   specifications of the broker (a queue that delivers at least once), the cache and the
   limits, with their refinements.

## 6. Not modelled

- *Data that nothing depends on*: formatting of messages, logging, response schemas,
  names, pictures, insights and aggregated statistics of the normalizers, rounding
  of floating-point numbers.
- *Cryptography*: a credential decrypts or does not, a signature is valid or not.
- *Commands and calls without interleavings of their own*: store-credential (one
  insert), get_post_comments (called by no task), the webhook, the health checks and
  setup_webhook.py (stateless); reads and filters of the gateway that are not cached.
- *The mini app's query cache*, a second cache with a time of its own over
  `ResponseCache`: instances of the two together that show more than the sum of the
  two bounds are beyond TLC's reach.
- *Time*: the waits between retries, the visibility timeout of the Redis broker.
- *Migrations, configuration, deployment* beyond which processes run and which
  credentials, lists and platforms are set.

The status of each component is in `PROJECT.json`.

## 7. Things the models rest on

- A session of the gateway's `get_db_session` is closed and not committed by the
  dependency (`gateway/deps.py:47-53`). Logins, grants and the services of the admin
  API commit themselves; the verification of a credential and the alert rules do not.
  `GatewaySession` follows the code, and `AlertEngine` and `SubjectSync` its consequence:
  the admin operations are durable, the alert rule operations change nothing.
- PostgreSQL runs at READ COMMITTED. A transaction that has written a row holds
  its lock until the end; a unique key makes the second insert wait and fail.
- A Redis pipeline is a transaction (`MULTI`/`EXEC`, the default of the client).
- A Celery worker with `task_acks_late` and `task_reject_on_worker_lost` gives the
  message back when its process dies.
- A worker's retry and its request for an evaluation are published before its own
  message is acknowledged, in two steps (`acks_late`, `collector/scheduler/celery_app.py:32-33`).

## 8. Running

    tlc -config SyncOverlap.cfg MCSubjectSync.tla
    tlapm SubjectSyncProofs.tla

The module of each run is in `PROJECT.json`. `AlertBaseline` is run directly, all
others through their `MC` module. Definitions that begin with the comment
"Fault:" are not part of any specification: each is a plausible mistake in the
operator after it, and `PROJECT.json` names under `mutants` the property that
notices when the mistake takes its place.
