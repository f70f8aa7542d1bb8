------------------------------ MODULE SyncCycle ------------------------------
(***************************************************************************)
(* The collector's command line over the subjects table: sync-all and the  *)
(* commands of one platform or one subject read their targets and run the  *)
(* sync task of each as a plain function (PlatformFetch is what it asks    *)
(* of the platform), while seed-subjects inserts placeholders of the       *)
(* environment's lists and the admin API creates subjects with             *)
(* credentials.  Rows are never deleted.  The crawl scripts go through     *)
(* the environment's list with its token, and count a refusal as failure.  *)
(*                                                                         *)
(* A command of one subject makes the calls of PlatformFetch one by one.   *)
(* In the cycles the calls of a target are one step, with any result that  *)
(* FetchPromise allows: they touch nothing of what the other processes     *)
(* read or write, and ImplementsPromise says that they keep the promise.   *)
(***************************************************************************)
EXTENDS PlatformFetch

CONSTANTS
  Env,         \* the subjects in the environment's lists
  EnvTokens,   \* the platforms with a credential in the environment
  Enabled,     \* the platforms whose syncs are enabled
  AnsweredAs,  \* the subject whose id the platform answers with
  Registered,  \* the subjects the admin API may be asked to create
  DbMayFail,   \* whether a query or a transaction may fail
  NoResult

ASSUME CycleAssumption ==
  /\ Env \subseteq Subjects
  /\ Registered \subseteq Subjects
  /\ EnvTokens \subseteq {"facebook", "youtube"}
  /\ Enabled \subseteq Platforms
  /\ AnsweredAs \in [Subjects -> Subjects]
  /\ \A s \in Subjects : PlatformOf[AnsweredAs[s]] = PlatformOf[s]
  /\ DbMayFail \in BOOLEAN

\* The table and the environment's lists are finite.
ASSUME FiniteSubjects == IsFiniteSet(Subjects)

VARIABLES
  result,  \* what the task under way has fetched
  table,   \* table[s]: the row of s: none, a placeholder, or its status
  linked,  \* the subjects whose row has a usable credential
  cycle,   \* the sync command under way
  read,    \* history: the targets the command has read
  tried,   \* history: the targets whose task has run
  raised,  \* history: one of them has raised (or failed, in a crawl)
  synced,  \* history: the subjects whose task has ever ended well
  seed,    \* the seed-subjects command
  seeded   \* history: a seed-subjects had ended well before the command began

cycleVars == <<cycle, read, tried, raised, seeded>>
tableVars == <<table, linked, synced>>
taskVars == <<fetchVars, result>>
vars == <<taskVars, tableVars, cycleVars, seed>>

\* What the promise is about: the result is there when the last call is made.
InHand == IF fetch.call = "end" THEN Result ELSE result

Promise == INSTANCE FetchPromise
  WITH Subjects <- Subjects, PlatformOf <- PlatformOf, NoResult <- NoResult, result <- InHand

ASSUME ResultAssumption == \A s \in Subjects : NoResult \notin Promise!Results(s)

Rows == {"none", "pending", "active", "inactive"}

\* What a command goes through.
PlatformsOf(command) ==
  CASE command = "sync-all" -> <<"facebook", "youtube", "tiktok">>
    [] command = "sync-facebook" -> <<"facebook">>
    [] command = "sync-youtube" -> <<"youtube">>
    [] command = "sync-tiktok" -> <<"tiktok">>

Commands == {"sync-all", "sync-facebook", "sync-youtube", "sync-tiktok"}
Crawls == {"crawl", "crawl --no-persist"}

Cycle == [command : Commands \cup Crawls \cup {"none", "sync-one"}, queue : Seq(Platforms),
          left : SUBSET Subjects, failures : BOOLEAN, rc : {0, 1}, done : BOOLEAN]

NoCommand == [command |-> "none", queue |-> <<>>, left |-> {}, failures |-> FALSE,
              rc |-> 0, done |-> FALSE]

Init ==
  /\ FetchInit /\ result = NoResult
  /\ table = [s \in Subjects |-> "none"] /\ linked = {} /\ synced = {}
  /\ cycle = NoCommand
  /\ read = {} /\ tried = {} /\ raised = FALSE
  /\ seed = [state |-> "off", todo |-> {}, key |-> NoSubject]
  /\ seeded = FALSE

Running == cycle.command # "none" /\ ~cycle.done

-----------------------------------------------------------------------------
(* The sync commands. *)

Start(command, queue, left) ==
  /\ cycle.command = "none"
  /\ cycle' = [NoCommand EXCEPT !.command = command, !.queue = queue, !.left = left]
  /\ read' = left /\ tried' = {} /\ raised' = FALSE
  /\ seeded' = (seed.state = "ok")
  /\ UNCHANGED <<taskVars, tableVars, seed>>

SyncCommand == \E command \in Commands : Start(command, PlatformsOf(command), {})

SyncOne(s) == Start("sync-one", <<>>, {s})

\* crawl_facebook.py and crawl_youtube.py, of one subject or of those in the
\* environment; they end at once without a token or without a subject.
Crawl ==
  \E command \in Crawls, p \in EnvTokens :
    LET ofPlatform == {s \in Subjects : PlatformOf[s] = p} IN
    \E targets \in {ofPlatform \cap Env} \cup {{s} : s \in ofPlatform} :
      targets # {} /\ Start(command, <<>>, targets)

\* Fault: placeholders do not count.
InTableActive(p) == {s \in Subjects : PlatformOf[s] = p /\ table[s] = "active"}

\* _db_targets
InTable(p) == {s \in Subjects : PlatformOf[s] = p /\ table[s] # "none"}

\* The environment's list counts only while the table has no subject.
Targets(p) ==
  IF p \notin Enabled THEN {}
  ELSE IF InTable(p) # {} THEN InTable(p)
  ELSE {s \in Env : PlatformOf[s] = p /\ (p = "tiktok" \/ p \in EnvTokens)}

\* Fault: the exit code is the last platform's.
ReadTargetsForgetting ==
  /\ Running /\ cycle.left = {} /\ cycle.queue # <<>>
  /\ LET targets == Targets(Head(cycle.queue)) IN
     /\ cycle' = [cycle EXCEPT !.queue = Tail(@), !.left = targets, !.failures = FALSE,
                               !.rc = 0]
     /\ read' = read \cup targets
  /\ UNCHANGED <<taskVars, tableVars, tried, raised, seed, seeded>>

\* The next platform: its aggregate of the one before joins the exit code.
ReadTargets ==
  /\ Running /\ cycle.left = {} /\ cycle.queue # <<>>
  /\ LET targets == Targets(Head(cycle.queue)) IN
     /\ cycle' = [cycle EXCEPT !.queue = Tail(@), !.left = targets, !.failures = FALSE,
                               !.rc = IF cycle.failures THEN 1 ELSE @]
     /\ read' = read \cup targets
  /\ UNCHANGED <<taskVars, tableVars, tried, raised, seed, seeded>>

\* The query of the targets is in no try: its error ends the command.
ReadTargetsFails ==
  /\ DbMayFail
  /\ Running /\ cycle.left = {} /\ cycle.queue # <<>>
  /\ Head(cycle.queue) \in Enabled
  /\ cycle' = [cycle EXCEPT !.rc = 1, !.done = TRUE]
  /\ UNCHANGED <<taskVars, tableVars, read, tried, raised, seed, seeded>>

\* The command has gone through its platforms.
Complete ==
  /\ Running /\ cycle.left = {} /\ cycle.queue = <<>>
  /\ cycle' = [cycle EXCEPT !.rc = IF cycle.failures THEN 1 ELSE @, !.done = TRUE]
  /\ UNCHANGED <<taskVars, tableVars, read, tried, raised, seed, seeded>>

Exit ==
  /\ cycle.done
  /\ cycle' = NoCommand /\ read' = {} /\ tried' = {} /\ raised' = FALSE /\ seeded' = FALSE
  /\ UNCHANGED <<taskVars, tableVars, seed>>

-----------------------------------------------------------------------------
(* One target. *)

\* Fault: an error ends the loop.
OverAtFirstError(s, error) ==
  /\ tried' = tried \cup {s} /\ raised' = (raised \/ error)
  /\ cycle' = [cycle EXCEPT !.left = IF error THEN {} ELSE @ \ {s}, !.failures = @ \/ error]

\* The task of s is over: a cycle counts an error and goes on, the command of
\* one subject ends with it.
Over(s, error) ==
  /\ tried' = tried \cup {s} /\ raised' = (raised \/ error)
  /\ cycle' = [cycle EXCEPT !.left = @ \ {s}, !.failures = @ \/ error]

Ready(s) == Running /\ s \in cycle.left /\ fetch.call = "idle" /\ result = NoResult

Crawling == cycle.command \in Crawls

Token(s) == s \in linked \/ PlatformOf[s] \in EnvTokens

\* The task begins: the credential of the row, else the environment's.
RunTarget(s) ==
  /\ Ready(s) /\ cycle.command = "sync-one"
  /\ Open(s, Token(s))
  /\ UNCHANGED <<result, tableVars, cycleVars, seed>>

Call ==
  /\ Exchange
  /\ UNCHANGED <<result, tableVars, cycleVars, seed>>

Fetched ==
  /\ fetch.call = "end"
  /\ result' = Result
  /\ Close
  /\ UNCHANGED <<tableVars, cycleVars, seed>>

\* The task of a target of a cycle, up to its result.  A crawl asks for the
\* uploads of a channel that has no playlist of them, and gets none.
FetchTarget(s) ==
  /\ Ready(s) /\ cycle.command # "sync-one"
  /\ result' \in Promise!Results(s)
  /\ Crawling => result'.outcome # "no_uploads_playlist"
  /\ IF Token(s) THEN result'.outcome # "no_credentials"
     ELSE result'.outcome = IF PlatformOf[s] = "tiktok" THEN "no_credentials" ELSE "permanent"
  /\ UNCHANGED <<fetchVars, tableVars, cycleVars, seed>>

\* The lookup of the credential fails.
LookupFails(s) ==
  /\ DbMayFail
  /\ Ready(s) /\ ~Crawling
  /\ Over(s, TRUE)
  /\ UNCHANGED <<taskVars, tableVars, read, seed, seeded>>

Has(outcomes) == result # NoResult /\ result.outcome \in outcomes

Recorded == Has({"data"}) /\ cycle.command # "crawl --no-persist"

\* Fault: a subject that exists is not updated.
PersistNew ==
  /\ Recorded
  /\ LET s == AnsweredAs[result.subj] IN
     table' = [table EXCEPT ![s] = IF @ = "none" THEN result.status ELSE @]
  /\ synced' = synced \cup {result.subj}
  /\ Over(result.subj, FALSE)
  /\ result' = NoResult
  /\ UNCHANGED <<fetchVars, linked, read, seed, seeded>>

\* The row is the one of the id in the answer: an update keeps its credential,
\* a new one has none.
Persist ==
  /\ Recorded
  /\ table' = [table EXCEPT ![AnsweredAs[result.subj]] = result.status]
  /\ synced' = synced \cup {result.subj}
  /\ Over(result.subj, FALSE)
  /\ result' = NoResult
  /\ UNCHANGED <<fetchVars, linked, read, seed, seeded>>

PersistFails ==
  /\ DbMayFail
  /\ Recorded
  /\ Over(result.subj, TRUE)
  /\ result' = NoResult
  /\ UNCHANGED <<fetchVars, tableVars, read, seed, seeded>>

\* What the task reports as a status, and what it raises; the row stays as it is.
Return ==
  /\ result # NoResult /\ ~Recorded
  /\ Over(result.subj, Has({"transient", "error"}) \/ (Crawling /\ ~Has({"data"})))
  /\ result' = NoResult
  /\ UNCHANGED <<fetchVars, tableVars, read, seed, seeded>>

-----------------------------------------------------------------------------
(* Where rows come from. *)

\* create_credential of the admin API, with the placeholder of its subject; the
\* unique key refuses a subject that is there.
CreateCredential(s) ==
  /\ s \in Registered /\ table[s] = "none"
  /\ table' = [table EXCEPT ![s] = "pending"] /\ linked' = linked \cup {s}
  /\ UNCHANGED <<synced, taskVars, cycleVars, seed>>

SeedSubjects ==
  /\ seed.state \in {"off", "failed"}
  /\ seed' = [state |-> "select", todo |-> {s \in Env : PlatformOf[s] # "tiktok"},
              key |-> NoSubject]
  /\ UNCHANGED <<taskVars, tableVars, cycleVars>>

SeedSelect(s) ==
  /\ seed.state = "select" /\ s \in seed.todo
  /\ seed' = IF table[s] = "none" THEN [seed EXCEPT !.state = "insert", !.key = s]
             ELSE [seed EXCEPT !.todo = @ \ {s}]
  /\ UNCHANGED <<taskVars, tableVars, cycleVars>>

\* The insert collides with a row created since, and the command dies of it.
SeedInsert ==
  /\ seed.state = "insert"
  /\ IF table[seed.key] = "none"
     THEN /\ table' = [table EXCEPT ![seed.key] = "pending"]
          /\ seed' = [state |-> "select", todo |-> seed.todo \ {seed.key}, key |-> NoSubject]
     ELSE /\ seed' = [state |-> "failed", todo |-> {}, key |-> NoSubject]
          /\ UNCHANGED table
  /\ UNCHANGED <<linked, synced, taskVars, cycleVars>>

SeedComplete ==
  /\ seed.state = "select" /\ seed.todo = {}
  /\ seed' = [seed EXCEPT !.state = "ok"]
  /\ UNCHANGED <<taskVars, tableVars, cycleVars>>

-----------------------------------------------------------------------------

Sync ==
  \/ ReadTargets \/ ReadTargetsFails \/ Complete
  \/ \E s \in Subjects : RunTarget(s) \/ FetchTarget(s) \/ LookupFails(s)
  \/ Call \/ Fetched \/ Persist \/ PersistFails \/ Return

Next ==
  \/ SyncCommand \/ (\E s \in Subjects : SyncOne(s)) \/ Crawl \/ Sync \/ Exit
  \/ \E s \in Subjects : CreateCredential(s) \/ SeedSelect(s)
  \/ SeedSubjects \/ SeedInsert \/ SeedComplete

Fairness == WF_vars(Sync)

Spec == Init /\ [][Next]_vars /\ Fairness

-----------------------------------------------------------------------------
(* Properties. *)

Finished == cycle.done /\ cycle.left = {} /\ cycle.queue = <<>>

TypeOK ==
  /\ FetchTypeOK
  /\ result \in {NoResult} \cup UNION {Promise!Results(s) : s \in Subjects}
  /\ table \in [Subjects -> Rows]
  /\ linked \subseteq {s \in Subjects : table[s] # "none"}
  /\ cycle \in Cycle
  /\ read \subseteq Subjects /\ tried \subseteq read /\ synced \subseteq Subjects
  /\ raised \in BOOLEAN
  /\ seed \in [state : {"off", "select", "insert", "ok", "failed"}, todo : SUBSET Env,
              key : Env \cup {NoSubject}]
  /\ seeded \in BOOLEAN

\* How many steps the command has left, at most: of each target the query, the
\* exchanges, the result and the transaction, of each platform a read of targets,
\* and its end.
StepsOfTarget == MostCalls + 3

StepsInHand ==
  IF result # NoResult THEN 1
  ELSE IF fetch.call = "end" THEN 2
  ELSE IF fetch.call = "idle" THEN StepsOfTarget
  ELSE CallsLeft(fetch) + 2

StepsLeft ==
  IF ~Running THEN 0
  ELSE 1 + Len(cycle.queue) * (1 + Cardinality(Subjects) * StepsOfTarget)
         + (IF cycle.left = {} THEN 0
            ELSE (Cardinality(cycle.left) - 1) * StepsOfTarget + StepsInHand)

\* Every step of a command brings its end nearer, however often a platform is
\* busy, and no other process moves it away: retries and paging end, targets are
\* not tried twice, and no command reads them again.  The one exception is a page
\* of a playlist without videos that leads to another.
CommandDescends ==
  [][ ~EmptyPage => /\ Sync => StepsLeft' \in 0 .. StepsLeft - 1
                    /\ cycle.command # "none" => StepsLeft' \in 0 .. StepsLeft ]_vars

\* A command that went through its platforms has run the task of every target it
\* has read, whatever the others did.
EveryTargetTried == Finished => tried = read

\* It exits with 1 exactly when a task raised, or a crawl of one failed: what a
\* platform refuses leaves no trace in the exit code of a sync.
ExitCodeTells == Finished => (cycle.rc = 1 <=> raised)

\* After a seed-subjects that ended well, a sync-all tries every subject of the
\* environment's lists that seed-subjects inserts, Facebook's and YouTube's, if
\* its platform is enabled.
SeededTargetsTried ==
  Finished /\ cycle.command = "sync-all" /\ seeded
  => {s \in Env : PlatformOf[s] \in Enabled \ {"tiktok"}} \subseteq tried

\* A subject that has been synced is no longer a placeholder, unless its
\* platform answers with another id.
PendingForCause ==
  \A s \in synced : table[s] \in {"none", "pending"} => AnsweredAs[s] # s

\* The calls of the clients give a result the cycles are ready for.
ImplementsPromise == Promise!PromiseSpec

\* A sync command comes to its end, whatever the platforms answer, unless one
\* answers for ever with a page without videos that leads to another.
CommandEnds == <>[][~EmptyPage]_vars => (Running ~> cycle.done)
=============================================================================
