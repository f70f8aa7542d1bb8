----------------------------- MODULE AlertEngine -----------------------------
(***************************************************************************)
(* The alert engine's evaluations over the shared database: a message (or  *)
(* a CLI call) names one subject or all of them; for each subject the      *)
(* evaluation loads the row and its active rules, judges them, and for     *)
(* every rule that fires checks the cooldown, sends a Telegram message and *)
(* only then writes the log entry the next cooldown check will read.       *)
(* Nothing locks the rule in between.                                      *)
(***************************************************************************)
EXTENDS Naturals, Sequences, FiniteSets

CONSTANTS
  Subjects,           \* subject ids a message can name
  Known,              \* those that have a row
  Rules,              \* alert rules
  RuleSubject,        \* the subject of each rule
  StatusRules,        \* the rules of type status_change
  Cooldown,           \* cooldown_seconds of each rule
  Statuses,           \* values of the subject's status column
  Evaluations,        \* evaluations requested: Celery messages and CLI calls
  AllEvaluations,     \* those of every subject (evaluate_all_alerts)
  DirectEvaluations,  \* those run by the CLI
  About,              \* the subject that the others are about
  Concurrency,        \* how many messages the workers execute at once
  MaxTime,            \* bound on the clock
  MaxCrashes,         \* bound on worker deaths
  MaxFailures         \* bound on database errors

Times == 0 .. MaxTime

ASSUME EngineAssumption ==
  /\ Known \subseteq Subjects
  /\ RuleSubject \in [Rules -> Known]
  /\ StatusRules \subseteq Rules
  /\ Cooldown \in [Rules -> Nat]
  /\ AllEvaluations \subseteq Evaluations /\ DirectEvaluations \subseteq Evaluations
  /\ About \in [Evaluations -> Subjects]
  /\ Concurrency \in Nat \ {0}
  /\ MaxTime \in Nat /\ MaxCrashes \in Nat /\ MaxFailures \in Nat
  /\ Statuses # {} /\ Rules # {}

VARIABLES
  clock,     \* the wall clock
  active,    \* active[r]: is_active of the rule
  status,    \* status[s]: the status column of the subject
  logs,      \* alert_logs, in the order of the commits
  task,      \* task[t]: the state of each evaluation
  sent,      \* history: the messages Telegram has shown, as [rule, at]
  crashes,   \* worker deaths so far
  failures   \* database errors so far

vars == <<clock, active, status, logs, task, sent, crashes, failures>>

\* The alerts evaluations were cleared for and have not logged.
OpenClaims ==
  {[by |-> t, rule |-> task[t].rule, at |-> task[t].asked] :
     t \in {u \in Evaluations : task[u].pc \in {"sending", "logging"}}}

AlertLog == INSTANCE AlertCooldown
  WITH Rules <- Rules, Cooldown <- Cooldown, Times <- Times, Statuses <- Statuses,
       Evaluations <- Evaluations, logs <- logs, claims <- OpenClaims

Task == [pc : {"idle", "queued", "picking", "loaded", "notifying", "sending",
               "logging", "acking", "done"},
         todo : SUBSET Subjects, rules : SUBSET Rules, status : Statuses,
         rule : Rules, asked : Times, seen : Nat, at : Times, delivered : BOOLEAN,
         result : {"none", "ok", "error", "lost"}]

Running == {"picking", "loaded", "notifying", "sending", "logging", "acking"}

NoRule == CHOOSE r \in Rules : TRUE

\* An evaluation that has not read anything.
Fresh(pc) ==
  [pc |-> pc, todo |-> {}, rules |-> {}, status |-> CHOOSE st \in Statuses : TRUE,
   rule |-> NoRule, asked |-> 0, seen |-> 0, at |-> 0,
   delivered |-> FALSE, result |-> "none"]

Init ==
  /\ clock = 0
  /\ active \in [Rules -> BOOLEAN]
  /\ status \in [Subjects -> Statuses]
  /\ logs = <<>>
  /\ task = [t \in Evaluations |-> Fresh("idle")]
  /\ sent = <<>>
  /\ crashes = 0 /\ failures = 0

-----------------------------------------------------------------------------

Become(t, r) == task' = [task EXCEPT ![t] = r]

\* The evaluation t goes on at pc, done with its current alert.
Proceed(t, pc) ==
  [task[t] EXCEPT !.pc = pc, !.rule = NoRule, !.asked = 0, !.seen = 0, !.at = 0,
                  !.delivered = FALSE]

database == <<active, status, logs>>
bounds == <<crashes, failures>>

WorkerFree ==
  Cardinality({t \in Evaluations \ DirectEvaluations : task[t].pc \in Running}) < Concurrency

\* send_task of the collector, the beat schedule, or the CLI.
Request(t) ==
  /\ task[t].pc = "idle"
  /\ Become(t, Fresh("queued"))
  /\ UNCHANGED <<clock, database, sent, bounds>>

\* The task starts; evaluate_all_alerts reads which subjects have active rules.
Begin(t) ==
  /\ task[t].pc = "queued"
  /\ t \in DirectEvaluations \/ WorkerFree
  /\ Become(t, [task[t] EXCEPT
       !.pc = "picking",
       !.todo = IF t \in AllEvaluations
                  THEN {RuleSubject[r] : r \in {x \in Rules : active[x]}}
                  ELSE {About[t]}])
  /\ UNCHANGED <<clock, database, sent, bounds>>

\* _load_subject_and_rules, in one session; a subject without a row is skipped.
Load(t) ==
  /\ task[t].pc = "picking"
  /\ \E s \in task[t].todo :
       Become(t, IF s \in Known
                   THEN [task[t] EXCEPT
                           !.pc = "loaded", !.todo = @ \ {s}, !.status = status[s],
                           !.rules = {r \in Rules : active[r] /\ RuleSubject[r] = s}]
                   ELSE [task[t] EXCEPT !.todo = @ \ {s}])
  /\ UNCHANGED <<clock, database, sent, bounds>>

\* The status in the subject's last status_change entry: the next one fires
\* only against it, and without one the status is taken as unchanged.
LastReported(s, default) ==
  LET entries == {i \in DOMAIN logs :
                    logs[i].rule \in StatusRules /\ RuleSubject[logs[i].rule] = s}
      latest == {i \in entries : \A j \in entries : logs[j].at <= logs[i].at}
  IN IF entries = {} THEN {default} ELSE {logs[i].status : i \in latest}

\* Any of the metric rules may fire; a status rule fires when the status is
\* not the one last reported.  Nothing fired: the subject is finished.
Judge(t) ==
  /\ task[t].pc = "loaded"
  /\ \E metric \in SUBSET (task[t].rules \ StatusRules), old \in Statuses :
       LET statusRules == {r \in task[t].rules \cap StatusRules : old # task[t].status}
           fired == metric \cup statusRules
       IN /\ \A r \in task[t].rules \cap StatusRules :
               old \in LastReported(RuleSubject[r], task[t].status)
          /\ Become(t, [task[t] EXCEPT
               !.pc = IF fired = {} THEN "picking" ELSE "notifying", !.rules = fired])
  /\ UNCHANGED <<clock, database, sent, bounds>>

\* Follower and activity rules come before status rules.
IsNext(t, r) ==
  /\ r \in task[t].rules
  /\ r \in StatusRules => task[t].rules \subseteq StatusRules

\* Fault: only delivered alerts start a cooldown.
CooldownOfDelivered(r) ==
  \E i \in AlertLog!EntriesOf(r) : logs[i].delivered /\ clock < logs[i].at + Cooldown[r]

\* Fault: the cooldown ends one instant early.
CooldownEndsEarly(r) == \E i \in AlertLog!EntriesOf(r) : clock + 1 < logs[i].at + Cooldown[r]

\* _check_cooldown: the rule's latest entry is younger than its cooldown.
InCooldown(r) == \E i \in AlertLog!EntriesOf(r) : clock < logs[i].at + Cooldown[r]

\* Fault: an alert in its cooldown is tried again instead of skipped.
WaitForCooldown(t) ==
  /\ task[t].pc = "notifying"
  /\ \E r \in Rules :
       /\ IsNext(t, r) /\ ~InCooldown(r)
       /\ Become(t, [task[t] EXCEPT !.pc = "sending", !.rule = r, !.rules = @ \ {r},
                                    !.asked = clock, !.seen = Len(logs)])
  /\ UNCHANGED <<clock, database, sent, bounds>>

CheckCooldown(t) ==
  /\ task[t].pc = "notifying"
  /\ \E r \in Rules :
       /\ IsNext(t, r)
       /\ Become(t, IF InCooldown(r)
                      THEN [task[t] EXCEPT !.rules = @ \ {r}]
                      ELSE [task[t] EXCEPT !.pc = "sending", !.rule = r, !.rules = @ \ {r},
                                           !.asked = clock, !.seen = Len(logs)])
  /\ UNCHANGED <<clock, database, sent, bounds>>

\* The last fired rule of the subject is dealt with.
SubjectDone(t) ==
  /\ task[t].pc = "notifying" /\ task[t].rules = {}
  /\ Become(t, [task[t] EXCEPT !.pc = "picking"])
  /\ UNCHANGED <<clock, database, sent, bounds>>

\* send_alert_notification, and triggered_at of the entry: Telegram accepts;
\* or nothing is sent; or the message is shown and its answer is lost.
Send(t) ==
  /\ task[t].pc = "sending"
  /\ \E delivered, shown \in BOOLEAN :
       /\ delivered => shown
       /\ sent' = IF shown THEN Append(sent, [rule |-> task[t].rule, at |-> clock]) ELSE sent
       /\ Become(t, [task[t] EXCEPT !.pc = "logging", !.at = clock, !.delivered = delivered])
  /\ UNCHANGED <<clock, database, bounds>>

\* Fault: an alert that was not delivered is not logged.
LogDeliveredOnly(t) ==
  /\ task[t].pc = "logging"
  /\ logs' = IF task[t].delivered
               THEN Append(logs, [rule |-> task[t].rule, at |-> task[t].at,
                                  delivered |-> TRUE, status |-> task[t].status])
               ELSE logs
  /\ Become(t, Proceed(t, "notifying"))
  /\ UNCHANGED <<clock, active, status, sent, bounds>>

\* The entry is committed.
WriteLog(t) ==
  /\ task[t].pc = "logging"
  /\ logs' = Append(logs, [rule |-> task[t].rule, at |-> task[t].at,
                           delivered |-> task[t].delivered, status |-> task[t].status])
  /\ Become(t, Proceed(t, "notifying"))
  /\ UNCHANGED <<clock, active, status, sent, bounds>>

\* A database error (also an entry whose message exceeds its column).  It ends
\* evaluate_all when that reads its subjects; later it ends the subject's
\* evaluation, and evaluate_all catches it and goes on with the next subject,
\* while any other task fails.
DatabaseFails(t) ==
  /\ failures < MaxFailures
  /\ failures' = failures + 1
  /\ \/ /\ task[t].pc = "queued" /\ t \in AllEvaluations
        /\ t \in DirectEvaluations \/ WorkerFree
        /\ Become(t, [task[t] EXCEPT !.pc = "acking", !.result = "error"])
     \/ /\ task[t].pc \in {"loaded", "notifying", "logging"}
        /\ task[t].pc = "notifying" => task[t].rules # {}
        /\ Become(t, IF t \in AllEvaluations
                       THEN [Proceed(t, "picking") EXCEPT !.rules = {}]
                       ELSE [Proceed(t, "acking") EXCEPT !.rules = {}, !.result = "error"])
  /\ UNCHANGED <<clock, database, sent, crashes>>

\* Every subject is dealt with, and the task returns.
Finish(t) ==
  /\ task[t].pc = "picking" /\ task[t].todo = {}
  /\ Become(t, [task[t] EXCEPT !.pc = "acking", !.result = "ok"])
  /\ UNCHANGED <<clock, database, sent, bounds>>

Acknowledge(t) ==
  /\ task[t].pc = "acking"
  /\ Become(t, [Fresh("done") EXCEPT !.result = task[t].result])
  /\ UNCHANGED <<clock, database, sent, bounds>>

\* The worker dies and the message, not acknowledged, is delivered again.
Crash(t) ==
  /\ task[t].pc \in Running
  /\ crashes < MaxCrashes
  /\ crashes' = crashes + 1
  /\ Become(t, IF t \in DirectEvaluations THEN [Fresh("done") EXCEPT !.result = "lost"]
                                          ELSE Fresh("queued"))
  /\ UNCHANGED <<clock, database, sent, failures>>

\* A rule is switched on or off in the database, from outside: the handlers of
\* the gateway do not commit.  A sync changes the status of a subject.
SetActive(r) ==
  /\ active' = [active EXCEPT ![r] = ~@]
  /\ UNCHANGED <<clock, status, logs, task, sent, bounds>>

ChangeStatus(s) ==
  /\ \E st \in Statuses \ {status[s]} : status' = [status EXCEPT ![s] = st]
  /\ UNCHANGED <<clock, active, logs, task, sent, bounds>>

Tick ==
  /\ clock < MaxTime
  /\ clock' = clock + 1
  /\ UNCHANGED <<database, task, sent, bounds>>

Step(t) ==
  \/ Begin(t) \/ Load(t) \/ Judge(t) \/ CheckCooldown(t) \/ SubjectDone(t)
  \/ Send(t) \/ WriteLog(t) \/ Finish(t) \/ Acknowledge(t)

Next ==
  \/ \E t \in Evaluations : Request(t) \/ Step(t) \/ DatabaseFails(t) \/ Crash(t)
  \/ \E r \in Rules : SetActive(r)
  \/ \E s \in Known : ChangeStatus(s)
  \/ Tick

Spec == Init /\ [][Next]_vars

\* Workers that are alive execute their tasks and take queued messages.
FairSpec == Spec /\ \A t \in Evaluations : WF_vars(Step(t))

-----------------------------------------------------------------------------
(* Properties. *)

TypeOK ==
  /\ clock \in Times
  /\ active \in [Rules -> BOOLEAN]
  /\ status \in [Subjects -> Statuses]
  /\ logs \in Seq(AlertLog!Entry)
  /\ task \in [Evaluations -> Task]
  /\ sent \in Seq([rule : Rules, at : Times])
  /\ crashes \in 0 .. MaxCrashes /\ failures \in 0 .. MaxFailures

\* Entries, or messages, of a rule in the cooldown window that starts at x.
Window(list, r, x) ==
  {i \in DOMAIN list : list[i].rule = r /\ x <= list[i].at /\ list[i].at < x + Cooldown[r]}

\* No cooldown window of a rule ever holds more entries than evaluations can
\* run at once, however many are requested, crash or are delivered again.
FloodBounded ==
  \A r \in Rules, x \in Times :
    Cardinality(Window(logs, r, x)) <= Concurrency + Cardinality(DirectEvaluations)

\* What users see exceeds that only by the messages whose entry was lost with
\* a worker or to a database error.
NotificationsBounded ==
  \A r \in Rules, x \in Times :
    Cardinality(Window(sent, r, x)) <=
      Concurrency + Cardinality(DirectEvaluations) + crashes + failures

\* Every message a user saw has an entry, is about to get one, or lost it
\* with a worker or to a database error.
AuditGap ==
  Len(sent) <= Len(logs) + crashes + failures
               + Cardinality({t \in Evaluations : task[t].pc = "logging"})

\* Every requested evaluation ends.
EvaluationsSettle == \A t \in Evaluations : task[t].pc = "queued" ~> task[t].pc = "done"

\* However evaluations overlap, die or fail, an alert is logged only by one that
\* was clear of every entry when it asked, and once for every time it asked.
ImplementsCooldown == AlertLog!CooldownSpec

-----------------------------------------------------------------------------
(* For the proofs. *)

\* An evaluation about to write an entry was clear of every entry it could
\* see: seen is the length of the log at that moment.
ClearWhenAsked ==
  \A t \in Evaluations : task[t].pc \in {"sending", "logging"} =>
    /\ task[t].seen <= Len(logs)
    /\ task[t].asked <= clock
    /\ \A i \in 1 .. task[t].seen :
         logs[i].rule = task[t].rule => task[t].asked >= logs[i].at + Cooldown[task[t].rule]

EngineInv == TypeOK /\ ClearWhenAsked
=============================================================================
