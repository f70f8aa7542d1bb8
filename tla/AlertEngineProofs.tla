-------------------------- MODULE AlertEngineProofs --------------------------
(***************************************************************************)
(* For every number of subjects, rules, evaluations, workers, crashes and  *)
(* failures: every message has its entry or a cause for having none; the   *)
(* log keeps what deduplication promises, AlertCooldown, however the       *)
(* evaluations overlap; and they exceed the cooldown only by as many       *)
(* alerts as can be at work at once.                                       *)
(***************************************************************************)
EXTENDS AlertEngine, FiniteSetTheorems, TLAPS

(* The types of one evaluation. *)
LEMMA OneTask ==
  ASSUME TypeOK, NEW t \in Evaluations
  PROVE  /\ task[t] \in Task
         /\ task[t].rule \in Rules /\ task[t].status \in Statuses
         /\ task[t].asked \in Times /\ task[t].at \in Times /\ task[t].seen \in Nat
         /\ task[t].delivered \in BOOLEAN
         /\ task[t].rules \subseteq Rules /\ task[t].todo \subseteq Subjects
  BY DEF TypeOK, Task

LEMMA FreshType ==
  ASSUME NEW pc \in {"idle", "queued", "done"}
  PROVE  /\ Fresh(pc) \in Task
         /\ \A res \in {"ok", "error", "lost", "none"} : [Fresh(pc) EXCEPT !.result = res] \in Task
<1>1. (CHOOSE st \in Statuses : TRUE) \in Statuses /\ NoRule \in Rules
  BY EngineAssumption DEF NoRule
<1>2. 0 \in Times
  BY EngineAssumption DEF Times
<1>3. Fresh(pc) \in Task
  BY <1>1, <1>2 DEF Fresh, Task
<1>4. QED
  BY <1>3 DEF Task

LEMMA ProceedType ==
  ASSUME TypeOK, NEW t \in Evaluations, NEW pc \in {"picking", "notifying", "acking"}
  PROVE  /\ Proceed(t, pc) \in Task
         /\ Proceed(t, pc).pc = pc
         /\ [Proceed(t, pc) EXCEPT !.rules = {}] \in Task
         /\ [Proceed(t, pc) EXCEPT !.rules = {}].pc = pc
         /\ [Proceed(t, pc) EXCEPT !.rules = {}, !.result = "error"] \in Task
         /\ [Proceed(t, pc) EXCEPT !.rules = {}, !.result = "error"].pc = pc
<1>1. task[t] \in Task /\ NoRule \in Rules /\ 0 \in Times
  BY OneTask, EngineAssumption DEF NoRule, Times
<1>2. Proceed(t, pc) \in Task /\ Proceed(t, pc).pc = pc
  BY <1>1 DEF Proceed, Task
<1>3. QED
  BY <1>2 DEF Task

LEMMA BecomeFrame ==
  ASSUME TypeOK, NEW t \in Evaluations, NEW r \in Task, Become(t, r)
  PROVE  /\ task' \in [Evaluations -> Task]
         /\ task'[t] = r
         /\ \A u \in Evaluations : u # t => task'[u] = task[u]
  BY DEF TypeOK, Become

(* What an evaluation that becomes r may claim about the log. *)
Clear(r) ==
  r.pc \in {"sending", "logging"} =>
    /\ r.seen <= Len(logs)
    /\ r.asked <= clock
    /\ \A i \in 1 .. r.seen : logs[i].rule = r.rule => r.asked >= logs[i].at + Cooldown[r.rule]

(* What keeps EngineInv when one evaluation changes and the log does not. *)
LEMMA TaskStep ==
  ASSUME EngineInv, NEW t \in Evaluations, NEW r \in Task, Become(t, r), Clear(r),
         UNCHANGED <<clock, database>>,
         sent' \in Seq([rule : Rules, at : Times]),
         crashes' \in 0 .. MaxCrashes, failures' \in 0 .. MaxFailures
  PROVE  EngineInv'
<1>1. /\ task' \in [Evaluations -> Task]
      /\ task'[t] = r
      /\ \A u \in Evaluations : u # t => task'[u] = task[u]
  BY BecomeFrame DEF EngineInv
<1>2. TypeOK'
  BY <1>1 DEF EngineInv, TypeOK, database, AlertLog!Entry
<1>3. ClearWhenAsked'
  BY <1>1 DEF EngineInv, ClearWhenAsked, Clear, database
<1>4. QED
  BY <1>2, <1>3 DEF EngineInv

(* Every step of an evaluation but WriteLog is such a step. *)
LEMMA RequestStep ==
  ASSUME EngineInv, NEW t \in Evaluations, Request(t)
  PROVE  EngineInv'
<1>1. Fresh("queued") \in Task /\ Clear(Fresh("queued"))
  BY FreshType DEF Clear, Fresh
<1>2. QED
  BY <1>1, TaskStep DEF Request, bounds, EngineInv, TypeOK

LEMMA BeginStep ==
  ASSUME EngineInv, NEW t \in Evaluations, Begin(t)
  PROVE  EngineInv'
<1> DEFINE todo == IF t \in AllEvaluations
                     THEN {RuleSubject[x] : x \in {y \in Rules : active[y]}}
                     ELSE {About[t]}
           r == [task[t] EXCEPT !.pc = "picking", !.todo = todo]
<1>1. todo \subseteq Subjects
  BY EngineAssumption
<1>2. task[t] \in Task
  BY OneTask DEF EngineInv
<1>3. r \in Task /\ r.pc = "picking"
  BY <1>1, <1>2 DEF Task
<1>4. Clear(r)
  BY <1>3 DEF Clear
<1>5. Become(t, r)
  BY DEF Begin
<1>6. QED
  BY <1>3, <1>4, <1>5, TaskStep DEF Begin, bounds, EngineInv, TypeOK

LEMMA LoadStep ==
  ASSUME EngineInv, NEW t \in Evaluations, Load(t)
  PROVE  EngineInv'
<1>1. PICK s \in task[t].todo :
        Become(t, IF s \in Known
                    THEN [task[t] EXCEPT
                            !.pc = "loaded", !.todo = @ \ {s}, !.status = status[s],
                            !.rules = {r \in Rules : active[r] /\ RuleSubject[r] = s}]
                    ELSE [task[t] EXCEPT !.todo = @ \ {s}])
  BY DEF Load
<1> DEFINE rules == {r \in Rules : active[r] /\ RuleSubject[r] = s}
           a == [task[t] EXCEPT !.pc = "loaded", !.todo = @ \ {s}, !.status = status[s],
                                !.rules = rules]
           b == [task[t] EXCEPT !.todo = @ \ {s}]
<1>2. task[t] \in Task /\ s \in Subjects /\ status[s] \in Statuses /\ rules \subseteq Rules
      /\ task[t].pc = "picking"
  BY OneTask DEF EngineInv, TypeOK, Load
<1>3. a \in Task /\ a.pc = "loaded" /\ b \in Task /\ b.pc = "picking"
  BY <1>2 DEF Task
<1>4. Clear(a) /\ Clear(b)
  BY <1>3 DEF Clear
<1>5. CASE s \in Known
  BY <1>1, <1>3, <1>4, <1>5, TaskStep DEF Load, bounds, EngineInv, TypeOK
<1>6. CASE s \notin Known
  BY <1>1, <1>3, <1>4, <1>6, TaskStep DEF Load, bounds, EngineInv, TypeOK
<1>7. QED
  BY <1>5, <1>6

LEMMA JudgeStep ==
  ASSUME EngineInv, NEW t \in Evaluations, Judge(t)
  PROVE  EngineInv'
<1>1. PICK metric \in SUBSET (task[t].rules \ StatusRules), old \in Statuses :
        LET statusRules == {r \in task[t].rules \cap StatusRules : old # task[t].status}
            fired == metric \cup statusRules
        IN Become(t, [task[t] EXCEPT
             !.pc = IF fired = {} THEN "picking" ELSE "notifying", !.rules = fired])
  BY DEF Judge
<1> DEFINE fired == metric \cup {r \in task[t].rules \cap StatusRules : old # task[t].status}
           pc == IF fired = {} THEN "picking" ELSE "notifying"
           a == [task[t] EXCEPT !.pc = pc, !.rules = fired]
<1>2. task[t] \in Task /\ fired \subseteq Rules
  BY OneTask DEF EngineInv
<1>3. a \in Task /\ a.pc \in {"picking", "notifying"}
  BY <1>2 DEF Task
<1>4. Become(t, a)
  BY <1>1
<1>5. Clear(a)
  BY <1>3 DEF Clear
<1>6. QED
  BY <1>3, <1>4, <1>5, TaskStep DEF Judge, bounds, EngineInv, TypeOK

(* The heart: a rule that is not in its cooldown is clear of every entry. *)
LEMMA NotInCooldown ==
  ASSUME TypeOK, NEW r \in Rules, ~InCooldown(r)
  PROVE  \A i \in 1 .. Len(logs) : logs[i].rule = r => clock >= logs[i].at + Cooldown[r]
<1> SUFFICES ASSUME NEW i \in 1 .. Len(logs), logs[i].rule = r
             PROVE  clock >= logs[i].at + Cooldown[r]
  OBVIOUS
<1>1. logs \in Seq(AlertLog!Entry)
  BY DEF TypeOK
<1>2. i \in DOMAIN logs /\ logs[i] \in AlertLog!Entry
  BY <1>1
<1>3. clock \in Nat /\ logs[i].at \in Nat /\ Cooldown[r] \in Nat
  BY <1>2, EngineAssumption DEF TypeOK, Times, AlertLog!Entry
<1>4. ~(clock < logs[i].at + Cooldown[r])
  BY <1>2 DEF InCooldown, AlertLog!EntriesOf
<1>5. QED
  BY <1>3, <1>4

LEMMA CheckStep ==
  ASSUME EngineInv, NEW t \in Evaluations, CheckCooldown(t)
  PROVE  EngineInv'
<1>1. PICK r \in Rules :
        Become(t, IF InCooldown(r)
                    THEN [task[t] EXCEPT !.rules = @ \ {r}]
                    ELSE [task[t] EXCEPT !.pc = "sending", !.rule = r, !.rules = @ \ {r},
                                         !.asked = clock, !.seen = Len(logs)])
  BY DEF CheckCooldown
<1> DEFINE a == [task[t] EXCEPT !.rules = @ \ {r}]
           b == [task[t] EXCEPT !.pc = "sending", !.rule = r, !.rules = @ \ {r},
                                !.asked = clock, !.seen = Len(logs)]
<1>2. task[t] \in Task /\ clock \in Times /\ Len(logs) \in Nat /\ task[t].pc = "notifying"
      /\ clock \in Nat
  BY OneTask, EngineAssumption DEF EngineInv, TypeOK, CheckCooldown, Times
<1>3. a \in Task /\ a.pc = "notifying"
  BY <1>2 DEF Task
<1>4. b \in Task /\ b.pc = "sending" /\ b.rule = r /\ b.asked = clock /\ b.seen = Len(logs)
  BY <1>2 DEF Task
<1>5. CASE InCooldown(r)
  <2>1. Clear(a)
    BY <1>3 DEF Clear
  <2>2. QED
    BY <1>1, <1>3, <1>5, <2>1, TaskStep DEF CheckCooldown, bounds, EngineInv, TypeOK
<1>6. CASE ~InCooldown(r)
  <2>1. Clear(b)
    BY <1>2, <1>4, <1>6, NotInCooldown DEF Clear, EngineInv
  <2>2. QED
    BY <1>1, <1>4, <1>6, <2>1, TaskStep DEF CheckCooldown, bounds, EngineInv, TypeOK
<1>7. QED
  BY <1>5, <1>6

LEMMA SendStep ==
  ASSUME EngineInv, NEW t \in Evaluations, Send(t)
  PROVE  EngineInv'
<1>1. PICK delivered \in BOOLEAN, shown \in BOOLEAN :
        /\ sent' = IF shown THEN Append(sent, [rule |-> task[t].rule, at |-> clock]) ELSE sent
        /\ Become(t, [task[t] EXCEPT !.pc = "logging", !.at = clock, !.delivered = delivered])
  BY DEF Send
<1> DEFINE a == [task[t] EXCEPT !.pc = "logging", !.at = clock, !.delivered = delivered]
           m == [rule |-> task[t].rule, at |-> clock]
<1>2. task[t] \in Task /\ clock \in Times /\ task[t].pc = "sending"
      /\ m \in [rule : Rules, at : Times]
  BY OneTask DEF EngineInv, TypeOK, Send
<1>3. /\ a \in Task /\ a.pc = "logging" /\ a.rule = task[t].rule
      /\ a.asked = task[t].asked /\ a.seen = task[t].seen
  BY <1>2 DEF Task
<1>4. Clear(a)
  BY <1>2, <1>3 DEF EngineInv, ClearWhenAsked, Clear
<1>5. sent' \in Seq([rule : Rules, at : Times])
  <2> DEFINE Message == [rule : Rules, at : Times]
  <2>1. sent \in Seq(Message) /\ m \in Message
    BY <1>2 DEF EngineInv, TypeOK
  <2>2. sent' = Append(sent, m) \/ sent' = sent
    BY <1>1
  <2>3. QED
    <3> HIDE DEF m, Message
    <3>1. sent' \in Seq(Message)
      BY <2>1, <2>2
    <3>2. QED
      BY <3>1 DEF Message
<1>6. QED
  BY <1>1, <1>3, <1>4, <1>5, TaskStep DEF Send, bounds, EngineInv, TypeOK

LEMMA ReturnStep ==
  ASSUME EngineInv, NEW t \in Evaluations,
         SubjectDone(t) \/ Finish(t) \/ Acknowledge(t)
  PROVE  EngineInv'
<1>1. UNCHANGED <<clock, database, sent, bounds>>
  BY DEF SubjectDone, Finish, Acknowledge
<1>2. task[t] \in Task
  BY OneTask DEF EngineInv
<1>3. CASE SubjectDone(t)
  <2> DEFINE a == [task[t] EXCEPT !.pc = "picking"]
  <2>1. a \in Task /\ a.pc = "picking" /\ Become(t, a)
    BY <1>2, <1>3 DEF Task, SubjectDone
  <2>2. Clear(a)
    BY <2>1 DEF Clear
  <2>3. QED
    BY <1>1, <2>1, <2>2, TaskStep DEF bounds, EngineInv, TypeOK
<1>4. CASE Finish(t)
  <2> DEFINE a == [task[t] EXCEPT !.pc = "acking", !.result = "ok"]
  <2>1. a \in Task /\ a.pc = "acking" /\ Become(t, a)
    BY <1>2, <1>4 DEF Task, Finish
  <2>2. Clear(a)
    BY <2>1 DEF Clear
  <2>3. QED
    BY <1>1, <2>1, <2>2, TaskStep DEF bounds, EngineInv, TypeOK
<1>5. CASE Acknowledge(t)
  <2> DEFINE a == [Fresh("done") EXCEPT !.result = task[t].result]
  <2>1. task[t].result \in {"ok", "error", "lost", "none"}
    BY <1>2 DEF Task
  <2>2. a \in Task /\ a.pc = "done" /\ Become(t, a)
    BY <1>5, <2>1, FreshType DEF Acknowledge, Fresh
  <2>3. Clear(a)
    BY <2>2 DEF Clear
  <2>4. QED
    BY <1>1, <2>2, <2>3, TaskStep DEF bounds, EngineInv, TypeOK
<1>6. QED
  BY <1>3, <1>4, <1>5

LEMMA FailStep ==
  ASSUME EngineInv, NEW t \in Evaluations, DatabaseFails(t)
  PROVE  EngineInv'
<1> DEFINE a == [Proceed(t, "picking") EXCEPT !.rules = {}]
           b == [Proceed(t, "acking") EXCEPT !.rules = {}, !.result = "error"]
           c == [task[t] EXCEPT !.pc = "acking", !.result = "error"]
<1>1. a \in Task /\ a.pc = "picking" /\ b \in Task /\ b.pc = "acking"
  BY ProceedType DEF EngineInv
<1>2. c \in Task /\ c.pc = "acking"
  BY OneTask DEF EngineInv, Task
<1>3. Clear(a) /\ Clear(b) /\ Clear(c)
  BY <1>1, <1>2 DEF Clear
<1>4. UNCHANGED <<clock, database, sent, crashes>> /\ failures' \in 0 .. MaxFailures
  BY EngineAssumption DEF DatabaseFails, EngineInv, TypeOK
<1>5. Become(t, a) \/ Become(t, b) \/ Become(t, c)
  BY DEF DatabaseFails
<1> HIDE DEF a, b, c
<1>6. QED
  BY <1>1, <1>2, <1>3, <1>4, <1>5, TaskStep DEF EngineInv, TypeOK

LEMMA CrashStep ==
  ASSUME EngineInv, NEW t \in Evaluations, Crash(t)
  PROVE  EngineInv'
<1> DEFINE a == [Fresh("done") EXCEPT !.result = "lost"]
           b == Fresh("queued")
<1>1. a \in Task /\ a.pc = "done" /\ b \in Task /\ b.pc = "queued"
  BY FreshType DEF Fresh
<1>2. Clear(a) /\ Clear(b)
  BY <1>1 DEF Clear
<1>3. UNCHANGED <<clock, database, sent, failures>> /\ crashes' \in 0 .. MaxCrashes
  BY EngineAssumption DEF Crash, EngineInv, TypeOK
<1>4. Become(t, IF t \in DirectEvaluations THEN a ELSE b)
  BY DEF Crash
<1>5. QED
  BY <1>1, <1>2, <1>3, <1>4, TaskStep DEF EngineInv, TypeOK

-----------------------------------------------------------------------------
(* The entry that WriteLog appends. *)
EntryOf(t) == [rule |-> task[t].rule, at |-> task[t].at, delivered |-> task[t].delivered,
               status |-> task[t].status]

LEMMA LogGrows ==
  ASSUME EngineInv, NEW t \in Evaluations, WriteLog(t)
  PROVE  /\ EntryOf(t) \in AlertLog!Entry
         /\ logs \in Seq(AlertLog!Entry)
         /\ logs' = Append(logs, EntryOf(t))
         /\ Len(logs') = Len(logs) + 1
         /\ \A i \in 1 .. Len(logs) : logs'[i] = logs[i]
<1>1. EntryOf(t) \in AlertLog!Entry /\ logs \in Seq(AlertLog!Entry)
  BY OneTask DEF EntryOf, AlertLog!Entry, EngineInv, TypeOK
<1>2. logs' = Append(logs, EntryOf(t))
  BY DEF WriteLog, EntryOf
<1>3. QED
  BY <1>1, <1>2

LEMMA WriteStep ==
  ASSUME EngineInv, NEW t \in Evaluations, WriteLog(t)
  PROVE  EngineInv'
<1> DEFINE a == Proceed(t, "notifying")
<1>1. a \in Task /\ a.pc = "notifying"
  BY ProceedType DEF EngineInv
<1>2. /\ task' \in [Evaluations -> Task]
      /\ task'[t] = a
      /\ \A u \in Evaluations : u # t => task'[u] = task[u]
  BY <1>1, BecomeFrame DEF EngineInv, WriteLog
<1>3. UNCHANGED <<clock, active, status, sent, bounds>>
  BY DEF WriteLog
<1>4. logs' \in Seq(AlertLog!Entry)
  BY LogGrows
<1>5. TypeOK'
  BY <1>2, <1>3, <1>4 DEF EngineInv, TypeOK, bounds, AlertLog!Entry
<1>6. ClearWhenAsked'
  <2> SUFFICES ASSUME NEW u \in Evaluations, task'[u].pc \in {"sending", "logging"}
               PROVE  /\ task'[u].seen <= Len(logs')
                      /\ task'[u].asked <= clock
                      /\ \A i \in 1 .. task'[u].seen : logs'[i].rule = task'[u].rule =>
                           task'[u].asked >= logs'[i].at + Cooldown[task'[u].rule]
    BY <1>3 DEF ClearWhenAsked
  <2>1. task'[u] = task[u]
    BY <1>1, <1>2
  <2>2. /\ task[u].seen <= Len(logs)
        /\ task[u].asked <= clock
        /\ \A i \in 1 .. task[u].seen : logs[i].rule = task[u].rule =>
             task[u].asked >= logs[i].at + Cooldown[task[u].rule]
    BY <2>1 DEF EngineInv, ClearWhenAsked
  <2>3. task[u].seen \in Nat /\ Len(logs) \in Nat
    BY OneTask, LogGrows DEF EngineInv
  <2>4. QED
    BY <2>1, <2>2, <2>3, LogGrows
<1>7. QED
  BY <1>5, <1>6 DEF EngineInv

(* The rules, the subjects and the clock. *)
LEMMA WorldStep ==
  ASSUME EngineInv,
         \/ \E r \in Rules : SetActive(r)
         \/ \E s \in Known : ChangeStatus(s)
         \/ Tick
  PROVE  EngineInv'
<1>1. UNCHANGED <<logs, task, sent, bounds>>
  BY DEF SetActive, ChangeStatus, Tick, database
<1>2. clock' \in Times /\ clock <= clock' /\ clock \in Nat /\ clock' \in Nat
  BY EngineAssumption DEF EngineInv, TypeOK, Times, SetActive, ChangeStatus, Tick
<1>3. active' \in [Rules -> BOOLEAN] /\ status' \in [Subjects -> Statuses]
  BY DEF EngineInv, TypeOK, SetActive, ChangeStatus, Tick, database
<1>4. TypeOK'
  BY <1>1, <1>2, <1>3 DEF EngineInv, TypeOK, bounds, AlertLog!Entry
<1>5. \A t \in Evaluations : task[t].asked \in Nat
  BY OneTask, EngineAssumption DEF EngineInv, Times
<1>6. ClearWhenAsked'
  BY <1>1, <1>2, <1>5 DEF EngineInv, ClearWhenAsked
<1>7. QED
  BY <1>4, <1>6 DEF EngineInv

LEMMA InitEngineInv == Init => EngineInv
<1> SUFFICES ASSUME Init PROVE EngineInv
  OBVIOUS
<1>1. \A t \in Evaluations : task[t] = Fresh("idle")
  BY DEF Init
<1>2. task \in [Evaluations -> Task]
  BY FreshType DEF Init
<1>3. TypeOK
  BY <1>2, EngineAssumption DEF Init, TypeOK, Times
<1>4. ClearWhenAsked
  <2>1. Fresh("idle").pc = "idle"
    BY DEF Fresh
  <2>2. QED
    BY <1>1, <2>1 DEF ClearWhenAsked
<1>5. QED
  BY <1>3, <1>4 DEF EngineInv

LEMMA NextEngineInv == EngineInv /\ [Next]_vars => EngineInv'
<1> SUFFICES ASSUME EngineInv, [Next]_vars PROVE EngineInv'
  OBVIOUS
<1>1. ASSUME NEW t \in Evaluations, Request(t) \/ DatabaseFails(t) \/ Crash(t)
      PROVE  EngineInv'
  BY <1>1, RequestStep, FailStep, CrashStep
<1>2. ASSUME NEW t \in Evaluations, Step(t) PROVE EngineInv'
  BY <1>2, BeginStep, LoadStep, JudgeStep, CheckStep, ReturnStep, SendStep, WriteStep DEF Step
<1>3. CASE (\E r \in Rules : SetActive(r)) \/ (\E s \in Known : ChangeStatus(s)) \/ Tick
  BY <1>3, WorldStep
<1>4. CASE UNCHANGED vars
  BY <1>4 DEF vars, EngineInv, TypeOK, ClearWhenAsked, AlertLog!Entry
<1>5. QED
  BY <1>1, <1>2, <1>3, <1>4 DEF Next

THEOREM EngineInvariant == Spec => []EngineInv
<1>1. Init => EngineInv
  BY InitEngineInv
<1>2. EngineInv /\ [Next]_vars => EngineInv'
  BY NextEngineInv
<1>3. QED
  BY <1>1, <1>2, PTL DEF Spec

(* Every variable keeps its type. *)
THEOREM EngineTypeCorrect == Spec => []TypeOK
<1>1. EngineInv => TypeOK
  BY DEF EngineInv
<1>2. QED
  BY <1>1, EngineInvariant, PTL

-----------------------------------------------------------------------------
(* Messages and entries: what was shown and has no entry is at an evaluation *)
(* that is about to write it, or was lost with a worker or an error.         *)

Logging == {t \in Evaluations : task[t].pc = "logging"}

(* What an evaluation that goes from task[t].pc to pc does to their number.   *)
LEMMA LoggingMoves ==
  ASSUME IsFiniteSet(Evaluations), TypeOK, NEW t \in Evaluations,
         \A u \in Evaluations : u # t => task'[u] = task[u]
  PROVE  /\ Cardinality(Logging) \in Nat /\ Cardinality(Logging') \in Nat
         /\ task[t].pc # "logging" /\ task'[t].pc # "logging"
              => Cardinality(Logging') = Cardinality(Logging)
         /\ task[t].pc # "logging" /\ task'[t].pc = "logging"
              => Cardinality(Logging') = Cardinality(Logging) + 1
         /\ task[t].pc = "logging" /\ task'[t].pc # "logging"
              => Cardinality(Logging') = Cardinality(Logging) - 1
<1>1. IsFiniteSet(Logging) /\ IsFiniteSet(Logging')
  BY FS_Subset DEF Logging
<1>2. Cardinality(Logging) \in Nat /\ Cardinality(Logging') \in Nat
  BY <1>1, FS_CardinalityType
<1>3. ASSUME task[t].pc # "logging", task'[t].pc # "logging"
      PROVE  Logging' = Logging
  BY <1>3 DEF Logging
<1>4. ASSUME task[t].pc # "logging", task'[t].pc = "logging"
      PROVE  Logging' = Logging \cup {t} /\ t \notin Logging
  BY <1>4 DEF Logging
<1>5. ASSUME task[t].pc = "logging", task'[t].pc # "logging"
      PROVE  Logging' = Logging \ {t} /\ t \in Logging
  BY <1>5 DEF Logging
<1>6. QED
  BY <1>1, <1>2, <1>3, <1>4, <1>5, FS_AddElement, FS_RemoveElement

(* A message that lost its entry is made up for by the fault that took it.    *)
LEMMA LossesCount ==
  ASSUME NEW messages \in Nat, NEW entries \in Nat,
         NEW c \in Nat, NEW f \in Nat, NEW n \in Nat,
         NEW cc \in Nat, NEW ff \in Nat, NEW nn \in Nat,
         messages <= entries + c + f + n, cc + ff = c + f + 1, nn >= n - 1
  PROVE  messages <= entries + cc + ff + nn
  OBVIOUS

LEMMA NextAuditGap ==
  ASSUME IsFiniteSet(Evaluations), EngineInv, EngineInv', AuditGap, [Next]_vars
  PROVE  AuditGap'
<1> DEFINE size == Cardinality(Logging)
<1>1. /\ Len(sent) \in Nat /\ Len(logs) \in Nat /\ crashes \in Nat /\ failures \in Nat
      /\ TypeOK /\ TypeOK'
      /\ Len(sent) <= Len(logs) + crashes + failures + size
  BY EngineAssumption DEF EngineInv, TypeOK, AuditGap, Logging
<1>2. SUFFICES Len(sent') <= Len(logs') + crashes' + failures' + Cardinality(Logging')
  BY DEF AuditGap, Logging
<1>3. ASSUME NEW t \in Evaluations, NEW r, Become(t, r)
      PROVE  task'[t] = r /\ \A u \in Evaluations : u # t => task'[u] = task[u]
  BY <1>1, <1>3 DEF Become, TypeOK
(* Steps away from the log. *)
<1>4. ASSUME NEW t \in Evaluations, NEW r, Become(t, r),
             task[t].pc # "logging", r.pc # "logging", UNCHANGED <<logs, sent, crashes, failures>>
      PROVE  Len(sent') <= Len(logs') + crashes' + failures' + Cardinality(Logging')
  BY <1>1, <1>3, <1>4, LoggingMoves
<1>5. ASSUME NEW t \in Evaluations,
             \/ Request(t) \/ Begin(t) \/ Load(t) \/ Judge(t) \/ CheckCooldown(t)
             \/ SubjectDone(t) \/ Finish(t) \/ Acknowledge(t)
      PROVE  Len(sent') <= Len(logs') + crashes' + failures' + Cardinality(Logging')
  <2>1. task[t] \in Task
    BY <1>1, OneTask
  <2>2. UNCHANGED <<logs, sent, crashes, failures>> /\ task[t].pc # "logging"
    BY <1>5 DEF Request, Begin, Load, Judge, CheckCooldown, SubjectDone, Finish, Acknowledge,
       database, bounds
  <2>3. CASE Load(t)
    <3>1. PICK s \in task[t].todo :
            Become(t, IF s \in Known
                        THEN [task[t] EXCEPT
                                !.pc = "loaded", !.todo = @ \ {s}, !.status = status[s],
                                !.rules = {r \in Rules : active[r] /\ RuleSubject[r] = s}]
                        ELSE [task[t] EXCEPT !.todo = @ \ {s}])
      BY <2>3 DEF Load
    <3> DEFINE a == [task[t] EXCEPT
                       !.pc = "loaded", !.todo = @ \ {s}, !.status = status[s],
                       !.rules = {r \in Rules : active[r] /\ RuleSubject[r] = s}]
               b == [task[t] EXCEPT !.todo = @ \ {s}]
    <3>2. a.pc # "logging" /\ b.pc # "logging"
      BY <2>1, <2>2 DEF Task
    <3> HIDE DEF a, b
    <3>3. QED
      BY <1>4, <2>2, <3>1, <3>2 DEF a, b
  <2>4. CASE Judge(t)
    <3>1. PICK metric \in SUBSET (task[t].rules \ StatusRules), old \in Statuses :
            LET statusRules == {r \in task[t].rules \cap StatusRules : old # task[t].status}
                fired == metric \cup statusRules
            IN Become(t, [task[t] EXCEPT
                 !.pc = IF fired = {} THEN "picking" ELSE "notifying", !.rules = fired])
      BY <2>4 DEF Judge
    <3> DEFINE fired == metric \cup {r \in task[t].rules \cap StatusRules : old # task[t].status}
               a == [task[t] EXCEPT
                       !.pc = IF fired = {} THEN "picking" ELSE "notifying", !.rules = fired]
    <3>2. Become(t, a)
      BY <3>1
    <3>3. a.pc # "logging"
      BY <2>1 DEF Task
    <3> HIDE DEF a
    <3>4. QED
      BY <1>4, <2>2, <3>2, <3>3
  <2>5. CASE CheckCooldown(t)
    <3>1. PICK r \in Rules :
            Become(t, IF InCooldown(r)
                        THEN [task[t] EXCEPT !.rules = @ \ {r}]
                        ELSE [task[t] EXCEPT !.pc = "sending", !.rule = r, !.rules = @ \ {r},
                                             !.asked = clock, !.seen = Len(logs)])
      BY <2>5 DEF CheckCooldown
    <3> DEFINE a == [task[t] EXCEPT !.rules = @ \ {r}]
               b == [task[t] EXCEPT !.pc = "sending", !.rule = r, !.rules = @ \ {r},
                                    !.asked = clock, !.seen = Len(logs)]
    <3>2. a.pc # "logging" /\ b.pc # "logging"
      BY <2>1, <2>2 DEF Task
    <3> HIDE DEF a, b
    <3>3. QED
      BY <1>4, <2>2, <3>1, <3>2 DEF a, b
  <2>6. CASE Request(t)
    <3>1. Become(t, Fresh("queued")) /\ Fresh("queued").pc # "logging"
      BY <2>6 DEF Request, Fresh
    <3>2. QED
      BY <1>4, <2>2, <3>1
  <2>7. CASE Begin(t)
    <3> DEFINE todo == IF t \in AllEvaluations
                         THEN {RuleSubject[r] : r \in {x \in Rules : active[x]}}
                         ELSE {About[t]}
               a == [task[t] EXCEPT !.pc = "picking", !.todo = todo]
    <3>1. Become(t, a)
      BY <2>7 DEF Begin
    <3>2. a.pc # "logging"
      BY <2>1 DEF Task
    <3> HIDE DEF a
    <3>3. QED
      BY <1>4, <2>2, <3>1, <3>2
  <2>8. CASE SubjectDone(t) \/ Finish(t)
    <3> DEFINE a == [task[t] EXCEPT !.pc = "picking"]
               b == [task[t] EXCEPT !.pc = "acking", !.result = "ok"]
    <3>1. Become(t, a) \/ Become(t, b)
      BY <2>8 DEF SubjectDone, Finish
    <3>2. a.pc # "logging" /\ b.pc # "logging"
      BY <2>1 DEF Task
    <3> HIDE DEF a, b
    <3>3. QED
      BY <1>4, <2>2, <3>1, <3>2
  <2>9. CASE Acknowledge(t)
    <3> DEFINE a == [Fresh("done") EXCEPT !.result = task[t].result]
    <3>1. Become(t, a)
      BY <2>9 DEF Acknowledge
    <3>2. a.pc # "logging"
      BY DEF Fresh
    <3> HIDE DEF a
    <3>3. QED
      BY <1>4, <2>2, <3>1, <3>2
  <2>10. QED
    BY <1>5, <2>3, <2>4, <2>5, <2>6, <2>7, <2>8, <2>9
<1>6. ASSUME NEW t \in Evaluations, Send(t)
      PROVE  Len(sent') <= Len(logs') + crashes' + failures' + Cardinality(Logging')
  <2>1. PICK delivered \in BOOLEAN, shown \in BOOLEAN :
          /\ sent' = IF shown THEN Append(sent, [rule |-> task[t].rule, at |-> clock]) ELSE sent
          /\ Become(t, [task[t] EXCEPT !.pc = "logging", !.at = clock, !.delivered = delivered])
    BY <1>6 DEF Send
  <2> DEFINE a == [task[t] EXCEPT !.pc = "logging", !.at = clock, !.delivered = delivered]
             m == [rule |-> task[t].rule, at |-> clock]
  <2>2. task[t].pc = "sending" /\ UNCHANGED <<logs, crashes, failures>>
    BY <1>6 DEF Send, database, bounds
  <2>3. task[t] \in Task
    BY <1>1, OneTask
  <2>4. a.pc = "logging" /\ Become(t, a)
    BY <2>1, <2>3 DEF Task
  <2>5. sent \in Seq([rule : Rules, at : Times]) /\ m \in [rule : Rules, at : Times]
    BY <1>1, OneTask DEF TypeOK
  <2>6. sent' = Append(sent, m) \/ sent' = sent
    BY <2>1
  <2> HIDE DEF a, m
  <2>7. Len(sent') <= Len(sent) + 1 /\ Len(sent') \in Nat
    BY <2>5, <2>6
  <2>8. Cardinality(Logging') = size + 1 /\ size \in Nat
    BY <1>1, <1>3, <2>2, <2>4, LoggingMoves
  <2>9. QED
    BY <1>1, <2>2, <2>7, <2>8
<1>7. ASSUME NEW t \in Evaluations, WriteLog(t)
      PROVE  Len(sent') <= Len(logs') + crashes' + failures' + Cardinality(Logging')
  <2>1. /\ task[t].pc = "logging" /\ Become(t, Proceed(t, "notifying"))
        /\ UNCHANGED <<sent, crashes, failures>>
    BY <1>7 DEF WriteLog, bounds
  <2>2. task'[t].pc = "notifying"
    BY <1>1, <1>3, <2>1, ProceedType
  <2>3. Len(logs') = Len(logs) + 1
    BY <1>7, LogGrows
  <2>4. Cardinality(Logging') = size - 1 /\ size \in Nat
    BY <1>1, <1>3, <2>1, <2>2, LoggingMoves
  <2>5. QED
    BY <1>1, <2>1, <2>3, <2>4
(* Losses are counted. *)
<1>8. ASSUME NEW t \in Evaluations, NEW r, Become(t, r), r.pc # "logging", logs' = logs,
             sent' = sent, crashes' \in Nat, failures' \in Nat,
             crashes' + failures' = crashes + failures + 1
      PROVE  Len(sent') <= Len(logs') + crashes' + failures' + Cardinality(Logging')
  <2>1. /\ size \in Nat /\ Cardinality(Logging') \in Nat
        /\ Cardinality(Logging') >= size - 1
    BY <1>1, <1>3, <1>8, LoggingMoves
  <2>2. Len(sent') = Len(sent) /\ Len(logs') = Len(logs)
    BY <1>8
  <2>3. Len(sent) <= Len(logs) + crashes' + failures' + Cardinality(Logging')
    BY <1>1, <1>8, <2>1, LossesCount
  <2>4. QED
    BY <2>2, <2>3
<1>9. ASSUME NEW t \in Evaluations, DatabaseFails(t)
      PROVE  Len(sent') <= Len(logs') + crashes' + failures' + Cardinality(Logging')
  <2> DEFINE a == [Proceed(t, "picking") EXCEPT !.rules = {}]
             b == [Proceed(t, "acking") EXCEPT !.rules = {}, !.result = "error"]
             c == [task[t] EXCEPT !.pc = "acking", !.result = "error"]
  <2>1. /\ Become(t, a) \/ Become(t, b) \/ Become(t, c)
        /\ logs' = logs /\ sent' = sent /\ crashes' = crashes /\ failures' = failures + 1
    BY <1>9 DEF DatabaseFails, database
  <2>2. a.pc # "logging" /\ b.pc # "logging" /\ c.pc # "logging"
    <3>1. task[t] \in Task
      BY <1>1, OneTask
    <3>2. c.pc # "logging"
      BY <3>1 DEF Task
    <3>3. QED
      BY <1>1, <3>2, ProceedType
  <2> HIDE DEF a, b, c
  <2>3. /\ crashes' \in Nat /\ failures' \in Nat
        /\ crashes' + failures' = crashes + failures + 1
    BY <1>1, <2>1
  <2>4. QED
    BY <1>8, <2>1, <2>2, <2>3
<1>10. ASSUME NEW t \in Evaluations, Crash(t)
       PROVE  Len(sent') <= Len(logs') + crashes' + failures' + Cardinality(Logging')
  <2> DEFINE a == [Fresh("done") EXCEPT !.result = "lost"]
             b == Fresh("queued")
  <2>1. /\ Become(t, IF t \in DirectEvaluations THEN a ELSE b)
        /\ logs' = logs /\ sent' = sent /\ crashes' = crashes + 1 /\ failures' = failures
    BY <1>10 DEF Crash, database
  <2>2. a.pc # "logging" /\ b.pc # "logging"
    BY DEF Fresh
  <2> HIDE DEF a, b
  <2>3. /\ crashes' \in Nat /\ failures' \in Nat
        /\ crashes' + failures' = crashes + failures + 1
    BY <1>1, <2>1
  <2>4. Become(t, a) \/ Become(t, b)
    BY <2>1
  <2>5. QED
    BY <1>8, <2>1, <2>2, <2>3, <2>4
<1>11. CASE \/ \E r \in Rules : SetActive(r)
            \/ \E s \in Known : ChangeStatus(s)
            \/ Tick \/ UNCHANGED vars
  <2>1. UNCHANGED <<logs, task, sent, crashes, failures>>
    BY <1>11 DEF SetActive, ChangeStatus, Tick, vars, database, bounds
  <2>2. QED
    BY <1>1, <2>1 DEF Logging
<1>12. QED
  BY <1>5, <1>6, <1>7, <1>9, <1>10, <1>11 DEF Next, Step

(* For any finite number of evaluations, every message a user saw has its     *)
(* entry, is about to get it, or lost it with a worker or to an error.        *)
THEOREM MessagesAccounted ==
  ASSUME IsFiniteSet(Evaluations)
  PROVE  Spec => []AuditGap
<1>1. Init => AuditGap
  <2> SUFFICES ASSUME Init PROVE AuditGap
    OBVIOUS
  <2>1. Logging = {}
    BY DEF Init, Logging, Fresh
  <2>2. Len(sent) = 0 /\ Len(logs) = 0 /\ crashes = 0 /\ failures = 0
    BY DEF Init
  <2>3. QED
    BY <2>1, <2>2, FS_EmptySet DEF AuditGap, Logging
<1>2. EngineInv /\ EngineInv' /\ AuditGap /\ [Next]_vars => AuditGap'
  BY NextAuditGap
<1>3. QED
  BY <1>1, <1>2, EngineInvariant, PTL DEF Spec

-----------------------------------------------------------------------------
(* What deduplication promises. *)

(* Where a step of an evaluation leads. *)
LEMMA StepShape ==
  ASSUME EngineInv, NEW t \in Evaluations,
         Request(t) \/ Step(t) \/ DatabaseFails(t) \/ Crash(t)
  PROVE  /\ \A u \in Evaluations : u # t => task'[u] = task[u]
         /\ \/ task[t].pc \in Running \/ task'[t].pc \notin Running
            \/ t \in DirectEvaluations \/ WorkerFree
         /\ task'[t].pc \in {"sending", "logging"} => CheckCooldown(t) \/ Send(t)
<1>1. task \in [Evaluations -> Task] /\ task[t] \in Task
  BY OneTask DEF EngineInv, TypeOK
<1>2. \A r : Become(t, r) =>
        task'[t] = r /\ \A u \in Evaluations : u # t => task'[u] = task[u]
  BY <1>1 DEF Become
<1>3. CASE Request(t)
  BY <1>2, <1>3 DEF Request, Fresh, Running
<1>4. CASE Begin(t)
  <2> DEFINE todo == IF t \in AllEvaluations
                       THEN {RuleSubject[x] : x \in {y \in Rules : active[y]}}
                       ELSE {About[t]}
  <2>1. Become(t, [task[t] EXCEPT !.pc = "picking", !.todo = todo])
    BY <1>4 DEF Begin
  <2>2. [task[t] EXCEPT !.pc = "picking", !.todo = todo].pc = "picking"
    BY <1>1 DEF Task
  <2>3. t \in DirectEvaluations \/ WorkerFree
    BY <1>4 DEF Begin
  <2>4. QED
    BY <1>2, <2>1, <2>2, <2>3
<1>5. CASE Load(t)
  <2>1. task[t].pc = "picking" /\ task'[t].pc \in {"picking", "loaded"}
    <3>1. PICK s \in task[t].todo :
            Become(t, IF s \in Known
                        THEN [task[t] EXCEPT
                                !.pc = "loaded", !.todo = @ \ {s}, !.status = status[s],
                                !.rules = {r \in Rules : active[r] /\ RuleSubject[r] = s}]
                        ELSE [task[t] EXCEPT !.todo = @ \ {s}])
      BY <1>5 DEF Load
    <3> DEFINE rules == {r \in Rules : active[r] /\ RuleSubject[r] = s}
               a == [task[t] EXCEPT !.pc = "loaded", !.todo = @ \ {s}, !.status = status[s],
                                    !.rules = rules]
               b == [task[t] EXCEPT !.todo = @ \ {s}]
    <3>2. task[t].pc = "picking"
      BY <1>5 DEF Load
    <3>3. a.pc = "loaded" /\ b.pc = "picking"
      BY <1>1, <3>2 DEF Task
    <3>4. Become(t, a) \/ Become(t, b)
      BY <3>1
    <3>5. task'[t] = a \/ task'[t] = b
      BY <1>2, <3>4
    <3>6. QED
      BY <3>2, <3>3, <3>5
  <2>2. QED
    BY <1>2, <1>5, <2>1 DEF Load, Running
<1>6. CASE Judge(t)
  <2>1. task[t].pc = "loaded" /\ task'[t].pc \in {"picking", "notifying"}
    <3>1. PICK metric \in SUBSET (task[t].rules \ StatusRules), old \in Statuses :
            LET statusRules == {r \in task[t].rules \cap StatusRules : old # task[t].status}
                fired == metric \cup statusRules
            IN Become(t, [task[t] EXCEPT
                 !.pc = IF fired = {} THEN "picking" ELSE "notifying", !.rules = fired])
      BY <1>6 DEF Judge
    <3> DEFINE fired == metric \cup {r \in task[t].rules \cap StatusRules : old # task[t].status}
               pc == IF fired = {} THEN "picking" ELSE "notifying"
               a == [task[t] EXCEPT !.pc = pc, !.rules = fired]
    <3>2. Become(t, a)
      BY <3>1
    <3>3. a.pc = pc /\ pc \in {"picking", "notifying"}
      BY <1>1 DEF Task
    <3>4. task'[t] = a
      BY <1>2, <3>2
    <3>5. QED
      BY <1>6, <3>3, <3>4 DEF Judge
  <2>2. QED
    BY <1>2, <1>6, <2>1 DEF Judge, Running
<1>7. CASE CheckCooldown(t)
  BY <1>2, <1>7 DEF CheckCooldown, Running
<1>8. CASE SubjectDone(t)
  BY <1>1, <1>2, <1>8 DEF SubjectDone, Running, Task
<1>9. CASE Send(t)
  BY <1>2, <1>9 DEF Send, Running
<1>10. CASE WriteLog(t)
  <2>1. task[t].pc = "logging" /\ task'[t].pc = "notifying"
    BY <1>2, <1>10, ProceedType DEF WriteLog, EngineInv
  <2>2. QED
    BY <1>2, <1>10, <2>1 DEF WriteLog, Running
<1>11. CASE Finish(t)
  <2> DEFINE a == [task[t] EXCEPT !.pc = "acking", !.result = "ok"]
  <2>1. a.pc = "acking"
    BY <1>1 DEF Task
  <2>2. Become(t, a) /\ task[t].pc = "picking"
    BY <1>11 DEF Finish
  <2>3. QED
    BY <1>2, <2>1, <2>2 DEF Running
<1>12. CASE Acknowledge(t)
  <2>1. task[t].pc = "acking" /\ task'[t].pc = "done"
    <3>1. [Fresh("done") EXCEPT !.result = task[t].result].pc = "done"
      BY DEF Fresh
    <3>2. QED
      BY <1>2, <1>12, <3>1 DEF Acknowledge
  <2>2. QED
    BY <1>2, <1>12, <2>1 DEF Acknowledge, Running
<1>13. CASE DatabaseFails(t)
  <2> DEFINE a == [Proceed(t, "picking") EXCEPT !.rules = {}]
             b == [Proceed(t, "acking") EXCEPT !.rules = {}, !.result = "error"]
             c == [task[t] EXCEPT !.pc = "acking", !.result = "error"]
  <2>1. /\ Become(t, a) \/ Become(t, b) \/ Become(t, c)
        /\ task[t].pc \in Running \/ t \in DirectEvaluations \/ WorkerFree
    BY <1>13 DEF DatabaseFails, Running
  <2>2. a.pc = "picking" /\ b.pc = "acking" /\ c.pc = "acking"
    <3>1. Proceed(t, "picking") \in Task /\ Proceed(t, "acking") \in Task
      BY ProceedType DEF EngineInv
    <3>2. Proceed(t, "picking").pc = "picking" /\ Proceed(t, "acking").pc = "acking"
      BY ProceedType DEF EngineInv
    <3>3. a.pc = "picking" /\ b.pc = "acking"
      BY <3>1, <3>2 DEF Task
    <3>4. c.pc = "acking"
      BY <1>1 DEF Task
    <3>5. QED
      BY <3>3, <3>4
  <2> HIDE DEF a, b, c
  <2>3. task'[t].pc \in {"picking", "acking"} /\ \A u \in Evaluations : u # t => task'[u] = task[u]
    BY <1>2, <2>1, <2>2
  <2>4. QED
    BY <2>1, <2>3
<1>14. CASE Crash(t)
  <2>1. task[t].pc \in Running /\ task'[t].pc \in {"done", "queued"}
    <3>1. /\ [Fresh("done") EXCEPT !.result = "lost"].pc = "done"
          /\ Fresh("queued").pc = "queued"
      BY DEF Fresh
    <3>2. QED
      BY <1>2, <1>14, <3>1 DEF Crash
  <2>2. QED
    BY <1>2, <1>14, <2>1 DEF Crash
<1>15. QED
  BY <1>3, <1>4, <1>5, <1>6, <1>7, <1>8, <1>9, <1>10, <1>11, <1>12, <1>13, <1>14 DEF Step

(* The two steps on the way to an entry. *)
LEMMA CheckAndSend ==
  ASSUME EngineInv, NEW t \in Evaluations
  PROVE  /\ CheckCooldown(t) =>
              /\ task'[t].pc \in {"notifying", "sending"}
              /\ task'[t].pc = "sending" => task'[t].seen = Len(logs)
         /\ Send(t) =>
              /\ task[t].pc = "sending" /\ task'[t].pc = "logging"
              /\ task'[t].rule = task[t].rule /\ task'[t].seen = task[t].seen
              /\ task'[t].asked = task[t].asked /\ task'[t].at = clock
              /\ task[t].asked <= clock
<1>1. task[t] \in Task /\ task \in [Evaluations -> Task]
  BY OneTask DEF EngineInv, TypeOK
<1>2. ASSUME CheckCooldown(t)
      PROVE  /\ task'[t].pc \in {"notifying", "sending"}
             /\ task'[t].pc = "sending" => task'[t].seen = Len(logs)
  BY <1>1, <1>2 DEF CheckCooldown, Become, Task
<1>3. ASSUME Send(t)
      PROVE  /\ task[t].pc = "sending" /\ task'[t].pc = "logging"
             /\ task'[t].rule = task[t].rule /\ task'[t].seen = task[t].seen
             /\ task'[t].asked = task[t].asked /\ task'[t].at = clock
  BY <1>1, <1>3 DEF Send, Become, Task
<1>4. Send(t) => task[t].asked <= clock
  BY <1>3 DEF EngineInv, ClearWhenAsked
<1>5. QED
  BY <1>2, <1>3, <1>4
(* An alert is sent, and dated, after its evaluation asked for it. *)
AskedFirst == \A t \in Evaluations : task[t].pc = "logging" => task[t].asked <= task[t].at

LEMMA AskedStep ==
  ASSUME EngineInv, AskedFirst, NEW t \in Evaluations,
         Request(t) \/ Step(t) \/ DatabaseFails(t) \/ Crash(t)
  PROVE  AskedFirst'
<1>1. /\ \A u \in Evaluations : u # t => task'[u] = task[u]
      /\ task'[t].pc \in {"sending", "logging"} => CheckCooldown(t) \/ Send(t)
  BY StepShape
<1>2. QED
  BY <1>1, CheckAndSend DEF AskedFirst
ClaimOf(t) == [by |-> t, rule |-> task[t].rule, at |-> task[t].asked]

HasClaim(t) == task[t].pc \in {"sending", "logging"}

(* The claims when only t moves: it opens one, keeps it, drops it or has none. *)
LEMMA ClaimMoves ==
  ASSUME NEW t \in Evaluations, \A u \in Evaluations : u # t => task'[u] = task[u]
  PROVE  /\ HasClaim(t) => ClaimOf(t) \in OpenClaims
         /\ ~HasClaim(t) /\ HasClaim(t)' =>
              /\ OpenClaims' = OpenClaims \cup {ClaimOf(t)'}
              /\ \A c \in OpenClaims : c.by # t
         /\ HasClaim(t) /\ ~HasClaim(t)' => OpenClaims' = OpenClaims \ {ClaimOf(t)}
         /\ HasClaim(t) /\ HasClaim(t)' /\ ClaimOf(t)' = ClaimOf(t) => OpenClaims' = OpenClaims
         /\ ~HasClaim(t) /\ ~HasClaim(t)' => OpenClaims' = OpenClaims
<1>1. /\ OpenClaims = {ClaimOf(u) : u \in {v \in Evaluations : HasClaim(v)}}
      /\ OpenClaims' = {ClaimOf(u)' : u \in {v \in Evaluations : HasClaim(v)'}}
  BY DEF OpenClaims, ClaimOf, HasClaim
<1>2. \A u \in Evaluations : u # t => ClaimOf(u)' = ClaimOf(u) /\ (HasClaim(u)' <=> HasClaim(u))
  BY DEF ClaimOf, HasClaim
<1>3. \A u \in Evaluations : ClaimOf(u).by = u
  BY DEF ClaimOf
<1>4. \A c : c \in OpenClaims <=> \E u \in Evaluations : HasClaim(u) /\ c = ClaimOf(u)
  BY <1>1
<1>5. \A c : c \in OpenClaims' <=> \E u \in Evaluations : HasClaim(u)' /\ c = ClaimOf(u)'
  BY <1>1
<1> HIDE DEF OpenClaims
<1>6. HasClaim(t) => ClaimOf(t) \in OpenClaims
  BY <1>4
<1>7. ASSUME ~HasClaim(t), HasClaim(t)'
      PROVE  OpenClaims' = OpenClaims \cup {ClaimOf(t)'} /\ \A c \in OpenClaims : c.by # t
  <2>1. \A c : c \in OpenClaims' <=> c \in OpenClaims \/ c = ClaimOf(t)'
    BY <1>2, <1>4, <1>5, <1>7
  <2>2. \A c \in OpenClaims : c.by # t
    BY <1>3, <1>4, <1>7
  <2>3. QED
    BY <2>1, <2>2
<1>8. ASSUME HasClaim(t), ~HasClaim(t)' PROVE OpenClaims' = OpenClaims \ {ClaimOf(t)}
  <2>1. \A c : c \in OpenClaims' <=> c \in OpenClaims /\ c # ClaimOf(t)
    BY <1>2, <1>3, <1>4, <1>5, <1>8
  <2>2. QED
    BY <2>1
<1>9. ASSUME HasClaim(t), HasClaim(t)', ClaimOf(t)' = ClaimOf(t) PROVE OpenClaims' = OpenClaims
  <2>1. \A c : c \in OpenClaims' <=> c \in OpenClaims
    BY <1>2, <1>4, <1>5, <1>9
  <2>2. QED
    BY <2>1
<1>10. ASSUME ~HasClaim(t), ~HasClaim(t)' PROVE OpenClaims' = OpenClaims
  <2>1. \A c : c \in OpenClaims' <=> c \in OpenClaims
    BY <1>2, <1>4, <1>5, <1>10
  <2>2. QED
    BY <2>1
<1>11. QED
  BY <1>6, <1>7, <1>8, <1>9, <1>10

(* An evaluation that is not in the cooldown of its rule asks for its alert. *)
LEMMA CheckRefines ==
  ASSUME EngineInv, NEW t \in Evaluations, CheckCooldown(t)
  PROVE  AlertLog!CooldownNext \/ UNCHANGED AlertLog!cooldownVars
<1>1. PICK r \in Rules :
        Become(t, IF InCooldown(r)
                    THEN [task[t] EXCEPT !.rules = @ \ {r}]
                    ELSE [task[t] EXCEPT !.pc = "sending", !.rule = r, !.rules = @ \ {r},
                                         !.asked = clock, !.seen = Len(logs)])
  BY DEF CheckCooldown
<1> DEFINE a == [task[t] EXCEPT !.rules = @ \ {r}]
           b == [task[t] EXCEPT !.pc = "sending", !.rule = r, !.rules = @ \ {r},
                                !.asked = clock, !.seen = Len(logs)]
<1>2. task[t] \in Task /\ task[t].pc = "notifying" /\ logs' = logs /\ clock \in Times
      /\ Len(logs) \in Nat /\ logs \in Seq(AlertLog!Entry) /\ clock \in Nat
  BY OneTask, EngineAssumption DEF CheckCooldown, database, EngineInv, TypeOK, Times
<1>3. a \in Task /\ b \in Task
  BY <1>2 DEF Task
<1>4. a.pc = "notifying" /\ b.pc = "sending" /\ b.rule = r /\ b.asked = clock
  BY <1>2 DEF Task
<1>5. TypeOK /\ ~HasClaim(t)
  BY <1>2 DEF EngineInv, HasClaim
<1> HIDE DEF a, b
<1>6. CASE InCooldown(r)
  <2>1. task'[t] = a /\ \A u \in Evaluations : u # t => task'[u] = task[u]
    BY <1>1, <1>3, <1>5, <1>6, BecomeFrame DEF a
  <2>2. ~HasClaim(t)'
    BY <1>4, <2>1 DEF HasClaim
  <2>3. OpenClaims' = OpenClaims
    BY <1>5, <2>1, <2>2, ClaimMoves
  <2>4. QED
    BY <1>2, <2>3 DEF AlertLog!cooldownVars
<1>7. CASE ~InCooldown(r)
  <2> DEFINE c == [by |-> t, rule |-> r, at |-> clock]
  <2>1. task'[t] = b /\ \A u \in Evaluations : u # t => task'[u] = task[u]
    BY <1>1, <1>3, <1>5, <1>7, BecomeFrame DEF b
  <2>2. HasClaim(t)' /\ ClaimOf(t)' = c
    BY <1>4, <2>1 DEF HasClaim, ClaimOf
  <2>3. OpenClaims' = OpenClaims \cup {c} /\ \A other \in OpenClaims : other.by # t
    BY <1>5, <2>1, <2>2, ClaimMoves
  <2>4. \A i \in AlertLog!EntriesOf(r) : clock >= logs[i].at + Cooldown[r]
    BY <1>2, <1>5, <1>7, NotInCooldown DEF AlertLog!EntriesOf
  <2>5. AlertLog!Ask(c)
    BY <1>2, <2>3, <2>4 DEF AlertLog!Ask
  <2>6. c \in AlertLog!Claim
    BY <1>2 DEF AlertLog!Claim
  <2> HIDE DEF c
  <2>7. QED
    BY <2>5, <2>6 DEF AlertLog!CooldownNext
<1>8. QED
  BY <1>6, <1>7

LEMMA SendRefines ==
  ASSUME EngineInv, NEW t \in Evaluations, Send(t)
  PROVE  UNCHANGED AlertLog!cooldownVars
<1>1. \A u \in Evaluations : u # t => task'[u] = task[u]
  BY StepShape DEF Step
<1>2. HasClaim(t) /\ HasClaim(t)' /\ ClaimOf(t)' = ClaimOf(t)
  BY CheckAndSend DEF HasClaim, ClaimOf
<1>3. OpenClaims' = OpenClaims
  BY <1>1, <1>2, ClaimMoves
<1>4. logs' = logs
  BY DEF Send, database
<1>5. QED
  BY <1>3, <1>4 DEF AlertLog!cooldownVars

(* Any other step drops the claim its evaluation has: WriteLog logs the     *)
(* alert, a death or an error gives it up.                                  *)
LEMMA RestRefines ==
  ASSUME EngineInv, AskedFirst, NEW t \in Evaluations, ~CheckCooldown(t), ~Send(t),
         Request(t) \/ Step(t) \/ DatabaseFails(t) \/ Crash(t)
  PROVE  AlertLog!CooldownNext \/ UNCHANGED AlertLog!cooldownVars
<1> DEFINE c == ClaimOf(t)
<1>1. ~HasClaim(t)' /\ \A u \in Evaluations : u # t => task'[u] = task[u]
  BY StepShape DEF HasClaim
<1>2. c \in AlertLog!Claim /\ c.rule = task[t].rule /\ c.at = task[t].asked
  BY OneTask DEF EngineInv, ClaimOf, AlertLog!Claim
<1>3. ~WriteLog(t) => logs' = logs
  BY DEF Request, Step, DatabaseFails, Crash, Begin, Load, Judge, SubjectDone, Finish,
     Acknowledge, database
<1>4. CASE ~HasClaim(t)
  <2>1. OpenClaims' = OpenClaims
    BY <1>1, <1>4, ClaimMoves
  <2>2. ~WriteLog(t)
    BY <1>4 DEF WriteLog, HasClaim
  <2>3. QED
    BY <1>3, <2>1, <2>2 DEF AlertLog!cooldownVars
<1>5. CASE HasClaim(t)
  <2>1. c \in OpenClaims /\ OpenClaims' = OpenClaims \ {c}
    BY <1>1, <1>5, ClaimMoves
  <2>2. CASE WriteLog(t)
    <3> DEFINE e == EntryOf(t)
    <3>1. e \in AlertLog!Entry /\ logs' = Append(logs, e)
      BY <2>2, LogGrows
    <3>2. e.rule = c.rule /\ c.at <= e.at
      BY <1>2, <2>2 DEF EntryOf, AskedFirst, WriteLog
    <3> HIDE DEF c, e
    <3>3. AlertLog!Alert(c, e)
      BY <2>1, <3>1, <3>2 DEF AlertLog!Alert
    <3>4. QED
      BY <1>2, <3>1, <3>3 DEF AlertLog!CooldownNext
  <2>3. CASE ~WriteLog(t)
    <3> HIDE DEF c
    <3>1. AlertLog!GiveUp(c)
      BY <1>3, <2>1, <2>3 DEF AlertLog!GiveUp
    <3>2. QED
      BY <1>2, <3>1 DEF AlertLog!CooldownNext
  <2>4. QED
    BY <2>2, <2>3
<1>6. QED
  BY <1>4, <1>5

LEMMA NextCooldown ==
  ASSUME EngineInv, AskedFirst, [Next]_vars
  PROVE  [AlertLog!CooldownNext]_(AlertLog!cooldownVars)
<1>1. ASSUME NEW t \in Evaluations, Request(t) \/ Step(t) \/ DatabaseFails(t) \/ Crash(t)
      PROVE  AlertLog!CooldownNext \/ UNCHANGED AlertLog!cooldownVars
  BY <1>1, CheckRefines, SendRefines, RestRefines
<1>2. CASE (\E r \in Rules : SetActive(r)) \/ (\E s \in Known : ChangeStatus(s)) \/ Tick
           \/ UNCHANGED vars
  <2>1. UNCHANGED <<task, logs>>
    BY <1>2 DEF SetActive, ChangeStatus, Tick, database, vars
  <2>2. OpenClaims' = OpenClaims
    BY <2>1 DEF OpenClaims
  <2>3. QED
    BY <2>1, <2>2 DEF AlertLog!cooldownVars
<1>3. QED
  BY <1>1, <1>2 DEF Next

LEMMA NextAskedFirst == EngineInv /\ AskedFirst /\ [Next]_vars => AskedFirst'
<1> SUFFICES ASSUME EngineInv, AskedFirst, [Next]_vars PROVE AskedFirst'
  OBVIOUS
<1>1. CASE (\E r \in Rules : SetActive(r)) \/ (\E s \in Known : ChangeStatus(s)) \/ Tick
           \/ UNCHANGED vars
  BY <1>1 DEF SetActive, ChangeStatus, Tick, vars, AskedFirst
<1>2. QED
  BY <1>1, AskedStep DEF Next

(* However many evaluations overlap, die, fail or are delivered again, on     *)
(* any number of workers: an alert is logged only by an evaluation that was   *)
(* clear of the whole log when it asked, each asks anew for every alert, and  *)
(* what was given up is never logged (_check_cooldown, _create_log).          *)
THEOREM CooldownImplemented == Spec => ImplementsCooldown
<1>1. Init => AskedFirst /\ AlertLog!CooldownInit
  <2> SUFFICES ASSUME Init PROVE AskedFirst /\ AlertLog!CooldownInit
    OBVIOUS
  <2>1. \A t \in Evaluations : task[t].pc = "idle"
    BY DEF Init, Fresh
  <2>2. OpenClaims = {} /\ logs = <<>>
    BY <2>1 DEF OpenClaims, Init
  <2>3. QED
    BY <2>1, <2>2 DEF AskedFirst, AlertLog!CooldownInit
<1>2. EngineInv /\ AskedFirst /\ [Next]_vars => AskedFirst'
  BY NextAskedFirst
<1>3. EngineInv /\ AskedFirst /\ [Next]_vars
        => [AlertLog!CooldownNext]_(AlertLog!cooldownVars)
  BY NextCooldown
<1>4. QED
  BY <1>1, <1>2, <1>3, EngineInvariant, PTL
     DEF Spec, ImplementsCooldown, AlertLog!CooldownSpec

-----------------------------------------------------------------------------

(* How many alerts of a rule evaluations that overlap can produce.           *)

Busy == {t \in Evaluations : task[t].pc \in Running}

(* How many evaluations can be at work at once. *)
AtWork == Concurrency + Cardinality(DirectEvaluations)

BusyBounded == Cardinality(Busy \ DirectEvaluations) <= Concurrency

(* Those that asked before the first entry of the window of r at x was there. *)
Pending(r, x) ==
  {t \in Evaluations : /\ task[t].pc \in {"sending", "logging"} /\ task[t].rule = r
                       /\ \A i \in Window(logs, r, x) : task[t].seen < i}

FloodInv ==
  /\ BusyBounded /\ AskedFirst
  /\ \A r \in Rules, x \in Times :
       Cardinality(Window(logs, r, x)) + Cardinality(Pending(r, x)) <= AtWork

Hits(e, r, x) == e.rule = r /\ x <= e.at /\ e.at < x + Cooldown[r]

LEMMA WindowFinite ==
  ASSUME NEW S, NEW list \in Seq(S), NEW r, NEW x
  PROVE  IsFiniteSet(Window(list, r, x)) /\ Cardinality(Window(list, r, x)) \in Nat
<1>1. Window(list, r, x) \subseteq 1 .. Len(list) /\ Len(list) \in Nat
  BY DEF Window
<1>2. IsFiniteSet(1 .. Len(list))
  BY <1>1, FS_Interval
<1>3. QED
  BY <1>1, <1>2, FS_Subset, FS_CardinalityType

LEMMA WindowGrows ==
  ASSUME NEW S, NEW list \in Seq(S), NEW e \in S, NEW r, NEW x
  PROVE  /\ Window(list, r, x) \subseteq Window(Append(list, e), r, x)
         /\ Hits(e, r, x) => Cardinality(Window(Append(list, e), r, x))
                               = Cardinality(Window(list, r, x)) + 1
         /\ ~Hits(e, r, x) => Window(Append(list, e), r, x) = Window(list, r, x)
<1> DEFINE n == Len(list) + 1
           longer == Append(list, e)
<1>1. /\ DOMAIN longer = 1 .. Len(list) \cup {n} /\ n \notin DOMAIN list
      /\ longer[n] = e /\ DOMAIN list = 1 .. Len(list)
      /\ \A i \in DOMAIN list : longer[i] = list[i]
  OBVIOUS
<1> HIDE DEF n, longer
<1>2. Window(longer, r, x) = Window(list, r, x) \cup (IF Hits(e, r, x) THEN {n} ELSE {})
  BY <1>1 DEF Window, Hits
<1>3. n \notin Window(list, r, x)
  BY <1>1 DEF Window
<1>4. IsFiniteSet(Window(list, r, x))
  BY WindowFinite
<1>5. QED
  BY <1>2, <1>3, <1>4, FS_AddElement DEF longer

LEMMA FewAtWork ==
  ASSUME IsFiniteSet(Evaluations), NEW S \in SUBSET Evaluations,
         Cardinality(S \ DirectEvaluations) <= Concurrency
  PROVE  /\ IsFiniteSet(S) /\ Cardinality(S) \in Nat /\ AtWork \in Nat
         /\ Cardinality(S) <= AtWork
<1> DEFINE queue == S \ DirectEvaluations
<1>1. IsFiniteSet(S) /\ IsFiniteSet(queue) /\ IsFiniteSet(DirectEvaluations)
  BY EngineAssumption, FS_Subset
<1>2. /\ IsFiniteSet(queue \cup DirectEvaluations)
      /\ Cardinality(queue \cup DirectEvaluations)
           = Cardinality(queue) + Cardinality(DirectEvaluations)
               - Cardinality(queue \cap DirectEvaluations)
  BY <1>1, FS_Union
<1>3. queue \cap DirectEvaluations = {}
  OBVIOUS
<1>4. S \in SUBSET (queue \cup DirectEvaluations)
  OBVIOUS
<1>5. Cardinality(S) <= Cardinality(queue \cup DirectEvaluations)
  BY <1>2, <1>4, FS_Subset
<1>6. /\ Cardinality(queue) \in Nat /\ Cardinality(DirectEvaluations) \in Nat
      /\ Cardinality(S) \in Nat /\ Cardinality({}) = 0 /\ Concurrency \in Nat
  BY <1>1, FS_CardinalityType, FS_EmptySet, EngineAssumption
<1>7. Cardinality(queue) <= Concurrency
  OBVIOUS
<1>8. Cardinality(queue \cap DirectEvaluations) = 0
  BY <1>3, <1>6
<1> HIDE DEF queue
<1>9. Cardinality(S) <= Cardinality(queue) + Cardinality(DirectEvaluations)
  BY <1>2, <1>5, <1>6, <1>8
<1>10. QED
  BY <1>1, <1>6, <1>7, <1>9 DEF AtWork


LEMMA BusyStep ==
  ASSUME IsFiniteSet(Evaluations), EngineInv, BusyBounded, NEW t \in Evaluations,
         Request(t) \/ Step(t) \/ DatabaseFails(t) \/ Crash(t)
  PROVE  BusyBounded'
<1> DEFINE queue == Busy \ DirectEvaluations
<1>1. /\ \A u \in Evaluations : u # t => task'[u] = task[u]
      /\ \/ task[t].pc \in Running \/ task'[t].pc \notin Running
         \/ t \in DirectEvaluations \/ WorkerFree
  BY StepShape
<1>2. IsFiniteSet(queue) /\ IsFiniteSet(queue')
  BY FS_Subset DEF Busy
<1>3. Cardinality(queue) \in Nat /\ Cardinality(queue') \in Nat /\ Concurrency \in Nat
  BY <1>2, FS_CardinalityType, EngineAssumption
<1>4. CASE t \in DirectEvaluations \/ task[t].pc \in Running \/ task'[t].pc \notin Running
  <2>1. queue' \in SUBSET queue
    BY <1>1, <1>4 DEF Busy
  <2>2. Cardinality(queue') <= Cardinality(queue)
    BY <1>2, <2>1, FS_Subset
  <2>3. QED
    BY <1>3, <2>2 DEF BusyBounded
<1>5. CASE WorkerFree /\ t \notin DirectEvaluations
  <2>1. queue' \in SUBSET (queue \cup {t})
    BY <1>1 DEF Busy
  <2> DEFINE busy == {u \in Evaluations \ DirectEvaluations : task[u].pc \in Running}
  <2>2. queue = busy
    BY DEF Busy
  <2>3. Cardinality(queue) < Concurrency
    <3>1. Cardinality(busy) < Concurrency
      BY <1>5 DEF WorkerFree
    <3> HIDE DEF busy, queue
    <3>2. QED
      BY <2>2, <3>1
  <2>4. IsFiniteSet(queue \cup {t}) /\ Cardinality(queue \cup {t}) <= Cardinality(queue) + 1
    <3> HIDE DEF queue
    <3>1. IsFiniteSet(queue \cup {t})
      BY <1>2, FS_AddElement
    <3>2. Cardinality(queue \cup {t})
            = IF t \in queue THEN Cardinality(queue) ELSE Cardinality(queue) + 1
      BY <1>2, FS_AddElement
    <3>3. QED
      BY <1>3, <3>1, <3>2
  <2>5. Cardinality(queue') <= Cardinality(queue \cup {t})
    BY <2>1, <2>4, FS_Subset
  <2>6. Cardinality(queue \cup {t}) \in Nat
    BY <2>4, FS_CardinalityType
  <2>7. Cardinality(queue') <= Concurrency
    BY <1>3, <2>3, <2>4, <2>5, <2>6
  <2>8. QED
    BY <2>7 DEF BusyBounded
<1>6. QED
  BY <1>1, <1>4, <1>5


(* An entry that is about to be written into a window that has entries was  *)
(* asked for before the first of them.                                      *)
LEMMA WriterPending ==
  ASSUME EngineInv, AskedFirst, NEW t \in Evaluations, task[t].pc = "logging",
         NEW r \in Rules, NEW x \in Times,
         task[t].rule = r, x <= task[t].at, task[t].at < x + Cooldown[r]
  PROVE  t \in Pending(r, x)
<1>1. ASSUME NEW i \in Window(logs, r, x) PROVE task[t].seen < i
  <2>1. SUFFICES ASSUME ~(task[t].seen < i) PROVE FALSE
    OBVIOUS
  <2>2. logs \in Seq(AlertLog!Entry)
    BY DEF EngineInv, TypeOK
  <2>3. i \in 1 .. Len(logs) /\ logs[i].rule = r /\ x <= logs[i].at /\ logs[i] \in AlertLog!Entry
    BY <2>2 DEF Window
  <2>4. /\ task[t].asked \in Nat /\ task[t].at \in Nat /\ task[t].seen \in Nat
        /\ logs[i].at \in Nat /\ x \in Nat /\ Cooldown[r] \in Nat
    BY <2>3, OneTask, EngineAssumption DEF EngineInv, Times, AlertLog!Entry
  <2>5. i \in 1 .. task[t].seen
    BY <2>1, <2>3, <2>4
  <2>6. task[t].asked >= logs[i].at + Cooldown[r]
    BY <2>3, <2>5 DEF EngineInv, ClearWhenAsked
  <2>7. task[t].asked <= task[t].at
    BY DEF AskedFirst
  <2>8. QED
    BY <2>3, <2>4, <2>6, <2>7
<1>2. QED
  BY <1>1 DEF Pending

(* Who is pending is at work. *)
LEMMA PendingFinite ==
  ASSUME IsFiniteSet(Evaluations), NEW r, NEW x
  PROVE  /\ IsFiniteSet(Pending(r, x)) /\ Cardinality(Pending(r, x)) \in Nat
         /\ Pending(r, x) \subseteq Busy
<1>1. Pending(r, x) \in SUBSET Evaluations
  BY DEF Pending
<1>2. IsFiniteSet(Pending(r, x))
  BY <1>1, FS_Subset
<1>3. QED
  BY <1>2, FS_CardinalityType DEF Pending, Busy, Running

(* A step of an evaluation that writes no entry. *)
LEMMA FloodQuiet ==
  ASSUME IsFiniteSet(Evaluations), EngineInv, FloodInv, BusyBounded', logs' = logs,
         NEW t \in Evaluations, Request(t) \/ Step(t) \/ DatabaseFails(t) \/ Crash(t),
         NEW r \in Rules, NEW x \in Times
  PROVE  Cardinality(Window(logs, r, x)') + Cardinality(Pending(r, x)') <= AtWork
<1>1. /\ \A u \in Evaluations : u # t => task'[u] = task[u]
      /\ task'[t].pc \in {"sending", "logging"} => CheckCooldown(t) \/ Send(t)
  BY StepShape
<1>2. logs \in Seq(AlertLog!Entry) /\ Window(logs, r, x)' = Window(logs, r, x)
  BY DEF EngineInv, TypeOK, Window
<1>3. IsFiniteSet(Window(logs, r, x)) /\ Cardinality(Window(logs, r, x)) \in Nat
  BY <1>2, WindowFinite
<1>4. /\ IsFiniteSet(Pending(r, x)) /\ Cardinality(Pending(r, x)) \in Nat
  BY PendingFinite
<1>5. /\ IsFiniteSet(Pending(r, x)') /\ Cardinality(Pending(r, x)') \in Nat
      /\ Pending(r, x)' \subseteq Busy'
  <2>1. Pending(r, x)' \in SUBSET Evaluations
    BY DEF Pending
  <2>2. IsFiniteSet(Pending(r, x)')
    BY <2>1, FS_Subset
  <2>3. QED
    BY <2>2, FS_CardinalityType DEF Pending, Busy, Running
<1>6. CASE Window(logs, r, x) = {}
  <2>1. /\ IsFiniteSet(Busy') /\ Cardinality(Busy') \in Nat /\ AtWork \in Nat
        /\ Cardinality(Busy') <= AtWork
    <3>1. Busy' \in SUBSET Evaluations
      BY DEF Busy
    <3>2. Cardinality(Busy' \ DirectEvaluations) <= Concurrency
      BY DEF BusyBounded
    <3>3. QED
      BY <3>1, <3>2, FewAtWork
  <2>2. Cardinality(Pending(r, x)') <= Cardinality(Busy')
    BY <1>5, <2>1, FS_Subset
  <2>3. Cardinality(Window(logs, r, x)') = 0
    BY <1>2, <1>6, FS_EmptySet
  <2>4. QED
    BY <1>5, <2>1, <2>2, <2>3
<1>7. CASE Window(logs, r, x) # {}
  <2>1. t \in Pending(r, x)' => t \in Pending(r, x)
    <3>1. PICK i \in Window(logs, r, x) : TRUE
      BY <1>7
    <3>2. i \in 1 .. Len(logs) /\ Len(logs) \in Nat
      BY <1>2 DEF Window
    <3>3. t \in Pending(r, x)' => task'[t].seen < i /\ task'[t].pc \in {"sending", "logging"}
      BY <1>2 DEF Pending
    <3>4. CASE CheckCooldown(t)
      BY <3>2, <3>3, <3>4, CheckAndSend
    <3>5. CASE Send(t)
      BY <1>2, <3>5, CheckAndSend DEF Pending
    <3>6. QED
      BY <1>1, <3>3, <3>4, <3>5
  <2>2. Pending(r, x)' \in SUBSET Pending(r, x)
    BY <1>1, <1>2, <2>1 DEF Pending
  <2>3. Cardinality(Pending(r, x)') <= Cardinality(Pending(r, x))
    BY <1>4, <2>2, FS_Subset
  <2>4. Cardinality(Window(logs, r, x)) + Cardinality(Pending(r, x)) <= AtWork /\ AtWork \in Nat
    BY FewAtWork, EngineAssumption, FS_EmptySet DEF FloodInv
  <2>5. QED
    BY <1>2, <1>3, <1>4, <1>5, <2>3, <2>4
<1>8. QED
  BY <1>6, <1>7

(* The step that does: the writer was pending, and whoever asks from now on *)
(* sees the entry.                                                          *)
LEMMA FloodWrite ==
  ASSUME IsFiniteSet(Evaluations), EngineInv, FloodInv,
         NEW t \in Evaluations, WriteLog(t), NEW r \in Rules, NEW x \in Times
  PROVE  Cardinality(Window(logs, r, x)') + Cardinality(Pending(r, x)') <= AtWork
<1> DEFINE e == EntryOf(t)
<1>1. /\ e \in AlertLog!Entry /\ logs \in Seq(AlertLog!Entry) /\ logs' = Append(logs, e)
      /\ task[t].pc = "logging"
  BY LogGrows DEF WriteLog
<1>2. e.rule = task[t].rule /\ e.at = task[t].at
  BY DEF EntryOf
<1>3. Window(logs, r, x)' = Window(Append(logs, e), r, x)
  BY <1>1 DEF Window
<1>4. /\ Window(logs, r, x) \subseteq Window(logs, r, x)'
      /\ Hits(e, r, x) => Cardinality(Window(logs, r, x)') = Cardinality(Window(logs, r, x)) + 1
      /\ ~Hits(e, r, x) => Window(logs, r, x)' = Window(logs, r, x)
  <2> HIDE DEF e
  <2>1. QED
    BY <1>1, <1>3, WindowGrows
<1>5. IsFiniteSet(Window(logs, r, x)) /\ Cardinality(Window(logs, r, x)) \in Nat
  BY <1>1, WindowFinite
<1>6. task' \in [Evaluations -> Task] /\ task'[t].pc = "notifying"
      /\ \A u \in Evaluations : u # t => task'[u] = task[u]
  <2> DEFINE a == Proceed(t, "notifying")
  <2>1. TypeOK /\ Become(t, a) /\ a \in Task /\ a.pc = "notifying"
    BY ProceedType DEF EngineInv, WriteLog
  <2> HIDE DEF a
  <2>2. QED
    BY <2>1, BecomeFrame
<1>7. Pending(r, x)' \in SUBSET (Pending(r, x) \ {t})
  BY <1>4, <1>6 DEF Pending
<1>8. /\ IsFiniteSet(Pending(r, x)) /\ Cardinality(Pending(r, x)) \in Nat
  BY PendingFinite
<1>9. /\ IsFiniteSet(Pending(r, x) \ {t}) /\ Cardinality(Pending(r, x) \ {t}) \in Nat
      /\ Cardinality(Pending(r, x) \ {t}) <= Cardinality(Pending(r, x))
      /\ t \in Pending(r, x) =>
           Cardinality(Pending(r, x) \ {t}) = Cardinality(Pending(r, x)) - 1
  <2> DEFINE S == Pending(r, x)
  <2>1. IsFiniteSet(S) /\ S \ {t} \in SUBSET S
    BY <1>8
  <2> HIDE DEF S
  <2>2. IsFiniteSet(S \ {t}) /\ Cardinality(S \ {t}) <= Cardinality(S)
    BY <2>1, FS_Subset
  <2>3. t \in S => Cardinality(S \ {t}) = Cardinality(S) - 1
    BY <2>1, FS_RemoveElement
  <2>4. Cardinality(S \ {t}) \in Nat
    BY <2>2, FS_CardinalityType
  <2>5. QED
    BY <2>2, <2>3, <2>4 DEF S
<1>10. /\ IsFiniteSet(Pending(r, x)') /\ Cardinality(Pending(r, x)') \in Nat
       /\ Cardinality(Pending(r, x)') <= Cardinality(Pending(r, x) \ {t})
  BY <1>7, <1>9, FS_Subset, FS_CardinalityType
<1>11. Cardinality(Window(logs, r, x)) + Cardinality(Pending(r, x)) <= AtWork /\ AtWork \in Nat
  BY FewAtWork, EngineAssumption, FS_EmptySet DEF FloodInv
<1>12. CASE Hits(e, r, x)
  <2>1. t \in Pending(r, x)
    BY <1>1, <1>2, <1>12, WriterPending DEF Hits, FloodInv
  <2>2. QED
    BY <1>4, <1>5, <1>8, <1>9, <1>10, <1>11, <1>12, <2>1
<1>13. CASE ~Hits(e, r, x)
  BY <1>4, <1>5, <1>8, <1>9, <1>10, <1>11, <1>13
<1>14. QED
  BY <1>12, <1>13

LEMMA NextFloodInv ==
  ASSUME IsFiniteSet(Evaluations), EngineInv, FloodInv, [Next]_vars
  PROVE  FloodInv'
<1>1. ASSUME NEW t \in Evaluations, Request(t) \/ Step(t) \/ DatabaseFails(t) \/ Crash(t)
      PROVE  FloodInv'
  <2>1. BusyBounded' /\ AskedFirst'
    BY <1>1, BusyStep, AskedStep DEF FloodInv
  <2>2. ASSUME NEW r \in Rules, NEW x \in Times
        PROVE  Cardinality(Window(logs, r, x)') + Cardinality(Pending(r, x)') <= AtWork
    <3>1. CASE WriteLog(t)
      BY <3>1, FloodWrite
    <3>2. CASE ~WriteLog(t)
      <4>1. logs' = logs
        BY <1>1, <3>2 DEF Request, Step, DatabaseFails, Crash, Begin, Load, Judge,
           CheckCooldown, SubjectDone, Send, Finish, Acknowledge, database
      <4>2. QED
        BY <1>1, <2>1, <4>1, FloodQuiet
    <3>3. QED
      BY <3>1, <3>2
  <2>3. QED
    BY <2>1, <2>2 DEF FloodInv
<1>2. CASE (\E r \in Rules : SetActive(r)) \/ (\E s \in Known : ChangeStatus(s)) \/ Tick
           \/ UNCHANGED vars
  <2>1. UNCHANGED <<task, logs>>
    BY <1>2 DEF SetActive, ChangeStatus, Tick, database, vars
  <2>2. QED
    BY <2>1 DEF FloodInv, BusyBounded, Busy, AskedFirst, Window, Pending
<1>3. QED
  BY <1>1, <1>2 DEF Next

LEMMA InitFloodInv ==
  ASSUME IsFiniteSet(Evaluations), Init
  PROVE  FloodInv
<1>1. \A t \in Evaluations : task[t].pc = "idle"
  BY DEF Init, Fresh
<1>2. Busy \ DirectEvaluations = {} /\ \A r \in Rules, x \in Times : Pending(r, x) = {}
  BY <1>1 DEF Busy, Pending, Running
<1>3. \A r \in Rules, x \in Times : Window(logs, r, x) = {}
  BY DEF Init, Window
<1>4. Cardinality({}) = 0 /\ Concurrency \in Nat
  BY EngineAssumption, FS_EmptySet
<1>5. AtWork \in Nat
  BY <1>4, FewAtWork
<1>6. BusyBounded /\ AskedFirst
  BY <1>1, <1>2, <1>4 DEF BusyBounded, AskedFirst
<1>7. \A r \in Rules, x \in Times :
        Cardinality(Window(logs, r, x)) = 0 /\ Cardinality(Pending(r, x)) = 0
  BY <1>2, <1>3, <1>4
<1>8. QED
  BY <1>5, <1>6, <1>7 DEF FloodInv

(* For any finite number of evaluations, requested, overlapping, crashing or *)
(* delivered again, no cooldown window of a rule holds more entries than     *)
(* workers and CLI calls can be at work at once (_check_cooldown).           *)
THEOREM OverlapBounded ==
  ASSUME IsFiniteSet(Evaluations)
  PROVE  Spec => []FloodBounded
<1>1. Init => FloodInv
  BY InitFloodInv
<1>2. EngineInv /\ FloodInv /\ [Next]_vars => FloodInv'
  BY NextFloodInv
<1>3. EngineInv /\ FloodInv => FloodBounded
  <2> SUFFICES ASSUME EngineInv, FloodInv, NEW r \in Rules, NEW x \in Times
               PROVE  Cardinality(Window(logs, r, x)) <= AtWork
    BY DEF FloodBounded, AtWork
  <2>1. Cardinality(Window(logs, r, x)) \in Nat
    BY WindowFinite DEF EngineInv, TypeOK
  <2>2. Cardinality(Pending(r, x)) \in Nat
    BY PendingFinite
  <2>3. AtWork \in Nat
    BY FewAtWork, EngineAssumption, FS_EmptySet
  <2>4. QED
    BY <2>1, <2>2, <2>3 DEF FloodInv
<1>4. QED
  BY <1>1, <1>2, <1>3, EngineInvariant, PTL DEF Spec

(* The messages: those without an entry are about to get it or lost it.      *)

Unlogged(r, x) ==
  {t \in Evaluations : task[t].pc = "logging" /\ Hits(task[t], r, x)}

SentInv ==
  \A r \in Rules, x \in Times :
    Cardinality(Window(sent, r, x)) <=
      Cardinality(Window(logs, r, x)) + Cardinality(Unlogged(r, x)) + crashes + failures

LEMMA UnloggedMoves ==
  ASSUME IsFiniteSet(Evaluations), NEW t \in Evaluations, NEW r, NEW x,
         \A u \in Evaluations : u # t => task'[u] = task[u]
  PROVE  /\ Cardinality(Unlogged(r, x)) \in Nat /\ Cardinality(Unlogged(r, x)') \in Nat
         /\ t \in Unlogged(r, x) /\ t \notin Unlogged(r, x)' =>
              Cardinality(Unlogged(r, x)) = Cardinality(Unlogged(r, x)') + 1
         /\ t \notin Unlogged(r, x) /\ t \in Unlogged(r, x)' =>
              Cardinality(Unlogged(r, x)') = Cardinality(Unlogged(r, x)) + 1
         /\ t \notin Unlogged(r, x) /\ t \notin Unlogged(r, x)' =>
              Unlogged(r, x)' = Unlogged(r, x)
<1> DEFINE S == Unlogged(r, x)
           T == Unlogged(r, x)'
<1>1. S \in SUBSET Evaluations /\ T \in SUBSET Evaluations
  BY DEF Unlogged
<1>2. S \ {t} = T \ {t}
  BY DEF Unlogged, Hits
<1> HIDE DEF S, T
<1>3. IsFiniteSet(S) /\ IsFiniteSet(T)
  BY <1>1, FS_Subset
<1>4. Cardinality(S) \in Nat /\ Cardinality(T) \in Nat
  BY <1>3, FS_CardinalityType
<1>5. CASE t \in S /\ t \notin T
  <2>1. S = T \cup {t}
    BY <1>2, <1>5
  <2>2. QED
    BY <1>3, <1>4, <1>5, <2>1, FS_AddElement DEF S, T
<1>6. CASE t \notin S /\ t \in T
  <2>1. T = S \cup {t}
    BY <1>2, <1>6
  <2>2. QED
    BY <1>3, <1>4, <1>6, <2>1, FS_AddElement DEF S, T
<1>7. CASE t \notin S /\ t \notin T
  BY <1>2, <1>4, <1>7 DEF S, T
<1>8. CASE t \in S /\ t \in T
  BY <1>4, <1>8 DEF S, T
<1>9. QED
  BY <1>5, <1>6, <1>7, <1>8

(* What is counted are natural numbers. *)
LEMMA SentTypes ==
  ASSUME EngineInv, NEW r, NEW x
  PROVE  /\ Cardinality(Window(sent, r, x)) \in Nat /\ Cardinality(Window(logs, r, x)) \in Nat
         /\ crashes \in Nat /\ failures \in Nat
<1>1. sent \in Seq([rule : Rules, at : Times]) /\ logs \in Seq(AlertLog!Entry)
  BY DEF EngineInv, TypeOK
<1>2. QED
  BY <1>1, WindowFinite, EngineAssumption DEF EngineInv, TypeOK

LEMMA SendSent ==
  ASSUME IsFiniteSet(Evaluations), EngineInv, SentInv,
         NEW t \in Evaluations, Send(t), NEW r \in Rules, NEW x \in Times
  PROVE  Cardinality(Window(sent, r, x)') <=
           Cardinality(Window(logs, r, x)') + Cardinality(Unlogged(r, x)') + crashes' + failures'
<1> DEFINE m == [rule |-> task[t].rule, at |-> clock]
<1>1. /\ \A u \in Evaluations : u # t => task'[u] = task[u]
      /\ task'[t].pc = "logging" /\ task'[t].rule = task[t].rule /\ task'[t].at = clock
      /\ task[t].pc = "sending"
  BY StepShape, CheckAndSend DEF Step
<1>2. /\ sent' = Append(sent, m) \/ sent' = sent
      /\ logs' = logs /\ crashes' = crashes /\ failures' = failures
  BY DEF Send, database, bounds
<1>3. m \in [rule : Rules, at : Times] /\ sent \in Seq([rule : Rules, at : Times])
      /\ m.rule = task[t].rule /\ m.at = clock
  BY OneTask DEF EngineInv, TypeOK
<1>4. t \notin Unlogged(r, x) /\ (t \in Unlogged(r, x)' <=> Hits(m, r, x))
  BY <1>1 DEF Unlogged, Hits
<1> HIDE DEF m
<1>5. /\ Cardinality(Unlogged(r, x)) \in Nat /\ Cardinality(Unlogged(r, x)') \in Nat
      /\ Hits(m, r, x) => Cardinality(Unlogged(r, x)') = Cardinality(Unlogged(r, x)) + 1
      /\ ~Hits(m, r, x) => Unlogged(r, x)' = Unlogged(r, x)
  BY <1>1, <1>4, UnloggedMoves
<1>6. Window(sent, r, x)' = Window(sent', r, x) /\ Window(logs, r, x)' = Window(logs, r, x)
  BY <1>2 DEF Window
<1>7. /\ Cardinality(Window(sent, r, x)) \in Nat /\ Cardinality(Window(logs, r, x)) \in Nat
      /\ crashes \in Nat /\ failures \in Nat
  BY SentTypes
<1>8. /\ IsFiniteSet(Window(sent, r, x)') /\ Cardinality(Window(sent, r, x)') \in Nat
      /\ Cardinality(Window(sent, r, x)') <= Cardinality(Window(sent, r, x)) + 1
      /\ ~Hits(m, r, x) => Cardinality(Window(sent, r, x)') = Cardinality(Window(sent, r, x))
  <2> DEFINE Message == [rule : Rules, at : Times]
  <2>1. m \in Message /\ sent \in Seq(Message)
    BY <1>3
  <2> HIDE DEF Message
  <2>2. sent' \in Seq(Message)
    BY <1>2, <2>1
  <2>3. IsFiniteSet(Window(sent', r, x)) /\ Cardinality(Window(sent', r, x)) \in Nat
    BY <2>2, WindowFinite
  <2>4. CASE sent' = sent
    BY <1>6, <1>7, <2>3, <2>4
  <2>5. CASE sent' = Append(sent, m)
    <3>1. Window(sent, r, x)' = Window(Append(sent, m), r, x)
      BY <1>6, <2>5
    <3>2. /\ Hits(m, r, x) => Cardinality(Window(Append(sent, m), r, x))
                                = Cardinality(Window(sent, r, x)) + 1
          /\ ~Hits(m, r, x) => Window(Append(sent, m), r, x) = Window(sent, r, x)
      BY <2>1, WindowGrows
    <3>3. QED
      BY <1>6, <1>7, <2>3, <3>1, <3>2
  <2>6. QED
    BY <1>2, <2>4, <2>5
<1>9. Cardinality(Window(sent, r, x)) <=
        Cardinality(Window(logs, r, x)) + Cardinality(Unlogged(r, x)) + crashes + failures
  BY DEF SentInv
<1>10. Cardinality(Window(sent, r, x)') <=
         Cardinality(Window(logs, r, x)) + Cardinality(Unlogged(r, x)') + crashes + failures
  <2>1. CASE Hits(m, r, x)
    <3>1. Cardinality(Unlogged(r, x)') = Cardinality(Unlogged(r, x)) + 1
      BY <1>5, <2>1
    <3>2. QED
      BY <1>5, <1>7, <1>8, <1>9, <3>1
  <2>2. CASE ~Hits(m, r, x)
    <3>1. Unlogged(r, x)' = Unlogged(r, x)
      BY <1>5, <2>2
    <3>2. QED
      BY <1>7, <1>8, <1>9, <2>2, <3>1
  <2>3. QED
    BY <2>1, <2>2
<1>11. QED
  BY <1>2, <1>6, <1>10

(* The entry of a message is written, or its evaluation is given up, or the  *)
(* step has to do with neither.                                              *)
LEMMA OtherSent ==
  ASSUME IsFiniteSet(Evaluations), EngineInv, SentInv, NEW t \in Evaluations, ~Send(t),
         Request(t) \/ Step(t) \/ DatabaseFails(t) \/ Crash(t),
         NEW r \in Rules, NEW x \in Times
  PROVE  Cardinality(Window(sent, r, x)') <=
           Cardinality(Window(logs, r, x)') + Cardinality(Unlogged(r, x)') + crashes' + failures'
<1>1. /\ \A u \in Evaluations : u # t => task'[u] = task[u]
      /\ t \notin Unlogged(r, x)'
  <2>1. task'[t].pc # "logging"
    BY StepShape, CheckAndSend
  <2>2. QED
    BY <2>1, StepShape DEF Unlogged
<1>2. /\ Cardinality(Unlogged(r, x)) \in Nat /\ Cardinality(Unlogged(r, x)') \in Nat
      /\ Cardinality(Unlogged(r, x)) <= Cardinality(Unlogged(r, x)') + 1
      /\ t \notin Unlogged(r, x) => Unlogged(r, x)' = Unlogged(r, x)
  BY <1>1, UnloggedMoves
<1>3. sent' = sent /\ Window(sent, r, x)' = Window(sent, r, x)
  BY DEF Request, Step, DatabaseFails, Crash, Begin, Load, Judge, CheckCooldown, SubjectDone,
     WriteLog, Finish, Acknowledge, Window
<1>4. /\ Cardinality(Window(sent, r, x)) \in Nat /\ Cardinality(Window(logs, r, x)) \in Nat
      /\ crashes \in Nat /\ failures \in Nat
      /\ Cardinality(Window(sent, r, x)) <=
           Cardinality(Window(logs, r, x)) + Cardinality(Unlogged(r, x)) + crashes + failures
  BY SentTypes DEF SentInv
<1>5. CASE WriteLog(t)
  <2> DEFINE e == EntryOf(t)
  <2>1. e \in AlertLog!Entry /\ logs \in Seq(AlertLog!Entry) /\ logs' = Append(logs, e)
        /\ crashes' = crashes /\ failures' = failures
    BY <1>5, LogGrows DEF WriteLog, bounds
  <2>2. t \in Unlogged(r, x) => Hits(e, r, x)
    BY DEF Unlogged, Hits, EntryOf
  <2>3. Window(logs, r, x)' = Window(Append(logs, e), r, x)
    BY <2>1 DEF Window
  <2> HIDE DEF e
  <2>4. /\ Hits(e, r, x) => Cardinality(Window(logs, r, x)') = Cardinality(Window(logs, r, x)) + 1
        /\ ~Hits(e, r, x) => Window(logs, r, x)' = Window(logs, r, x)
    BY <2>1, <2>3, WindowGrows
  <2>5. CASE Hits(e, r, x)
    BY <1>2, <1>3, <1>4, <2>1, <2>4, <2>5
  <2>6. CASE ~Hits(e, r, x)
    BY <1>2, <1>3, <1>4, <2>1, <2>2, <2>4, <2>6
  <2>7. QED
    BY <2>5, <2>6
<1>6. CASE DatabaseFails(t) \/ Crash(t)
  <2>1. logs' = logs /\ Window(logs, r, x)' = Window(logs, r, x)
    BY <1>6 DEF DatabaseFails, Crash, database, Window
  <2>2. \/ crashes' = crashes + 1 /\ failures' = failures
        \/ crashes' = crashes /\ failures' = failures + 1
    BY <1>6 DEF DatabaseFails, Crash
  <2>3. QED
    BY <1>2, <1>3, <1>4, <2>1, <2>2
<1>7. CASE Request(t) \/ (Step(t) /\ ~WriteLog(t))
  <2>1. /\ logs' = logs /\ crashes' = crashes /\ failures' = failures
        /\ Window(logs, r, x)' = Window(logs, r, x)
    BY <1>7 DEF Request, Step, Begin, Load, Judge, CheckCooldown, SubjectDone,
       Finish, Acknowledge, database, bounds, Window
  <2>2. task[t].pc # "logging"
    BY <1>7 DEF Request, Step, Begin, Load, Judge, CheckCooldown, SubjectDone,
       Finish, Acknowledge
  <2>3. t \notin Unlogged(r, x)
    BY <2>2 DEF Unlogged
  <2>4. QED
    BY <1>2, <1>3, <1>4, <2>1, <2>3
<1>8. QED
  BY <1>5, <1>6, <1>7

LEMMA NextSentInv ==
  ASSUME IsFiniteSet(Evaluations), EngineInv, SentInv, [Next]_vars
  PROVE  SentInv'
<1>1. ASSUME NEW t \in Evaluations, Request(t) \/ Step(t) \/ DatabaseFails(t) \/ Crash(t)
      PROVE  SentInv'
  BY <1>1, SendSent, OtherSent DEF SentInv
<1>2. CASE (\E r \in Rules : SetActive(r)) \/ (\E s \in Known : ChangeStatus(s)) \/ Tick
           \/ UNCHANGED vars
  <2>1. UNCHANGED <<task, logs, sent, crashes, failures>>
    BY <1>2 DEF SetActive, ChangeStatus, Tick, database, bounds, vars
  <2>2. QED
    BY <2>1 DEF SentInv, Window, Unlogged
<1>3. QED
  BY <1>1, <1>2 DEF Next

LEMMA InitSentInv == Init => SentInv
<1> SUFFICES ASSUME Init, NEW r \in Rules, NEW x \in Times
             PROVE  Cardinality(Window(sent, r, x)) <=
                      Cardinality(Window(logs, r, x)) + Cardinality(Unlogged(r, x))
                        + crashes + failures
  BY DEF SentInv
<1>1. Window(sent, r, x) = {} /\ Window(logs, r, x) = {}
  BY DEF Init, Window
<1>2. Unlogged(r, x) = {}
  BY DEF Init, Fresh, Unlogged
<1>3. crashes = 0 /\ failures = 0
  BY DEF Init
<1>4. QED
  BY <1>1, <1>2, <1>3, FS_EmptySet

(* What users see of a rule in one cooldown window exceeds what evaluations   *)
(* at work can produce only by the messages whose entry was lost with a       *)
(* worker or to a database error (send_alert_notification before _create_log). *)
THEOREM MessagesBounded ==
  ASSUME IsFiniteSet(Evaluations)
  PROVE  Spec => []NotificationsBounded
<1>1. Init => FloodInv /\ SentInv
  BY InitFloodInv, InitSentInv
<1>2. EngineInv /\ FloodInv /\ SentInv /\ [Next]_vars => FloodInv' /\ SentInv'
  BY NextFloodInv, NextSentInv
<1>3. EngineInv /\ FloodInv /\ SentInv => NotificationsBounded
  <2> SUFFICES ASSUME EngineInv, FloodInv, SentInv, NEW r \in Rules, NEW x \in Times
               PROVE  Cardinality(Window(sent, r, x)) <= AtWork + crashes + failures
    BY DEF NotificationsBounded, AtWork
  <2>1. Unlogged(r, x) \in SUBSET Pending(r, x)
    BY WriterPending DEF Unlogged, Hits, FloodInv
  <2>2. IsFiniteSet(Pending(r, x)) /\ Cardinality(Pending(r, x)) \in Nat
    BY PendingFinite
  <2>3. Cardinality(Unlogged(r, x)) <= Cardinality(Pending(r, x))
        /\ Cardinality(Unlogged(r, x)) \in Nat
    BY <2>1, <2>2, FS_Subset, FS_CardinalityType
  <2>4. /\ Cardinality(Window(sent, r, x)) \in Nat /\ Cardinality(Window(logs, r, x)) \in Nat
        /\ crashes \in Nat /\ failures \in Nat
    BY SentTypes
  <2>5. AtWork \in Nat
    BY FewAtWork, EngineAssumption, FS_EmptySet
  <2>6. QED
    BY <2>2, <2>3, <2>4, <2>5 DEF FloodInv, SentInv
<1>4. QED
  BY <1>1, <1>2, <1>3, EngineInvariant, PTL DEF Spec
=============================================================================
