----------------------------- MODULE TaskBroker -----------------------------
(***************************************************************************)
(* Two Celery applications over one broker.  The collector and the alert   *)
(* engine are given the same Redis URL and neither routes its tasks, so    *)
(* the messages of both, of their beats and of the gateway are in one      *)
(* queue, and any worker takes any message.  A worker that does not know   *)
(* the name of the task rejects the message for good.  A task publishes    *)
(* its retry, or its request for an evaluation, before its own message is  *)
(* acknowledged: a worker that dies in between gives that message back     *)
(* although it has had its effect, and there are two copies of it.         *)
(***************************************************************************)
EXTENDS Naturals

CONSTANTS
  Workers,     \* worker processes
  AppOf,       \* the application each was started for
  Messages,    \* message ids
  NameOf,      \* the task each message names
  MaxRetries,  \* max_retries of the sync tasks
  MaxRepeats,  \* bound on the deaths that leave a second copy of a message
  Nothing      \* "no message"

Apps == {"collector", "engine"}
Names == {"sync_subject", "sync_all", "evaluate_subject", "evaluate_all"}

\* A message on its way: how often it has been retried, and which copy it is.
Delivery == [msg : Messages, copy : 0 .. MaxRepeats, tries : 0 .. MaxRetries]

ASSUME BrokerAssumption ==
  /\ AppOf \in [Workers -> Apps]
  /\ NameOf \in [Messages -> Names]
  /\ MaxRetries \in Nat /\ MaxRepeats \in Nat
  /\ Nothing \notin Delivery

\* The decorated functions of the modules each application includes.  The
\* sync_all functions the collector's beat names are plain functions.
Registered(app) ==
  IF app = "collector" THEN {"sync_subject"} ELSE {"evaluate_subject", "evaluate_all"}

VARIABLES
  queue,      \* the deliveries waiting in Redis
  held,       \* held[w]: the delivery w has taken and not acknowledged
  over,       \* the workers whose task has returned, or published its retry
  up,         \* up[w]: whether the worker runs
  done,       \* messages whose task has returned for good
  discarded,  \* messages rejected for their name
  repeats     \* repeats[m]: the copies of m that deaths have added

vars == <<queue, held, over, up, done, discarded, repeats>>

\* Worker w has a message and its task has had no effect yet.
Busy(w) == held[w] # Nothing /\ w \notin over

\* Message m is settled, or there is a delivery of it that is still to run.
Kept(m) ==
  \/ m \in done \cup discarded
  \/ \E d \in queue : d.msg = m
  \/ \E w \in Workers : Busy(w) /\ held[w].msg = m

First(m) == [msg |-> m, copy |-> 0, tries |-> 0]

Init ==
  /\ queue = {}
  /\ held = [w \in Workers |-> Nothing]
  /\ over = {}
  /\ up \in [Workers -> BOOLEAN]
  /\ done = {} /\ discarded = {}
  /\ repeats = [m \in Messages |-> 0]

\* The gateway's sync request, and the two beat schedules.
Publish(m) ==
  /\ ~Kept(m) /\ NameOf[m] # "evaluate_subject"
  /\ queue' = queue \cup {First(m)}
  /\ UNCHANGED <<held, over, up, done, discarded, repeats>>

Take(w) ==
  /\ up[w] /\ held[w] = Nothing
  /\ \E d \in queue : held' = [held EXCEPT ![w] = d] /\ queue' = queue \ {d}
  /\ UNCHANGED <<over, up, done, discarded, repeats>>

Knows(w) == NameOf[held[w].msg] \in Registered(AppOf[w])

\* An unregistered task: the message is rejected, not requeued.
Discard(w) ==
  /\ Busy(w) /\ ~Knows(w)
  /\ discarded' = discarded \cup {held[w].msg}
  /\ held' = [held EXCEPT ![w] = Nothing]
  /\ UNCHANGED <<queue, over, up, done, repeats>>

\* The task returns or fails for good; a sync that succeeded has sent a request
\* for an evaluation, a message of its own, just before.
Finish(w) ==
  /\ Busy(w) /\ Knows(w)
  /\ done' = done \cup {held[w].msg}
  /\ over' = over \cup {w}
  /\ \/ UNCHANGED queue
     \/ /\ NameOf[held[w].msg] = "sync_subject"
        /\ \E m \in Messages :
             ~Kept(m) /\ NameOf[m] = "evaluate_subject" /\ queue' = queue \cup {First(m)}
  /\ UNCHANGED <<held, up, discarded, repeats>>

\* Fault: the retry forgets how many there were.
RetryUncounted(w) ==
  /\ Busy(w) /\ Knows(w) /\ NameOf[held[w].msg] = "sync_subject"
  /\ queue' = queue \cup {held[w]}
  /\ over' = over \cup {w}
  /\ UNCHANGED <<held, up, done, discarded, repeats>>

\* A transient error: the task publishes itself again, under its own id.
Retry(w) ==
  /\ Busy(w) /\ Knows(w) /\ NameOf[held[w].msg] = "sync_subject"
  /\ held[w].tries < MaxRetries
  /\ queue' = queue \cup {[held[w] EXCEPT !.tries = @ + 1]}
  /\ over' = over \cup {w}
  /\ UNCHANGED <<held, up, done, discarded, repeats>>

\* task_acks_late: only now is the delivery gone.
Acknowledge(w) ==
  /\ w \in over
  /\ over' = over \ {w}
  /\ held' = [held EXCEPT ![w] = Nothing]
  /\ UNCHANGED <<queue, up, done, discarded, repeats>>

\* Fault: acknowledged when it is taken.
DieAcknowledged(w) ==
  /\ up[w]
  /\ up' = [up EXCEPT ![w] = FALSE]
  /\ held' = [held EXCEPT ![w] = Nothing]
  /\ over' = over \ {w}
  /\ UNCHANGED <<queue, done, discarded, repeats>>

\* Fault: the message is given back while the worker still has it.
DieHolding(w) ==
  /\ up[w] /\ w \notin over
  /\ up' = [up EXCEPT ![w] = FALSE]
  /\ queue' = queue \cup ({held[w]} \ {Nothing})
  /\ UNCHANGED <<held, over, done, discarded, repeats>>

\* The worker dies or is killed, and what it has not acknowledged is delivered
\* again: as before, or as a further copy of what has had its effect.
Die(w) ==
  /\ up[w]
  /\ up' = [up EXCEPT ![w] = FALSE]
  /\ held' = [held EXCEPT ![w] = Nothing]
  /\ over' = over \ {w}
  /\ IF w \in over
     THEN LET m == held[w].msg IN
          /\ repeats[m] < MaxRepeats
          /\ repeats' = [repeats EXCEPT ![m] = @ + 1]
          /\ queue' = queue \cup {[held[w] EXCEPT !.copy = repeats[m] + 1]}
     ELSE queue' = queue \cup ({held[w]} \ {Nothing}) /\ UNCHANGED repeats
  /\ UNCHANGED <<done, discarded>>

Start(w) ==
  /\ ~up[w]
  /\ up' = [up EXCEPT ![w] = TRUE]
  /\ UNCHANGED <<queue, held, over, done, discarded, repeats>>

Work(w) == Take(w) \/ Discard(w) \/ Finish(w) \/ Retry(w) \/ Acknowledge(w)

Next ==
  \/ \E m \in Messages : Publish(m)
  \/ \E w \in Workers : Work(w) \/ Die(w) \/ Start(w)

Spec == Init /\ [][Next]_vars

\* Workers that run work; nobody need start the others.
FairSpec == Spec /\ \A w \in Workers : WF_vars(Work(w))

-----------------------------------------------------------------------------
(* Properties. *)

TypeOK ==
  /\ queue \subseteq Delivery
  /\ held \in [Workers -> Delivery \cup {Nothing}]
  /\ over \subseteq {w \in Workers : held[w] # Nothing}
  /\ up \in [Workers -> BOOLEAN]
  /\ done \subseteq Messages /\ discarded \subseteq Messages
  /\ repeats \in [Messages -> 0 .. MaxRepeats]

SameCopy(d, e) == d.msg = e.msg /\ d.copy = e.copy

\* A message waits and runs in as many copies as deaths have left between its
\* effect and its acknowledgement, and one more: each of them is in one place,
\* waiting or with one worker that runs, through retries and redeliveries.
OneOwner ==
  /\ \A d \in queue : d.copy <= repeats[d.msg]
  /\ \A d, e \in queue : SameCopy(d, e) => d = e
  /\ \A w \in Workers : Busy(w) =>
       /\ up[w]
       /\ held[w].copy <= repeats[held[w].msg]
       /\ \A d \in queue : ~SameCopy(held[w], d)
       /\ \A v \in Workers : Busy(v) /\ SameCopy(held[v], held[w]) => v = w

\* A published message is settled or still to run, whenever workers die: before
\* its effect, between that and the acknowledgement, or after (task_acks_late,
\* task_reject_on_worker_lost).
NothingLost == [][\A m \in Messages : Kept(m) => Kept(m)']_vars

\* Once workers stop dying, however often they did, no message waits forever
\* while a worker runs.
MessagesSettle ==
  <>[][\A w \in Workers : ~Die(w)]_vars =>
    \A m \in Messages :
      (\E d \in queue : d.msg = m) ~> m \in done \cup discarded \/ \A w \in Workers : ~up[w]

\* A request for an evaluation waits in Redis until a worker of the alert engine
\* picks it up (the docstring of _trigger_alert_evaluation).
EvaluationsWait == \A m \in discarded : NameOf[m] # "evaluate_subject"
=============================================================================
