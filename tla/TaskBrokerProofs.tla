------------------------- MODULE TaskBrokerProofs -------------------------
(***************************************************************************)
(* Whenever a worker dies, before the effect of its task, between that and *)
(* the acknowledgement or after, no published message is lost, and it      *)
(* waits or runs in no more copies than such deaths explain: for any       *)
(* numbers of workers, messages, retries and deaths.                       *)
(***************************************************************************)
EXTENDS TaskBroker, TLAPS

OwnedInv == TypeOK /\ OneOwner

LEMMA OwnedInit == Init => OwnedInv
  BY BrokerAssumption DEF Init, OwnedInv, TypeOK, OneOwner, Busy

\* The first delivery of a message that is neither settled nor under way has no
\* other copy beside it.
LEMMA FirstIsNew ==
  ASSUME OwnedInv, NEW m \in Messages, ~Kept(m)
  PROVE  /\ First(m) \in Delivery
         /\ First(m).copy <= repeats[m]
         /\ \A d \in queue : ~SameCopy(d, First(m))
         /\ \A w \in Workers : Busy(w) => ~SameCopy(held[w], First(m))
  BY BrokerAssumption DEF OwnedInv, TypeOK, Kept, First, Delivery, SameCopy

\* Every step keeps each copy in one place: what leaves the queue is held by the
\* worker that took it, what is published or given back has no owner.
LEMMA OwnedStep == OwnedInv /\ [Next]_vars => OwnedInv'
<1> SUFFICES ASSUME OwnedInv, [Next]_vars PROVE OwnedInv'
  OBVIOUS
<1> USE BrokerAssumption
<1>1. ASSUME NEW m \in Messages, Publish(m) PROVE OwnedInv'
  <2>1. /\ First(m) \in Delivery
        /\ First(m).copy <= repeats[m]
        /\ \A d \in queue : ~SameCopy(d, First(m))
        /\ \A w \in Workers : Busy(w) => ~SameCopy(held[w], First(m))
    BY <1>1, FirstIsNew DEF Publish
  <2>2. First(m).msg = m
    BY DEF First
  <2> QED
    BY <1>1, <2>1, <2>2 DEF OwnedInv, TypeOK, OneOwner, Publish, SameCopy, Busy
<1>2. ASSUME NEW w \in Workers, Take(w) PROVE OwnedInv'
  BY <1>2 DEF OwnedInv, TypeOK, OneOwner, Take, SameCopy, Busy
<1>3. ASSUME NEW w \in Workers, Discard(w) PROVE OwnedInv'
  BY <1>3 DEF OwnedInv, TypeOK, OneOwner, Discard, SameCopy, Busy, Delivery
<1>4. ASSUME NEW w \in Workers, Finish(w) PROVE OwnedInv'
  <2>1. PICK sent \in SUBSET Messages :
          /\ queue' = queue \cup {First(m) : m \in sent}
          /\ \A m, n \in sent : m = n
          /\ \A m \in sent : ~Kept(m)
    <3>1. CASE UNCHANGED queue
      <4>1. {} \in SUBSET Messages /\ queue' = queue \cup {First(m) : m \in {}}
        BY <3>1
      <4> QED
        BY <4>1
    <3>2. CASE \E m \in Messages : ~Kept(m) /\ queue' = queue \cup {First(m)}
      <4>1. PICK m \in Messages : ~Kept(m) /\ queue' = queue \cup {First(m)}
        BY <3>2
      <4>2. {m} \in SUBSET Messages /\ {First(n) : n \in {m}} = {First(m)}
        OBVIOUS
      <4> QED
        BY <4>1, <4>2
    <3> QED
      BY <1>4, <3>1, <3>2 DEF Finish
  <2>2. /\ Busy(w) /\ held[w] \in Delivery
        /\ done' = done \cup {held[w].msg}
        /\ over' = over \cup {w}
        /\ UNCHANGED <<held, up, discarded, repeats>>
    BY <1>4 DEF Finish, Busy, OwnedInv, TypeOK
  <2>3. \A m \in sent : /\ First(m) \in Delivery /\ First(m).msg = m
                        /\ First(m).copy <= repeats[m]
                        /\ \A d \in queue : ~SameCopy(d, First(m))
                        /\ \A v \in Workers : Busy(v) => ~SameCopy(held[v], First(m))
    BY <2>1, FirstIsNew DEF First
  <2>4. TypeOK'
    BY <2>1, <2>2, <2>3 DEF OwnedInv, TypeOK, Delivery, Busy
  <2>5. \A v \in Workers : Busy(v)' => Busy(v)
    BY <2>2 DEF Busy
  <2>6. OneOwner'
    BY <2>1, <2>2, <2>3, <2>5 DEF OwnedInv, OneOwner, SameCopy
  <2> QED
    BY <2>4, <2>6 DEF OwnedInv
<1>5. ASSUME NEW w \in Workers, Retry(w) PROVE OwnedInv'
  <2> DEFINE d == [held[w] EXCEPT !.tries = @ + 1]
  <2>1. /\ Busy(w) /\ held[w] \in Delivery /\ held[w].tries < MaxRetries
        /\ queue' = queue \cup {d} /\ over' = over \cup {w}
        /\ UNCHANGED <<held, up, done, discarded, repeats>>
    BY <1>5 DEF Retry, Busy, OwnedInv, TypeOK
  <2>2. d \in Delivery /\ SameCopy(d, held[w])
    BY <2>1 DEF Delivery, SameCopy
  <2> HIDE DEF d
  <2>3. TypeOK'
    BY <2>1, <2>2 DEF OwnedInv, TypeOK, Busy
  <2>4. \A v \in Workers : Busy(v)' => Busy(v) /\ v # w
    BY <2>1 DEF Busy
  <2>5. OneOwner'
    BY <2>1, <2>2, <2>4 DEF OwnedInv, OneOwner, SameCopy
  <2> QED
    BY <2>3, <2>5 DEF OwnedInv
<1>6. ASSUME NEW w \in Workers, Acknowledge(w) PROVE OwnedInv'
  <2>1. \A v \in Workers : Busy(v)' => Busy(v) /\ held'[v] = held[v]
    BY <1>6 DEF Acknowledge, Busy, OwnedInv, TypeOK
  <2> QED
    BY <1>6, <2>1 DEF OwnedInv, TypeOK, OneOwner, Acknowledge
<1>7. ASSUME NEW w \in Workers, Die(w) PROVE OwnedInv'
  <2>1. \A v \in Workers : Busy(v)' => Busy(v) /\ v # w /\ held'[v] = held[v]
    BY <1>7 DEF Die, Busy, OwnedInv, TypeOK
  <2>2. CASE w \notin over
    BY <1>7, <2>1, <2>2 DEF OwnedInv, TypeOK, OneOwner, Die, Busy, SameCopy
  <2>3. CASE w \in over
    <3> DEFINE m == held[w].msg
               d == [held[w] EXCEPT !.copy = repeats[m] + 1]
    <3>1. /\ held[w] \in Delivery /\ m \in Messages
          /\ repeats[m] \in 0 .. MaxRepeats /\ repeats[m] < MaxRepeats
          /\ repeats' = [repeats EXCEPT ![m] = @ + 1]
          /\ queue' = queue \cup {d}
          /\ held' = [held EXCEPT ![w] = Nothing] /\ over' = over \ {w}
          /\ up' = [up EXCEPT ![w] = FALSE] /\ UNCHANGED <<done, discarded>>
      BY <1>7, <2>3 DEF Die, OwnedInv, TypeOK, Delivery
    <3>2. d \in Delivery /\ d.msg = m /\ d.copy = repeats[m] + 1
      BY <3>1 DEF Delivery
    <3> HIDE DEF d, m
    <3>3. /\ \A e \in queue : e \in Delivery /\ e.copy <= repeats[e.msg]
          /\ \A v \in Workers : Busy(v) =>
               held[v] \in Delivery /\ held[v].copy <= repeats[held[v].msg]
      BY DEF OwnedInv, TypeOK, OneOwner, Busy
    <3>4. \A e \in Delivery : e.copy <= repeats[e.msg] => ~SameCopy(e, d)
      BY <3>1, <3>2 DEF SameCopy, Delivery
    <3>5. \A e \in Delivery : e.copy <= repeats[e.msg] => e.copy <= repeats'[e.msg]
      BY <3>1 DEF Delivery, OwnedInv, TypeOK
    <3>6. TypeOK'
      BY <3>1, <3>2 DEF OwnedInv, TypeOK
    <3>7. d.copy <= repeats'[d.msg]
      BY <3>1, <3>2 DEF OwnedInv, TypeOK
    <3>8. OneOwner'
      BY <2>1, <3>1, <3>3, <3>4, <3>5, <3>7 DEF OwnedInv, TypeOK, OneOwner, SameCopy
    <3> QED
      BY <3>6, <3>8 DEF OwnedInv
  <2> QED
    BY <2>2, <2>3
<1>8. ASSUME NEW w \in Workers, Start(w) PROVE OwnedInv'
  BY <1>8 DEF OwnedInv, TypeOK, OneOwner, Start, Busy, SameCopy
<1>9. CASE UNCHANGED vars
  BY <1>9 DEF OwnedInv, TypeOK, OneOwner, vars, Busy, SameCopy
<1> QED
  BY <1>1, <1>2, <1>3, <1>4, <1>5, <1>6, <1>7, <1>8, <1>9 DEF Next, Work

\* Each copy of a message waits or runs in one place, and there are no more of
\* them than the deaths between an effect and its acknowledgement explain.
THEOREM CopiesHaveOneOwner == Spec => []OneOwner
<1>1. OwnedInv => OneOwner
  BY DEF OwnedInv
<1> QED
  BY OwnedInit, OwnedStep, <1>1, PTL DEF Spec

\* A step keeps every published message settled or still to run: a task has had
\* its effect, or has published its retry, before its delivery is gone.
LEMMA StepLosesNothing ==
  ASSUME OwnedInv, [Next]_vars, NEW m \in Messages, Kept(m)
  PROVE  Kept(m)'
<1> USE BrokerAssumption DEF Kept, Busy
<1>0. held \in [Workers -> Delivery \cup {Nothing}]
  BY DEF OwnedInv, TypeOK
<1>1. ASSUME NEW n \in Messages, Publish(n) PROVE Kept(m)'
  BY <1>1 DEF Publish
<1>2. ASSUME NEW w \in Workers, Take(w) PROVE Kept(m)'
  <2>1. PICK d \in queue : held' = [held EXCEPT ![w] = d] /\ queue' = queue \ {d}
    BY <1>2 DEF Take
  <2>2. /\ held[w] = Nothing /\ w \notin over /\ d # Nothing
        /\ UNCHANGED <<over, done, discarded>>
    BY <1>2 DEF Take, OwnedInv, TypeOK
  <2>3. held'[w] = d /\ \A v \in Workers \ {w} : held'[v] = held[v]
    BY <1>0, <2>1
  <2> QED
    BY <2>1, <2>2, <2>3
<1>3. ASSUME NEW w \in Workers, Discard(w) PROVE Kept(m)'
  BY <1>0, <1>3 DEF Discard
<1>4. ASSUME NEW w \in Workers, Finish(w) PROVE Kept(m)'
  BY <1>0, <1>4 DEF Finish
<1>5. ASSUME NEW w \in Workers, Retry(w) PROVE Kept(m)'
  <2>1. /\ queue' = queue \cup {[held[w] EXCEPT !.tries = @ + 1]}
        /\ over' = over \cup {w}
        /\ held[w] \in Delivery /\ UNCHANGED <<held, done, discarded>>
    BY <1>0, <1>5 DEF Retry
  <2>2. [held[w] EXCEPT !.tries = @ + 1].msg = held[w].msg
    BY <2>1 DEF Delivery
  <2> QED
    BY <2>1, <2>2
<1>6. ASSUME NEW w \in Workers, Acknowledge(w) PROVE Kept(m)'
  BY <1>0, <1>6 DEF Acknowledge
<1>7. ASSUME NEW w \in Workers, Die(w) PROVE Kept(m)'
  <2>1. /\ held' = [held EXCEPT ![w] = Nothing]
        /\ over' = over \ {w} /\ queue \subseteq queue' /\ UNCHANGED <<done, discarded>>
        /\ w \notin over => held[w] = Nothing \/ held[w] \in queue'
    BY <1>7 DEF Die
  <2>2. \A v \in Workers \ {w} : held'[v] = held[v] /\ (v \in over <=> v \in over')
    BY <1>0, <2>1
  <2> QED
    BY <2>1, <2>2
<1>8. ASSUME NEW w \in Workers, Start(w) PROVE Kept(m)'
  BY <1>8 DEF Start
<1>9. CASE UNCHANGED vars
  BY <1>9 DEF vars
<1> QED
  BY <1>1, <1>2, <1>3, <1>4, <1>5, <1>6, <1>7, <1>8, <1>9 DEF Next, Work

\* A published message is never lost: neither a retry nor a death, at whatever
\* moment, leaves it without a settlement and without a delivery to come.
THEOREM MessagesKept == Spec => NothingLost
<1>1. OwnedInv /\ [Next]_vars => [\A m \in Messages : Kept(m) => Kept(m)']_vars
  BY StepLosesNothing
<1> QED
  BY OwnedInit, OwnedStep, <1>1, PTL DEF Spec, NothingLost
=============================================================================
