------------------------- MODULE ResponseCacheProofs -------------------------
(***************************************************************************)
(* How old an answer can be, for every number of requests, entries and     *)
(* changes and all times.  The argument: an entry expires a time to live   *)
(* after it was stored, it was stored at most FillTime after it was read,  *)
(* and what is read was current then.                                      *)
(***************************************************************************)
EXTENDS ResponseCache, TLAPS

\* Changes happen in the past.
PastChanges == \A i \in 1 .. Changes : committed[i] <= now

\* What a request has read and not yet stored was current when it read.
ReadsCurrent ==
  \A r \in Requests : stage[r] = "store" =>
    /\ answer[r] <= Changes
    /\ started[r] <= readAt[r] /\ readAt[r] <= now /\ now <= readAt[r] + FillTime
    /\ answer[r] < Changes => readAt[r] <= committed[answer[r] + 1]

\* An entry ends at the latest a fill and a time to live after a change of the
\* data it holds.
EntriesExpire ==
  \A e \in Entries :
    /\ cache[e].data <= Changes
    /\ cache[e].data < Changes =>
         cache[e].until <= committed[cache[e].data + 1] + FillTime + Ttl[e]

\* Requests have begun, and answer with what has been committed.
AnswersPast ==
  \A r \in Requests :
    started[r] <= now /\ (stage[r] = "answered" => answer[r] <= Changes)

CacheInv ==
  TypeOK /\ PastChanges /\ ReadsCurrent /\ EntriesExpire /\ AnswersPast /\ StalenessBounded

-----------------------------------------------------------------------------

LEMMA CacheInit == Init => CacheInv
<1> SUFFICES ASSUME Init PROVE CacheInv
  OBVIOUS
<1>1. TypeOK  BY CacheAssumption DEF Init, TypeOK
<1>2. Changes = 0  BY DEF Init, Changes
<1>3. PastChanges  BY <1>2 DEF PastChanges
<1>4. ReadsCurrent /\ EntriesExpire /\ AnswersPast /\ StalenessBounded
  BY <1>2 DEF Init, ReadsCurrent, EntriesExpire, AnswersPast, StalenessBounded
<1> QED  BY <1>1, <1>3, <1>4 DEF CacheInv

\* A change is appended: what was current ends now.
LEMMA CommitKeeps == CacheInv /\ Commit => CacheInv'
<1> SUFFICES ASSUME CacheInv, Commit PROVE CacheInv'
  OBVIOUS
<1> USE DEF CacheInv
<1>1. /\ Changes \in Nat /\ Changes' = Changes + 1
      /\ \A i \in 1 .. Changes : committed'[i] = committed[i]
      /\ committed'[Changes + 1] = now /\ committed' \in Seq(Nat)
      /\ now \in Nat /\ \A i \in 1 .. Changes : committed[i] \in Nat
  BY DEF Commit, Changes, TypeOK
<1>2. UNCHANGED <<now, cache, stage, entry, started, readAt, answer, faults>>
  BY DEF Commit, request
<1>3. TypeOK'  BY <1>1, <1>2 DEF TypeOK
<1>4. PastChanges'  BY <1>1, <1>2 DEF PastChanges
<1>5. \A r \in Requests :
        /\ answer[r] \in Nat /\ readAt[r] \in Nat /\ started[r] \in Nat /\ entry[r] \in Entries
  BY DEF TypeOK
<1>6. FillTime \in Nat /\ \A e \in Entries : Ttl[e] \in Nat /\ Ttl[e] > 0
  BY CacheAssumption
<1>7. ReadsCurrent'
  <2> SUFFICES ASSUME NEW r \in Requests, stage'[r] = "store"
               PROVE  /\ answer'[r] <= Changes'
                      /\ started'[r] <= readAt'[r] /\ readAt'[r] <= now'
                      /\ now' <= readAt'[r] + FillTime
                      /\ answer'[r] < Changes' => readAt'[r] <= committed'[answer'[r] + 1]
    BY DEF ReadsCurrent
  <2>1. /\ answer[r] <= Changes /\ started[r] <= readAt[r] /\ readAt[r] <= now
        /\ now <= readAt[r] + FillTime
        /\ answer[r] < Changes => readAt[r] <= committed[answer[r] + 1]
    BY <1>2 DEF ReadsCurrent
  <2>2. answer'[r] = answer[r] /\ started'[r] = started[r] /\ readAt'[r] = readAt[r] /\ now' = now
    BY <1>2
  <2>3. CASE answer[r] < Changes
    <3>1. answer[r] + 1 \in 1 .. Changes  BY <1>1, <1>5, <2>3
    <3>2. committed'[answer[r] + 1] = committed[answer[r] + 1]  BY <1>1, <3>1
    <3> QED  BY <1>1, <1>5, <2>1, <2>2, <2>3, <3>2
  <2>4. CASE answer[r] = Changes
    <3>1. committed'[answer[r] + 1] = now  BY <1>1, <2>4
    <3> QED  BY <1>1, <1>5, <2>1, <2>2, <2>4, <3>1
  <2>5. answer[r] \in Nat /\ Changes \in Nat  BY <1>1, <1>5
  <2> QED  BY <2>1, <2>3, <2>4, <2>5
<1>8. EntriesExpire'
  <2> SUFFICES ASSUME NEW e \in Entries
               PROVE  /\ cache'[e].data <= Changes'
                      /\ cache'[e].data < Changes' =>
                           cache'[e].until <= committed'[cache'[e].data + 1] + FillTime + Ttl[e]
    BY DEF EntriesExpire
  <2>1. /\ cache[e].data \in Nat /\ cache[e].until \in Nat /\ cache[e].until <= now + Ttl[e]
        /\ cache[e].data <= Changes
        /\ cache[e].data < Changes =>
             cache[e].until <= committed[cache[e].data + 1] + FillTime + Ttl[e]
    BY DEF TypeOK, EntriesExpire
  <2>2. cache' = cache /\ Ttl[e] \in Nat /\ FillTime \in Nat  BY <1>2, <1>6
  <2>3. CASE cache[e].data < Changes
    <3>1. cache[e].data + 1 \in 1 .. Changes  BY <1>1, <2>1, <2>3
    <3>2. committed'[cache[e].data + 1] = committed[cache[e].data + 1]  BY <1>1, <3>1
    <3> QED  BY <1>1, <2>1, <2>2, <2>3, <3>2
  <2>4. CASE cache[e].data = Changes
    <3>1. committed'[cache[e].data + 1] = now  BY <1>1, <2>4
    <3>2. cache'[e].until <= committed'[cache'[e].data + 1] + FillTime + Ttl[e]
      <4>1. now \in Nat /\ cache[e].until \in Nat /\ cache[e].until <= now + Ttl[e]
        BY <1>1, <2>1
      <4>2. Ttl[e] \in Nat /\ FillTime \in Nat  BY <2>2
      <4>3. cache[e].until <= now + FillTime + Ttl[e]  BY <4>1, <4>2
      <4> QED  BY <2>2, <3>1, <4>3
    <3> QED  BY <1>1, <2>1, <2>2, <3>2
  <2>5. Changes \in Nat  BY <1>1
  <2> QED  BY <2>1, <2>3, <2>4, <2>5
<1>9. AnswersPast'  BY <1>1, <1>2, <1>5 DEF AnswersPast
<1>10. StalenessBounded'
  <2> SUFFICES ASSUME NEW r \in Requests, stage'[r] = "answered", answer'[r] < Changes'
               PROVE  started'[r] < committed'[answer'[r] + 1] + FillTime + Ttl[entry'[r]]
    BY DEF StalenessBounded
  <2>1. /\ answer[r] <= Changes /\ started[r] <= now
        /\ answer[r] < Changes =>
             started[r] < committed[answer[r] + 1] + FillTime + Ttl[entry[r]]
    BY <1>2 DEF AnswersPast, StalenessBounded
  <2>2. CASE answer[r] < Changes
    <3>1. answer[r] + 1 \in 1 .. Changes  BY <1>1, <1>5, <2>2
    <3>2. committed'[answer[r] + 1] = committed[answer[r] + 1]  BY <1>1, <3>1
    <3> QED  BY <1>2, <2>1, <2>2, <3>2
  <2>3. CASE answer[r] = Changes
    <3>1. committed'[answer'[r] + 1] = now /\ started'[r] = started[r] /\ entry'[r] = entry[r]
      BY <1>1, <1>2, <2>3
    <3>2. FillTime \in Nat /\ Ttl[entry[r]] \in Nat /\ Ttl[entry[r]] > 0 /\ started[r] \in Nat
      BY <1>5, <1>6
    <3> QED  BY <1>1, <2>1, <3>1, <3>2
  <2>4. answer[r] \in Nat /\ Changes \in Nat  BY <1>1, <1>5
  <2> QED  BY <2>1, <2>2, <2>3, <2>4
<1> QED  BY <1>3, <1>4, <1>7, <1>8, <1>9, <1>10

\* A step of one request that commits nothing: what has to hold of it, and of
\* the entry it may have stored, when the others stay as they are.
LEMMA RequestKeeps ==
  ASSUME CacheInv, TypeOK', UNCHANGED <<now, committed, entry>>, NEW r \in Requests,
         \A q \in Requests \ {r} : /\ stage'[q] = stage[q] /\ started'[q] = started[q]
                                   /\ readAt'[q] = readAt[q] /\ answer'[q] = answer[q],
         \A e \in Entries : e # entry[r] => cache'[e] = cache[e],
         LET e == entry[r] IN
           /\ cache'[e].data <= Changes
           /\ cache'[e].data < Changes =>
                cache'[e].until <= committed[cache'[e].data + 1] + FillTime + Ttl[e],
         started'[r] <= now,
         stage'[r] = "store" =>
           /\ answer'[r] <= Changes
           /\ started'[r] <= readAt'[r] /\ readAt'[r] <= now /\ now <= readAt'[r] + FillTime
           /\ answer'[r] < Changes => readAt'[r] <= committed[answer'[r] + 1],
         stage'[r] = "answered" =>
           /\ answer'[r] <= Changes
           /\ answer'[r] < Changes =>
                started'[r] < committed[answer'[r] + 1] + FillTime + Ttl[entry[r]]
  PROVE  CacheInv'
<1> USE DEF CacheInv
<1>1. Changes' = Changes /\ now' = now /\ committed' = committed /\ entry' = entry
  BY DEF Changes
<1>2. PastChanges'  BY <1>1 DEF PastChanges
<1>3. ReadsCurrent'
  <2> SUFFICES ASSUME NEW q \in Requests, stage'[q] = "store"
               PROVE  /\ answer'[q] <= Changes
                      /\ started'[q] <= readAt'[q] /\ readAt'[q] <= now
                      /\ now <= readAt'[q] + FillTime
                      /\ answer'[q] < Changes => readAt'[q] <= committed[answer'[q] + 1]
    BY <1>1 DEF ReadsCurrent
  <2>1. CASE q = r  BY <2>1
  <2>2. CASE q # r  BY <2>2 DEF ReadsCurrent
  <2> QED  BY <2>1, <2>2
<1>4. EntriesExpire'
  <2> SUFFICES ASSUME NEW e \in Entries
               PROVE  /\ cache'[e].data <= Changes
                      /\ cache'[e].data < Changes =>
                           cache'[e].until <= committed[cache'[e].data + 1] + FillTime + Ttl[e]
    BY <1>1 DEF EntriesExpire
  <2>1. CASE e = entry[r]  BY <2>1
  <2>2. CASE e # entry[r]  BY <2>2 DEF EntriesExpire
  <2> QED  BY <2>1, <2>2
<1>5. AnswersPast'
  <2> SUFFICES ASSUME NEW q \in Requests
               PROVE  started'[q] <= now /\ (stage'[q] = "answered" => answer'[q] <= Changes)
    BY <1>1 DEF AnswersPast
  <2>1. CASE q = r  BY <2>1
  <2>2. CASE q # r  BY <2>2 DEF AnswersPast
  <2> QED  BY <2>1, <2>2
<1>6. StalenessBounded'
  <2> SUFFICES ASSUME NEW q \in Requests, stage'[q] = "answered", answer'[q] < Changes
               PROVE  started'[q] < committed[answer'[q] + 1] + FillTime + Ttl[entry[q]]
    BY <1>1 DEF StalenessBounded
  <2>1. CASE q = r  BY <2>1
  <2>2. CASE q # r  BY <2>2 DEF StalenessBounded
  <2> QED  BY <2>1, <2>2
<1> QED  BY <1>2, <1>3, <1>4, <1>5, <1>6

LEMMA HitKeeps ==
  ASSUME CacheInv, NEW r \in Requests, Hit(r)
  PROVE  CacheInv'
<1> USE DEF CacheInv
<1> DEFINE e == entry[r]
<1>1. /\ e \in Entries /\ now < cache[e].until /\ now \in Nat
      /\ cache[e].data \in Nat /\ cache[e].until \in Nat
      /\ FillTime \in Nat /\ Ttl[e] \in Nat
  BY CacheAssumption DEF Hit, Cached, TypeOK
<1>2. /\ stage'[r] = "answered" /\ started'[r] = now /\ answer'[r] = cache[e].data
      /\ UNCHANGED <<now, committed, entry, cache, readAt, faults>>
      /\ \A q \in Requests \ {r} : /\ stage'[q] = stage[q] /\ started'[q] = started[q]
                                   /\ readAt'[q] = readAt[q] /\ answer'[q] = answer[q]
      /\ stage' \in [Requests -> {"idle", "read", "store", "answered"}]
      /\ started' \in [Requests -> Nat] /\ answer' \in [Requests -> Nat]
  BY <1>1 DEF Hit, Arrive, TypeOK
<1>3. TypeOK'  BY <1>2 DEF TypeOK
<1>4. /\ cache[e].data <= Changes
      /\ cache[e].data < Changes =>
           cache[e].until <= committed[cache[e].data + 1] + FillTime + Ttl[e]
  BY <1>1 DEF EntriesExpire
<1>5. cache[e].data < Changes => now < committed[cache[e].data + 1] + FillTime + Ttl[e]
  <2> SUFFICES ASSUME cache[e].data < Changes
               PROVE  now < committed[cache[e].data + 1] + FillTime + Ttl[e]
    OBVIOUS
  <2>1. committed[cache[e].data + 1] \in Nat  BY <1>1 DEF TypeOK, Changes
  <2> QED  BY <1>1, <1>4, <2>1
<1> HIDE DEF CacheInv
<1> QED  BY <1>1, <1>2, <1>3, <1>4, <1>5, RequestKeeps

\* A request that goes on to read the database.
LEMMA ToReadKeeps ==
  ASSUME CacheInv, NEW r \in Requests, Arrive(r),
         stage' = [stage EXCEPT ![r] = "read"], faults' \in 0 .. MaxFaults,
         UNCHANGED <<now, committed, cache, entry, readAt, answer>>
  PROVE  CacheInv'
<1> USE DEF CacheInv
<1>1. /\ stage'[r] = "read" /\ started'[r] = now /\ now \in Nat
      /\ \A q \in Requests \ {r} : /\ stage'[q] = stage[q] /\ started'[q] = started[q]
                                   /\ readAt'[q] = readAt[q] /\ answer'[q] = answer[q]
      /\ stage' \in [Requests -> {"idle", "read", "store", "answered"}]
      /\ started' \in [Requests -> Nat] /\ entry[r] \in Entries
      /\ \A e \in Entries : cache'[e] = cache[e]
      /\ started'[r] <= now /\ stage'[r] # "store" /\ stage'[r] # "answered"
  BY DEF Arrive, TypeOK
<1>2. TypeOK'  BY <1>1 DEF TypeOK
<1>3. LET e == entry[r] IN
        /\ cache'[e].data <= Changes
        /\ cache'[e].data < Changes =>
             cache'[e].until <= committed[cache'[e].data + 1] + FillTime + Ttl[e]
  BY <1>1 DEF EntriesExpire
<1> HIDE DEF CacheInv
<1> QED  BY <1>1, <1>2, <1>3, RequestKeeps

LEMMA ReadKeeps ==
  ASSUME CacheInv, NEW r \in Requests, Read(r)
  PROVE  CacheInv'
<1> USE DEF CacheInv
<1>1. /\ stage'[r] \in {"store", "answered"} /\ answer'[r] = Changes /\ readAt'[r] = now
      /\ started' = started /\ started[r] <= now /\ now \in Nat /\ FillTime \in Nat
      /\ UNCHANGED <<now, committed, entry, cache, faults>>
      /\ \A q \in Requests \ {r} : /\ stage'[q] = stage[q] /\ started'[q] = started[q]
                                   /\ readAt'[q] = readAt[q] /\ answer'[q] = answer[q]
      /\ stage' \in [Requests -> {"idle", "read", "store", "answered"}]
      /\ readAt' \in [Requests -> Nat] /\ answer' \in [Requests -> Nat]
      /\ entry[r] \in Entries /\ started[r] \in Nat /\ Changes \in Nat
  BY CacheAssumption DEF Read, TypeOK, AnswersPast, Changes
<1>2. TypeOK'  BY <1>1 DEF TypeOK
<1>3. LET e == entry[r] IN
        /\ cache'[e].data <= Changes
        /\ cache'[e].data < Changes =>
             cache'[e].until <= committed[cache'[e].data + 1] + FillTime + Ttl[e]
  BY <1>1 DEF EntriesExpire
<1> HIDE DEF CacheInv
<1> QED  BY <1>1, <1>2, <1>3, RequestKeeps

\* The answer is stored, or the store fails.
LEMMA AnsweredKeeps ==
  ASSUME CacheInv, NEW r \in Requests, Answered(r), faults' \in 0 .. MaxFaults,
         \/ UNCHANGED cache
         \/ cache' = [cache EXCEPT ![entry[r]] =
                         [data |-> answer[r], until |-> now + Ttl[entry[r]]]]
  PROVE  CacheInv'
<1> USE DEF CacheInv
<1> DEFINE e == entry[r]
<1>1. /\ stage'[r] = "answered" /\ stage[r] = "store"
      /\ UNCHANGED <<now, committed, entry, started, answer>>
      /\ \A q \in Requests \ {r} : /\ stage'[q] = stage[q] /\ started'[q] = started[q]
                                   /\ readAt'[q] = readAt[q] /\ answer'[q] = answer[q]
      /\ stage' \in [Requests -> {"idle", "read", "store", "answered"}]
      /\ readAt' \in [Requests -> Nat]
  BY DEF Answered, TypeOK
<1>2. /\ e \in Entries /\ now \in Nat /\ answer[r] \in Nat /\ readAt[r] \in Nat
      /\ started[r] \in Nat /\ FillTime \in Nat /\ Ttl[e] \in Nat /\ Ttl[e] > 0
      /\ Changes \in Nat
  BY CacheAssumption DEF TypeOK, Changes
<1>3. /\ answer[r] <= Changes
      /\ started[r] <= readAt[r] /\ readAt[r] <= now /\ now <= readAt[r] + FillTime
      /\ answer[r] < Changes => readAt[r] <= committed[answer[r] + 1]
  BY <1>1 DEF ReadsCurrent
<1>4. answer[r] < Changes => committed[answer[r] + 1] \in Nat
  <2>1. committed \in Seq(Nat) /\ Changes = Len(committed)  BY DEF TypeOK, Changes
  <2>2. \A n \in 1 .. Len(committed) : committed[n] \in Nat  BY <2>1
  <2> QED  BY <1>2, <2>1, <2>2
<1>5. /\ cache' \in [Entries -> [data : Nat, until : Nat]]
      /\ \A d \in Entries : cache'[d].until <= now + Ttl[d]
      /\ \A d \in Entries : d # e => cache'[d] = cache[d]
      /\ \/ cache'[e] = cache[e]
         \/ cache'[e].data = answer[r] /\ cache'[e].until = now + Ttl[e]
  <2>1. CASE UNCHANGED cache  BY <2>1 DEF TypeOK
  <2>2. CASE cache' = [cache EXCEPT ![e] = [data |-> answer[r], until |-> now + Ttl[e]]]
    <3>1. cache'[e] = [data |-> answer[r], until |-> now + Ttl[e]]
      BY <1>2, <2>2 DEF TypeOK
    <3>2. \A d \in Entries : d # e => cache'[d] = cache[d]
      BY <2>2 DEF TypeOK
    <3>3. [data |-> answer[r], until |-> now + Ttl[e]] \in [data : Nat, until : Nat]
      BY <1>2
    <3>4. cache' \in [Entries -> [data : Nat, until : Nat]]
      BY <2>2, <3>3 DEF TypeOK
    <3>5. \A d \in Entries : cache'[d].until <= now + Ttl[d]
      <4>1. \A d \in Entries : cache[d].until <= now + Ttl[d]  BY DEF TypeOK
      <4>2. cache'[e].until = now + Ttl[e]  BY <3>1
      <4>3. now + Ttl[e] \in Nat  BY <1>2
      <4> SUFFICES ASSUME NEW d \in Entries PROVE cache'[d].until <= now + Ttl[d]
        OBVIOUS
      <4>4. CASE d = e  BY <4>2, <4>3, <4>4
      <4>5. CASE d # e  BY <3>2, <4>1, <4>5
      <4> QED  BY <4>4, <4>5
    <3> QED  BY <3>1, <3>2, <3>4, <3>5
  <2> QED  BY <2>1, <2>2
<1>6. TypeOK'  BY <1>1, <1>5 DEF TypeOK
<1>7. /\ cache'[e].data <= Changes
      /\ cache'[e].data < Changes =>
           cache'[e].until <= committed[cache'[e].data + 1] + FillTime + Ttl[e]
  <2>1. CASE cache'[e] = cache[e]  BY <1>2, <2>1 DEF EntriesExpire
  <2>2. CASE cache'[e].data = answer[r] /\ cache'[e].until = now + Ttl[e]
    BY <1>2, <1>3, <1>4, <2>2
  <2> QED  BY <1>5, <2>1, <2>2
<1>8. answer[r] < Changes => started[r] < committed[answer[r] + 1] + FillTime + Ttl[e]
  BY <1>2, <1>3, <1>4
<1>9. started[r] <= now  BY <1>2, <1>3
<1> HIDE DEF CacheInv
<1> QED  BY <1>1, <1>3, <1>5, <1>6, <1>7, <1>8, <1>9, RequestKeeps

LEMMA TickKeeps == CacheInv /\ Tick => CacheInv'
<1> SUFFICES ASSUME CacheInv, Tick PROVE CacheInv'
  OBVIOUS
<1> USE DEF CacheInv
<1>1. /\ now' = now + 1 /\ now \in Nat
      /\ UNCHANGED <<committed, cache, stage, entry, started, readAt, answer, faults>>
      /\ Changes' = Changes /\ Changes \in Nat
  BY DEF Tick, TypeOK, request, Changes
<1>2. \A r \in Requests : started[r] \in Nat /\ readAt[r] \in Nat
  BY DEF TypeOK
<1>3. TypeOK'
  <2>1. \A e \in Entries : cache[e].until <= now + 1 + Ttl[e]
    <3> SUFFICES ASSUME NEW e \in Entries PROVE cache[e].until <= now + 1 + Ttl[e]
      OBVIOUS
    <3>1. cache[e].until \in Nat /\ Ttl[e] \in Nat /\ cache[e].until <= now + Ttl[e]
      BY CacheAssumption DEF TypeOK
    <3> QED  BY <1>1, <3>1
  <2> QED  BY <1>1, <2>1 DEF TypeOK
<1>4. PastChanges'
  <2>1. \A i \in 1 .. Changes : committed[i] \in Nat /\ committed[i] <= now
    BY DEF PastChanges, TypeOK, Changes
  <2> QED  BY <1>1, <2>1 DEF PastChanges
<1>5. ReadsCurrent'
  <2> SUFFICES ASSUME NEW r \in Requests, stage[r] = "store"
               PROVE  /\ answer[r] <= Changes
                      /\ started[r] <= readAt[r] /\ readAt[r] <= now + 1
                      /\ now + 1 <= readAt[r] + FillTime
                      /\ answer[r] < Changes => readAt[r] <= committed[answer[r] + 1]
    BY <1>1 DEF ReadsCurrent
  <2>1. now < readAt[r] + FillTime /\ FillTime \in Nat  BY CacheAssumption DEF Tick
  <2> QED  BY <1>1, <1>2, <2>1 DEF ReadsCurrent
<1>6. EntriesExpire'  BY <1>1 DEF EntriesExpire
<1>7. AnswersPast'  BY <1>1, <1>2 DEF AnswersPast
<1>8. StalenessBounded'  BY <1>1 DEF StalenessBounded
<1> QED  BY <1>3, <1>4, <1>5, <1>6, <1>7, <1>8

LEMMA CacheStep == CacheInv /\ [Next]_vars => CacheInv'
<1> SUFFICES ASSUME CacheInv, [Next]_vars PROVE CacheInv'
  OBVIOUS
<1>1. faults \in 0 .. MaxFaults /\ MaxFaults \in Nat
  BY CacheAssumption DEF CacheInv, TypeOK
<1>2. ASSUME NEW r \in Requests, Hit(r) PROVE CacheInv'
  BY <1>2, HitKeeps
<1>3. ASSUME NEW r \in Requests, Miss(r) PROVE CacheInv'
  BY <1>1, <1>3, ToReadKeeps DEF Miss
<1>4. ASSUME NEW r \in Requests, LookupFails(r) PROVE CacheInv'
  <2>1. faults' \in 0 .. MaxFaults  BY <1>1, <1>4 DEF LookupFails
  <2> QED  BY <1>4, <2>1, ToReadKeeps DEF LookupFails
<1>5. ASSUME NEW r \in Requests, Read(r) PROVE CacheInv'
  BY <1>5, ReadKeeps
<1>6. ASSUME NEW r \in Requests, Store(r) PROVE CacheInv'
  BY <1>1, <1>6, AnsweredKeeps DEF Store
<1>7. ASSUME NEW r \in Requests, StoreFails(r) PROVE CacheInv'
  BY <1>1, <1>7, AnsweredKeeps DEF StoreFails
<1>8. CASE Commit  BY <1>8, CommitKeeps
<1>9. CASE Tick  BY <1>9, TickKeeps
<1>10. CASE UNCHANGED vars
  <2> USE DEF CacheInv
  <2>1. UNCHANGED <<now, committed, cache, stage, entry, started, readAt, answer, faults>>
    BY <1>10 DEF vars
  <2>2. Changes' = Changes  BY <2>1 DEF Changes
  <2>3. TypeOK'  BY <2>1 DEF TypeOK
  <2>4. PastChanges' /\ AnswersPast'  BY <2>1, <2>2 DEF PastChanges, AnswersPast
  <2>5. ReadsCurrent'  BY <2>1, <2>2 DEF ReadsCurrent
  <2>6. EntriesExpire'  BY <2>1, <2>2 DEF EntriesExpire
  <2>7. StalenessBounded'  BY <2>1, <2>2 DEF StalenessBounded
  <2> QED  BY <2>3, <2>4, <2>5, <2>6, <2>7
<1> QED
  BY <1>2, <1>3, <1>4, <1>5, <1>6, <1>7, <1>8, <1>9, <1>10 DEF Next

\* The inductive invariant: what is read, stored and answered was current not
\* too long ago.
THEOREM CacheInvariant == Spec => []CacheInv
<1> QED  BY CacheInit, CacheStep, PTL DEF Spec

\* The read-through of the subject routes: an answer misses a change for at most
\* the time to live of its entry and the time of one fill.
THEOREM StalenessIsBounded == Spec => []StalenessBounded
<1>1. CacheInv => StalenessBounded  BY DEF CacheInv
<1> QED  BY <1>1, CacheInvariant, PTL

-----------------------------------------------------------------------------
(* What was not found. *)

\* Nothing is stored about a subject that does not exist.
MissingUncached ==
  /\ \A e \in Entries \ Lists : cache[e].data = 0 => cache[e].until = 0
  /\ \A r \in Requests : stage[r] = "store" /\ entry[r] \notin Lists => answer[r] > 0

MissingInv == MissingUncached /\ NotFoundIsCurrent

LEMMA MissingInit == Init => MissingInv
  BY DEF Init, MissingInv, MissingUncached, NotFoundIsCurrent

\* Requests other than r, and what was answered with nothing committed since.
LEMMA MissingKept ==
  ASSUME CacheInv, MissingInv, UNCHANGED <<committed, entry>>,
         NEW r \in Requests,
         \A q \in Requests \ {r} :
           stage'[q] = stage[q] /\ answer'[q] = answer[q] /\ started'[q] = started[q],
         stage'[r] = "answered" /\ entry[r] \notin Lists /\ answer'[r] = 0 => Changes = 0
  PROVE  NotFoundIsCurrent'
<1>1. Changes' = Changes
  BY DEF Changes
<1>2. QED
  BY <1>1 DEF MissingInv, NotFoundIsCurrent

LEMMA MissingStep == CacheInv /\ MissingInv /\ [Next]_vars => MissingInv'
<1> SUFFICES ASSUME CacheInv, MissingInv, [Next]_vars PROVE MissingInv'
  OBVIOUS
<1>0. /\ now \in Nat /\ stage \in [Requests -> {"idle", "read", "store", "answered"}]
      /\ answer \in [Requests -> Nat] /\ started \in [Requests -> Nat]
      /\ cache \in [Entries -> [data : Nat, until : Nat]] /\ entry \in [Requests -> Entries]
      /\ committed \in Seq(Nat) /\ Changes \in Nat
  BY DEF CacheInv, TypeOK, Changes
<1>1. ASSUME NEW r \in Requests, Hit(r) PROVE MissingInv'
  <2>1. entry[r] \notin Lists => cache[entry[r]].data # 0
    BY <1>0, <1>1 DEF Hit, Cached, MissingInv, MissingUncached
  <2>2. /\ answer'[r] = cache[entry[r]].data /\ UNCHANGED <<committed, entry, cache>>
        /\ stage'[r] = "answered"
        /\ \A q \in Requests \ {r} :
             stage'[q] = stage[q] /\ answer'[q] = answer[q] /\ started'[q] = started[q]
    BY <1>0, <1>1 DEF Hit, Arrive
  <2>3. NotFoundIsCurrent'
    BY <2>1, <2>2, MissingKept
  <2>4. MissingUncached'
    BY <2>2 DEF MissingInv, MissingUncached
  <2>5. QED
    BY <2>3, <2>4 DEF MissingInv
<1>2. ASSUME NEW r \in Requests, Miss(r) \/ LookupFails(r) PROVE MissingInv'
  <2>1. /\ stage'[r] = "read" /\ UNCHANGED <<committed, entry, cache, answer>>
        /\ \A q \in Requests \ {r} : stage'[q] = stage[q] /\ started'[q] = started[q]
    BY <1>0, <1>2 DEF Miss, LookupFails, Arrive
  <2>2. NotFoundIsCurrent'
    BY <2>1, MissingKept
  <2>3. MissingUncached'
    BY <2>1 DEF MissingInv, MissingUncached
  <2>4. QED
    BY <2>2, <2>3 DEF MissingInv
<1>3. ASSUME NEW r \in Requests, Read(r) PROVE MissingInv'
  <2>1. /\ answer'[r] = Changes /\ UNCHANGED <<committed, entry, cache>>
        /\ stage'[r] = IF Changes = 0 /\ entry[r] \notin Lists THEN "answered" ELSE "store"
        /\ \A q \in Requests \ {r} :
             stage'[q] = stage[q] /\ answer'[q] = answer[q] /\ started'[q] = started[q]
    BY <1>0, <1>3 DEF Read
  <2>2. NotFoundIsCurrent'
    BY <2>1, MissingKept
  <2>3. MissingUncached'
    <3>1. stage'[r] = "store" /\ entry[r] \notin Lists => answer'[r] > 0
      BY <1>0, <2>1
    <3>2. ASSUME NEW q \in Requests, stage'[q] = "store", entry[q] \notin Lists
          PROVE  answer'[q] > 0
      BY <2>1, <3>1, <3>2 DEF MissingInv, MissingUncached
    <3>3. QED
      BY <2>1, <3>2 DEF MissingInv, MissingUncached
  <2>4. QED
    BY <2>2, <2>3 DEF MissingInv
<1>4. ASSUME NEW r \in Requests, Store(r) \/ StoreFails(r) PROVE MissingInv'
  <2>1. /\ stage[r] = "store" /\ stage'[r] = "answered"
        /\ UNCHANGED <<committed, entry, answer, started>>
        /\ \A q \in Requests \ {r} : stage'[q] = stage[q]
    <3>1. Answered(r)
      BY <1>4 DEF Store, StoreFails
    <3>2. QED
      BY <1>0, <3>1 DEF Answered
  <2>2. entry[r] \notin Lists => answer[r] > 0
    BY <2>1 DEF MissingInv, MissingUncached
  <2>3. NotFoundIsCurrent'
    <3>1. ~(entry[r] \notin Lists /\ answer'[r] = 0)
      BY <2>1, <2>2
    <3>2. \A q \in Requests \ {r} : answer'[q] = answer[q] /\ started'[q] = started[q]
      BY <2>1
    <3>3. QED
      BY <2>1, <3>1, <3>2, MissingKept
  <2>4. \A e \in Entries \ Lists : cache'[e].data = 0 => cache'[e].until = 0
    <3>1. CASE Store(r)
      <4>1. cache' = [cache EXCEPT ![entry[r]] =
                        [data |-> answer[r], until |-> now + Ttl[entry[r]]]]
        BY <3>1 DEF Store
      <4>2. entry[r] \notin Lists => answer[r] # 0
        BY <1>0, <2>2
      <4>3. QED
        BY <1>0, <4>1, <4>2 DEF MissingInv, MissingUncached
    <3>2. CASE StoreFails(r)
      BY <3>2 DEF StoreFails, MissingInv, MissingUncached
    <3>3. QED
      BY <1>4, <3>1, <3>2
  <2>5. MissingUncached'
    BY <2>1, <2>4 DEF MissingInv, MissingUncached
  <2>6. QED
    BY <2>3, <2>5 DEF MissingInv
<1>5. CASE Commit
  <2>1. /\ UNCHANGED <<cache, stage, entry, started, answer>>
        /\ Changes = 0 => committed'[1] = now
        /\ Changes > 0 => committed'[1] = committed[1]
    <3>1. UNCHANGED <<cache, stage, entry, started, answer>> /\ committed' = Append(committed, now)
      BY <1>5 DEF Commit, request
    <3>2. /\ Len(committed) = 0 => Append(committed, now)[1] = now
          /\ Len(committed) > 0 => Append(committed, now)[1] = committed[1]
      BY <1>0
    <3>3. QED
      BY <3>1, <3>2 DEF Changes
  <2>2. NotFoundIsCurrent'
    <3> SUFFICES ASSUME NEW r \in Requests, stage[r] = "answered", entry[r] \notin Lists,
                        answer[r] = 0
                 PROVE  committed'[1] >= started[r]
      BY <2>1 DEF NotFoundIsCurrent
    <3>1. started[r] <= now
      BY DEF CacheInv, AnswersPast
    <3>2. QED
      BY <1>0, <2>1, <3>1 DEF MissingInv, NotFoundIsCurrent
  <2>3. MissingUncached'
    BY <2>1 DEF MissingInv, MissingUncached
  <2>4. QED
    BY <2>2, <2>3 DEF MissingInv
<1>6. CASE Tick \/ UNCHANGED vars
  <2>1. UNCHANGED <<committed, cache, stage, entry, started, answer>>
    BY <1>6 DEF Tick, request, vars
  <2>2. QED
    BY <2>1 DEF MissingInv, MissingUncached, NotFoundIsCurrent, Changes
<1>7. QED
  BY <1>1, <1>2, <1>3, <1>4, <1>5, <1>6 DEF Next

\* A 404 is not cached and a subject is never taken out of the table: it is not
\* reported as missing to a request that began after its first commit.
THEOREM MissingIsCurrent == Spec => []NotFoundIsCurrent
<1>1. MissingInv => NotFoundIsCurrent
  BY DEF MissingInv
<1>2. QED
  BY <1>1, MissingInit, MissingStep, CacheInvariant, PTL DEF Spec

\* The entries, the requests and the clock have their types.
THEOREM CacheTypeCorrect == Spec => []TypeOK
<1>1. CacheInv => TypeOK
  BY DEF CacheInv
<1>2. QED
  BY <1>1, CacheInvariant, PTL
=============================================================================
