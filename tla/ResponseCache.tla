---------------------------- MODULE ResponseCache ----------------------------
(***************************************************************************)
(* The gateway's read-through cache of subject responses.  A request looks *)
(* its entry up; on a miss (or when Redis fails) it reads the database and *)
(* stores the response with the time to live of its endpoint.  Syncs       *)
(* commit new data in between and never touch the cache.                   *)
(*                                                                         *)
(* The data of a subject is the number of its committed changes; 0 is the  *)
(* subject that does not exist yet.  Nothing bounds the time between the   *)
(* read and the store in the code: FillTime is an assumption about the     *)
(* environment, and the properties say what depends on it.                 *)
(***************************************************************************)
EXTENDS Integers, Sequences

CONSTANTS
  Requests,    \* requests, each for one entry
  Entries,     \* cache keys in use
  Lists,       \* those of lists, which are never "not found"
  Ttl,         \* time to live, by entry
  FillTime,    \* longest time between the read of a request and its store
  MaxTime,     \* bound on the clock
  MaxChanges,  \* bound on commits
  MaxFaults    \* bound on failures of Redis

ASSUME CacheAssumption ==
  /\ Lists \subseteq Entries
  /\ Ttl \in [Entries -> Nat \ {0}]
  /\ FillTime \in Nat /\ MaxTime \in Nat /\ MaxChanges \in Nat /\ MaxFaults \in Nat

VARIABLES
  now,        \* the clock
  committed,  \* the moment of each change of the data
  cache,      \* cache[e]: the data and its expiry
  stage,      \* what a request does next, or how it ended
  entry,      \* the entry a request is for
  started,    \* the moment a request looked the entry up
  readAt,     \* the moment it read the database (0 when it has answered)
  answer,     \* the data it answers with
  faults      \* failures so far

request == <<stage, entry, started, readAt, answer>>
vars == <<now, committed, cache, stage, entry, started, readAt, answer, faults>>

Changes == Len(committed)

Init ==
  /\ now = 0 /\ committed = <<>>
  /\ cache = [e \in Entries |-> [data |-> 0, until |-> 0]]
  /\ stage = [r \in Requests |-> "idle"]
  /\ entry \in [Requests -> Entries]
  /\ started = [r \in Requests |-> 0]
  /\ readAt = [r \in Requests |-> 0]
  /\ answer = [r \in Requests |-> 0]
  /\ faults = 0

-----------------------------------------------------------------------------

\* A sync commits.
Commit ==
  /\ Changes < MaxChanges
  /\ committed' = Append(committed, now)
  /\ UNCHANGED <<now, cache, request, faults>>

Cached(e) == now < cache[e].until

Arrive(r) == stage[r] = "idle" /\ started' = [started EXCEPT ![r] = now]

\* cache.get finds the entry.
Hit(r) ==
  /\ Arrive(r) /\ Cached(entry[r])
  /\ answer' = [answer EXCEPT ![r] = cache[entry[r]].data]
  /\ stage' = [stage EXCEPT ![r] = "answered"]
  /\ UNCHANGED <<now, committed, cache, entry, readAt, faults>>

\* cache.get finds nothing.
Miss(r) ==
  /\ Arrive(r) /\ ~Cached(entry[r])
  /\ stage' = [stage EXCEPT ![r] = "read"]
  /\ UNCHANGED <<now, committed, cache, entry, readAt, answer, faults>>

\* cache.get fails, or holds invalid JSON: treated as a miss.
LookupFails(r) ==
  /\ Arrive(r) /\ faults < MaxFaults
  /\ faults' = faults + 1
  /\ stage' = [stage EXCEPT ![r] = "read"]
  /\ UNCHANGED <<now, committed, cache, entry, readAt, answer>>

\* Fault: the status 404 is cached like an answer.
ReadAndKeepMissing(r) ==
  /\ stage[r] = "read"
  /\ answer' = [answer EXCEPT ![r] = Changes]
  /\ readAt' = [readAt EXCEPT ![r] = now]
  /\ stage' = [stage EXCEPT ![r] = "store"]
  /\ UNCHANGED <<now, committed, cache, entry, started, faults>>

\* The repository reads; a subject that does not exist is answered with 404.
Read(r) ==
  /\ stage[r] = "read"
  /\ answer' = [answer EXCEPT ![r] = Changes]
  /\ readAt' = [readAt EXCEPT ![r] = now]
  /\ stage' = [stage EXCEPT ![r] =
                 IF Changes = 0 /\ entry[r] \notin Lists THEN "answered" ELSE "store"]
  /\ UNCHANGED <<now, committed, cache, entry, started, faults>>

Answered(r) ==
  /\ stage[r] = "store"
  /\ stage' = [stage EXCEPT ![r] = "answered"]
  /\ readAt' = [readAt EXCEPT ![r] = 0]
  /\ UNCHANGED <<now, committed, entry, started, answer>>

\* Fault: a live entry is kept, and lives on.
StoreKeeping(r) ==
  /\ Answered(r)
  /\ cache' = [cache EXCEPT ![entry[r]] =
                 [data |-> IF Cached(entry[r]) THEN @.data ELSE answer[r],
                  until |-> now + Ttl[entry[r]]]]
  /\ UNCHANGED faults

\* cache.set: the last one wins, whatever it read.
Store(r) ==
  /\ Answered(r)
  /\ cache' = [cache EXCEPT ![entry[r]] =
                 [data |-> answer[r], until |-> now + Ttl[entry[r]]]]
  /\ UNCHANGED faults

\* cache.set fails: the answer is given all the same.
StoreFails(r) ==
  /\ Answered(r)
  /\ faults < MaxFaults
  /\ faults' = faults + 1
  /\ UNCHANGED cache

\* Time passes; no request takes longer than FillTime to store what it read.
Tick ==
  /\ now < MaxTime
  /\ \A r \in Requests : stage[r] = "store" => now < readAt[r] + FillTime
  /\ now' = now + 1
  /\ UNCHANGED <<committed, cache, request, faults>>

Next ==
  \/ \E r \in Requests :
       \/ Hit(r) \/ Miss(r) \/ LookupFails(r)
       \/ Read(r) \/ Store(r) \/ StoreFails(r)
  \/ Commit \/ Tick

Spec == Init /\ [][Next]_vars

-----------------------------------------------------------------------------
(* Properties. *)

TypeOK ==
  /\ now \in Nat
  /\ committed \in Seq(Nat)
  /\ cache \in [Entries -> [data : Nat, until : Nat]]
  /\ stage \in [Requests -> {"idle", "read", "store", "answered"}]
  /\ entry \in [Requests -> Entries]
  /\ started \in [Requests -> Nat]
  /\ readAt \in [Requests -> Nat]
  /\ answer \in [Requests -> Nat]
  /\ faults \in 0 .. MaxFaults
  /\ \A e \in Entries : cache[e].until <= now + Ttl[e]

\* A request that starts a time to live plus the time of a fill after a change
\* answers with it: a fill that read before the change and stores after it
\* keeps the old data for that long, and not only for the time to live.
StalenessBounded ==
  \A r \in Requests : stage[r] = "answered" /\ answer[r] < Changes =>
    started[r] < committed[answer[r] + 1] + FillTime + Ttl[entry[r]]

\* "Not found" is never out of date: the subject did not exist when the request
\* looked it up.
NotFoundIsCurrent ==
  \A r \in Requests :
    stage[r] = "answered" /\ entry[r] \notin Lists /\ answer[r] = 0 /\ Changes > 0
    => committed[1] >= started[r]
=============================================================================
