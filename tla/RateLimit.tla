------------------------------ MODULE RateLimit ------------------------------
(***************************************************************************)
(* The gateway's fixed-window rate limits.  A request with an API key      *)
(* increments the minute counter and then the day counter of its key, each *)
(* in a Redis transaction of its own (INCR, EXPIRE NX, TTL), and is judged *)
(* after both; a login increments one counter of its IP address.  Requests *)
(* run concurrently.  Redis may fail before or after it applied a          *)
(* transaction: the API then lets the request in, the login ends with an   *)
(* error.                                                                  *)
(*                                                                         *)
(* Time is counted in ticks, TicksPerSecond of them to a second, because   *)
(* TTL answers in rounded seconds.                                         *)
(***************************************************************************)
EXTENDS Integers, FiniteSets

CONSTANTS
  Requests,        \* requests of any client
  Keys,            \* API keys
  Ips,             \* addresses logins come from
  Length,          \* ticks of a window, by window
  Limit,           \* limit of a client, by client and window
  TicksPerSecond,
  MaxTime,         \* bound on the clock, in ticks
  MaxFaults        \* bound on failures of Redis

Clients == Keys \cup Ips
Windows == {"minute", "day"}

ASSUME RateLimitAssumption ==
  /\ Keys \cap Ips = {}
  /\ Length \in [Windows -> Nat \ {0}]
  /\ Limit \in [Clients -> [Windows -> Nat]]
  /\ TicksPerSecond \in Nat \ {0}
  /\ MaxTime \in Nat /\ MaxFaults \in Nat

VARIABLES
  now,       \* the clock of Redis
  counter,   \* counter[c][w]: value and expiry of ratelimit:{c}:{w}
  stage,     \* what a request does next, or how it ended
  client,    \* who sent the request (a set: {} before it arrives)
  seen,      \* seen[r][w]: the count the request made: value, expiry, moment
  retryAt,   \* the moment Retry-After points to
  faults     \* failures so far

vars == <<now, counter, stage, client, seen, retryAt, faults>>

NotCounted == [count |-> 0, until |-> 0, at |-> 0]

Init ==
  /\ now = 0
  /\ counter = [c \in Clients |-> [w \in Windows |-> [count |-> 0, until |-> 0]]]
  /\ stage = [r \in Requests |-> "idle"]
  /\ client = [r \in Requests |-> {}]
  /\ seen = [r \in Requests |-> [w \in Windows |-> NotCounted]]
  /\ retryAt = [r \in Requests |-> 0]
  /\ faults = 0

-----------------------------------------------------------------------------

Later(a, b) == IF a >= b THEN a ELSE b

\* A key of Redis is gone at its expiry.
Live(c, w) == now < counter[c][w].until

\* Fault: every increment sets the expiry again.
IncrementAndExtend(c, w) ==
  [count |-> IF Live(c, w) THEN counter[c][w].count + 1 ELSE 1,
   until |-> now + Length[w]]

\* Fault: PEXPIRE with the seconds, so the window ends early.
IncrementForLess(c, w) ==
  IF Live(c, w) THEN [counter[c][w] EXCEPT !.count = @ + 1]
  ELSE [count |-> 1, until |-> now + Length[w] \div TicksPerSecond]

\* INCR, and EXPIRE of a counter that has no expiry yet.
Increment(c, w) ==
  IF Live(c, w) THEN [counter[c][w] EXCEPT !.count = @ + 1]
  ELSE [count |-> 1, until |-> now + Length[w]]

\* TTL: milliseconds, rounded to seconds.
Seconds(ticks) == (2 * ticks + TicksPerSecond) \div (2 * TicksPerSecond)

\* Fault: min for max.
RetrySooner(count) == IF Seconds(count.until - count.at) <= 1 THEN Seconds(count.until - count.at) ELSE 1

RetryAfter(count) == Later(1, Seconds(count.until - count.at))

\* Fault: the count before the increment is compared.
ExceededBefore(c, w, count) == count.count - 1 > Limit[c][w]

Exceeds(c, w, count) == count.count > Limit[c][w]

\* Request r counts in window w: what Redis stores and what r gets to know.
CountIn(r, c, w) ==
  /\ counter' = [counter EXCEPT ![c][w] = Increment(c, w)]
  /\ seen' = [seen EXCEPT ![r][w] = [count |-> Increment(c, w).count,
                                     until |-> Increment(c, w).until, at |-> now]]

\* The request is rejected because of window w.
Reject(r, w) ==
  /\ stage' = [stage EXCEPT ![r] = "rejected"]
  /\ retryAt' = [retryAt EXCEPT ![r] = now + TicksPerSecond * RetryAfter(seen'[r][w])]

Allow(r) == stage' = [stage EXCEPT ![r] = "allowed"] /\ UNCHANGED retryAt

\* First pipeline of RateLimitService.check.
CountMinute(r) ==
  /\ stage[r] = "idle"
  /\ \E c \in Keys :
       /\ CountIn(r, c, "minute")
       /\ client' = [client EXCEPT ![r] = {c}]
  /\ stage' = [stage EXCEPT ![r] = "day"]
  /\ UNCHANGED <<now, retryAt, faults>>

\* Second pipeline, and the judgement: the minute limit comes first.
CountDay(r) ==
  /\ stage[r] = "day"
  /\ \E c \in client[r] :
       /\ CountIn(r, c, "day")
       /\ \/ Exceeds(c, "minute", seen'[r]["minute"]) /\ Reject(r, "minute")
          \/ /\ ~Exceeds(c, "minute", seen'[r]["minute"])
             /\ Exceeds(c, "day", seen'[r]["day"]) /\ Reject(r, "day")
          \/ /\ ~Exceeds(c, "minute", seen'[r]["minute"])
             /\ ~Exceeds(c, "day", seen'[r]["day"]) /\ Allow(r)
  /\ UNCHANGED <<now, client, faults>>

\* rate_limit_auth and _check_auth_rate_limit.
CountLogin(r) ==
  /\ stage[r] = "idle"
  /\ \E c \in Ips :
       /\ CountIn(r, c, "minute")
       /\ client' = [client EXCEPT ![r] = {c}]
       /\ IF Exceeds(c, "minute", seen'[r]["minute"]) THEN Reject(r, "minute") ELSE Allow(r)
  /\ UNCHANGED <<now, faults>>

\* Redis fails, and may have applied the transaction: rate_limit lets the
\* request in, a login ends with status 500.
RedisFails(r, c, w) ==
  /\ faults < MaxFaults
  /\ faults' = faults + 1
  /\ CountIn(r, c, w) \/ UNCHANGED <<counter, seen>>
  /\ client' = [client EXCEPT ![r] = {c}]
  /\ stage' = [stage EXCEPT ![r] = IF c \in Keys THEN "unlimited" ELSE "failed"]
  /\ UNCHANGED <<now, retryAt>>

FirstFails(r) == stage[r] = "idle" /\ \E c \in Clients : RedisFails(r, c, "minute")

SecondFails(r) == stage[r] = "day" /\ \E c \in client[r] : RedisFails(r, c, "day")

Tick ==
  /\ now < MaxTime
  /\ now' = now + 1
  /\ UNCHANGED <<counter, stage, client, seen, retryAt, faults>>

Next ==
  \/ \E r \in Requests :
       \/ CountMinute(r) \/ CountDay(r) \/ CountLogin(r)
       \/ FirstFails(r) \/ SecondFails(r)
  \/ Tick

Spec == Init /\ [][Next]_vars

-----------------------------------------------------------------------------
(* Properties. *)

Stages == {"idle", "day", "allowed", "rejected", "unlimited", "failed"}

TypeOK ==
  /\ now \in Nat
  /\ counter \in [Clients -> [Windows -> [count : Nat, until : Nat]]]
  /\ stage \in [Requests -> Stages]
  /\ client \in [Requests -> SUBSET Clients]
  /\ seen \in [Requests -> [Windows -> [count : Nat, until : Nat, at : Nat]]]
  /\ retryAt \in [Requests -> Nat]
  /\ faults \in 0 .. MaxFaults
  /\ \A r \in Requests : stage[r] = "rejected" <=> retryAt[r] > 0

\* The requests of c that were let in, counted in the window ending at end.
Admitted(c, w, end) ==
  {r \in Requests : /\ stage[r] = "allowed" /\ client[r] = {c}
                    /\ seen[r][w].count > 0 /\ seen[r][w].until = end}

\* However requests overlap, no window of a counter lets more requests in than
\* its limit (requests let in without a limit, during an outage, aside).
WindowRespected ==
  \A r \in Requests : \A c \in client[r], w \in Windows :
    Cardinality(Admitted(c, w, seen[r][w].until)) <= Limit[c][w]

\* Fixed windows are not sliding ones, but they bound them: no interval as long
\* as a window lets in more than twice the limit.
SlidingBound ==
  \A q \in Requests : \A c \in client[q], w \in Windows :
    Cardinality({r \in Requests :
                   /\ stage[r] = "allowed" /\ client[r] = {c} /\ seen[r][w].count > 0
                   /\ seen[r][w].at >= seen[q][w].at
                   /\ seen[r][w].at < seen[q][w].at + Length[w]}) <= 2 * Limit[c][w]

\* The window a rejected request was rejected for.
RejectedFor(r, c) ==
  IF Exceeds(c, "minute", seen[r]["minute"]) THEN "minute" ELSE "day"

\* A client is only rejected after as many other requests of its own as the
\* limit allows, all of them less than a window ago: nothing keeps an old
\* window alive, and no other client uses it up.
RejectedForCause ==
  \A r \in Requests : \A c \in client[r] : stage[r] = "rejected" =>
    LET w == RejectedFor(r, c) IN
    Cardinality({q \in Requests \ {r} :
                   /\ client[q] = {c} /\ seen[q][w].count > 0
                   /\ seen[q][w].at <= seen[r][w].at
                   /\ seen[q][w].at > seen[r][w].at - Length[w]}) >= Limit[c][w]

\* Retry-After points at most half a second before the end of the window the
\* request was rejected for (TTL rounds to seconds).
RetryAfterNear ==
  \A r \in Requests : \A c \in client[r] : stage[r] = "rejected" =>
    2 * (seen[r][RejectedFor(r, c)].until - retryAt[r]) <= TicksPerSecond
=============================================================================
