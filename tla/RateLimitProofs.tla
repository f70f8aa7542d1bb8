--------------------------- MODULE RateLimitProofs ---------------------------
(***************************************************************************)
(* The limits, for every number of requests, clients, limits and window    *)
(* lengths.  Three arguments, each with an invariant of its own:           *)
(*   - INCR is atomic, so the requests counted in one window of a counter  *)
(*     have different counts, and those let in have counts in 1 .. Limit:  *)
(*     no window lets in more than its limit (LimitInv);                   *)
(*   - a window opens when the one before it is over (Placed), so an       *)
(*     interval of its length reaches into two of them at most;            *)
(*   - every count up to the one a request made was made by a request of   *)
(*     its client in the same window (Preceded), so a rejection takes a    *)
(*     limit's worth of others.                                            *)
(***************************************************************************)
EXTENDS RateLimit, FiniteSetTheorems, TLAPS

\* A request has no client before it arrives, and has counted nothing.
Arrival ==
  \A r \in Requests :
    /\ stage[r] = "idle" => /\ client[r] = {}
                            /\ \A w \in Windows : seen[r][w].count = 0
    /\ stage[r] = "day" => seen[r]["day"].count = 0
    /\ \/ client[r] = {} /\ stage[r] = "idle"
       \/ \E c \in Clients : client[r] = {c}

\* What a request counted is at most what the counter has come to.
CountsBehind ==
  \A r \in Requests, c \in Clients, w \in Windows :
    client[r] = {c} /\ seen[r][w].count > 0 =>
      /\ seen[r][w].until <= counter[c][w].until
      /\ seen[r][w].until = counter[c][w].until => seen[r][w].count <= counter[c][w].count

\* Two requests never make the same count in the same window.
CountsDiffer ==
  \A r, q \in Requests, c \in Clients, w \in Windows :
    /\ r # q /\ client[r] = {c} /\ client[q] = {c}
    /\ seen[r][w].count > 0 /\ seen[q][w].count > 0
    /\ seen[r][w].until = seen[q][w].until
    => seen[r][w].count # seen[q][w].count

\* Who was let in made counts within the limits.
WithinLimits ==
  \A r \in Requests, c \in Clients, w \in Windows :
    stage[r] = "allowed" /\ client[r] = {c} => seen[r][w].count <= Limit[c][w]

LimitInv == TypeOK /\ Arrival /\ CountsBehind /\ CountsDiffer /\ WithinLimits

-----------------------------------------------------------------------------

\* Retry-After is a positive number of seconds.
LEMMA RetryAfterPositive ==
  ASSUME NEW count \in [count : Nat, until : Nat, at : Nat]
  PROVE  RetryAfter(count) \in Nat /\ RetryAfter(count) >= 1
<1> DEFINE ticks == count.until - count.at
<1>1. ticks \in Int /\ TicksPerSecond \in Nat /\ TicksPerSecond > 0
  BY RateLimitAssumption
<1> HIDE DEF ticks
<1>2. (2 * ticks + TicksPerSecond) \div (2 * TicksPerSecond) \in Int
  BY <1>1
<1> QED  BY <1>2 DEF RetryAfter, Later, Seconds, ticks

\* The moment of a Retry-After is not zero.
LEMMA RetryMomentPositive ==
  ASSUME NEW t \in Nat, NEW count \in [count : Nat, until : Nat, at : Nat]
  PROVE  /\ t + TicksPerSecond * RetryAfter(count) \in Nat
         /\ t + TicksPerSecond * RetryAfter(count) > 0
<1> DEFINE k == RetryAfter(count)
<1>1. k \in Nat /\ k >= 1  BY RetryAfterPositive
<1>2. TicksPerSecond \in Nat /\ TicksPerSecond >= 1  BY RateLimitAssumption
<1> HIDE DEF k
<1>3. TicksPerSecond * k \in Nat /\ TicksPerSecond * k >= 1  BY <1>1, <1>2
<1> QED  BY <1>3 DEF k

\* A count leaves the counters, and what the requests know, well typed.
LEMMA CountTyped ==
  ASSUME TypeOK, NEW r \in Requests, NEW c \in Clients, NEW w \in Windows, CountIn(r, c, w)
  PROVE  /\ counter' \in [Clients -> [Windows -> [count : Nat, until : Nat]]]
         /\ seen' \in [Requests -> [Windows -> [count : Nat, until : Nat, at : Nat]]]
         /\ seen'[r][w].count > 0
<1>1. Increment(c, w) \in [count : Nat, until : Nat] /\ Increment(c, w).count > 0
  BY RateLimitAssumption DEF Increment, TypeOK, Live
<1>2. [count |-> Increment(c, w).count, until |-> Increment(c, w).until, at |-> now]
        \in [count : Nat, until : Nat, at : Nat]
  BY <1>1 DEF TypeOK
<1> QED  BY <1>1, <1>2, Zenon DEF CountIn, TypeOK

\* A count of a request that has not counted in this window keeps counts apart.
LEMMA CountKeepsApart ==
  ASSUME TypeOK, Arrival, CountsBehind, CountsDiffer,
         NEW r \in Requests, NEW c \in Clients, NEW w \in Windows, CountIn(r, c, w),
         seen[r][w].count = 0, client[r] \subseteq {c},
         client' = [client EXCEPT ![r] = {c}]
  PROVE  /\ CountsBehind' /\ CountsDiffer'
         /\ \A q \in Requests, v \in Windows : q # r \/ v # w => seen'[q][v] = seen[q][v]
<1> DEFINE next == Increment(c, w)
<1>1. /\ next \in [count : Nat, until : Nat] /\ next.count > 0
      /\ next.until >= counter[c][w].until
      /\ \/ next.until > counter[c][w].until
         \/ next.until = counter[c][w].until /\ next.count = counter[c][w].count + 1
  <2>1. /\ counter[c][w] \in [count : Nat, until : Nat]
        /\ now \in Nat /\ Length[w] \in Nat /\ Length[w] > 0
    BY RateLimitAssumption DEF TypeOK
  <2>2. CASE Live(c, w)
    <3>1. next = [counter[c][w] EXCEPT !.count = counter[c][w].count + 1]
      BY <2>2 DEF Increment
    <3> QED  BY <2>1, <3>1
  <2>3. CASE ~Live(c, w)
    <3>1. next = [count |-> 1, until |-> now + Length[w]]  BY <2>3 DEF Increment
    <3>2. now >= counter[c][w].until  BY <2>1, <2>3 DEF Live
    <3> QED  BY <2>1, <3>1, <3>2
  <2> QED  BY <2>2, <2>3
<1>2. /\ counter'[c][w] = next
      /\ \A d \in Clients, v \in Windows : d # c \/ v # w => counter'[d][v] = counter[d][v]
  BY <1>1 DEF CountIn, TypeOK
<1>3. /\ seen'[r][w] = [count |-> next.count, until |-> next.until, at |-> now]
      /\ \A q \in Requests, v \in Windows : q # r \/ v # w => seen'[q][v] = seen[q][v]
  BY <1>1 DEF CountIn, TypeOK
<1>4. /\ client'[r] = {c} /\ \A q \in Requests \ {r} : client'[q] = client[q]
      /\ client[r] = {c} \/ (client[r] = {} /\ \A v \in Windows : seen[r][v].count = 0)
  <2>1. client'[r] = {c} /\ \A q \in Requests \ {r} : client'[q] = client[q]
    BY DEF TypeOK
  <2>2. CASE client[r] = {} /\ stage[r] = "idle"  BY <2>1, <2>2 DEF Arrival
  <2>3. CASE \E d \in Clients : client[r] = {d}  BY <2>1, <2>3
  <2> QED  BY <2>2, <2>3 DEF Arrival
<1>5. seen'[r][w].count = next.count /\ seen'[r][w].until = next.until  BY <1>3
<1> HIDE DEF next
<1>6. ASSUME NEW q \in Requests, NEW d \in Clients, NEW v \in Windows,
             client'[q] = {d}, seen'[q][v].count > 0, q # r \/ v # w
      PROVE  /\ client[q] = {d} /\ seen'[q][v] = seen[q][v] /\ seen[q][v].count > 0
             /\ seen[q][v].until <= counter[d][v].until
             /\ seen[q][v].until = counter[d][v].until => seen[q][v].count <= counter[d][v].count
  <2>1. seen'[q][v] = seen[q][v] /\ seen[q][v].count > 0  BY <1>3, <1>6
  <2>2. client[q] = {d}
    <3>1. CASE q # r  BY <3>1, <1>4, <1>6
    <3>2. CASE q = r  BY <3>2, <1>4, <1>6, <2>1
    <3> QED  BY <3>1, <3>2
  <2> QED  BY <2>1, <2>2 DEF CountsBehind
<1>7. \A q \in Requests, v \in Windows :
        seen[q][v].count \in Nat /\ seen[q][v].until \in Nat
  BY DEF TypeOK
<1>8. \A d \in Clients, v \in Windows :
        counter[d][v].count \in Nat /\ counter[d][v].until \in Nat
  BY DEF TypeOK
<1>9. CountsBehind'
  <2> SUFFICES ASSUME NEW q \in Requests, NEW d \in Clients, NEW v \in Windows,
                      client'[q] = {d}, seen'[q][v].count > 0
               PROVE  /\ seen'[q][v].until <= counter'[d][v].until
                      /\ seen'[q][v].until = counter'[d][v].until
                         => seen'[q][v].count <= counter'[d][v].count
    BY DEF CountsBehind
  <2>1. CASE q = r /\ v = w
    <3>1. d = c  BY <2>1, <1>4
    <3> QED  BY <2>1, <3>1, <1>1, <1>2, <1>5 DEF next
  <2>2. CASE (q # r \/ v # w) /\ d = c /\ v = w
    BY <2>2, <1>1, <1>2, <1>6, <1>7, <1>8 DEF next
  <2>3. CASE (q # r \/ v # w) /\ (d # c \/ v # w)
    BY <2>3, <1>2, <1>6
  <2> QED  BY <2>1, <2>2, <2>3
<1>10. CountsDiffer'
  <2> SUFFICES ASSUME NEW q \in Requests, NEW p \in Requests,
                      NEW d \in Clients, NEW v \in Windows,
                      q # p, client'[q] = {d}, client'[p] = {d},
                      seen'[q][v].count > 0, seen'[p][v].count > 0,
                      seen'[q][v].until = seen'[p][v].until
               PROVE  seen'[q][v].count # seen'[p][v].count
    BY DEF CountsDiffer
  <2>1. CASE v = w /\ q = r
    <3>1. d = c /\ p # r  BY <2>1, <1>4
    <3> QED  BY <2>1, <3>1, <1>1, <1>5, <1>6, <1>7, <1>8 DEF next
  <2>2. CASE v = w /\ p = r
    <3>1. d = c /\ q # r  BY <2>2, <1>4
    <3> QED  BY <2>2, <3>1, <1>1, <1>5, <1>6, <1>7, <1>8 DEF next
  <2>3. CASE v # w \/ (q # r /\ p # r)
    BY <2>3, <1>6 DEF CountsDiffer
  <2> QED  BY <2>1, <2>2, <2>3
<1> QED  BY <1>3, <1>9, <1>10

-----------------------------------------------------------------------------

\* What the end of a request r leaves of the invariant, when the others stay.
LEMMA OthersStay ==
  ASSUME Arrival, WithinLimits, NEW r \in Requests, NEW c \in Clients,
         client'[r] = {c}, stage'[r] \notin {"idle", "day"},
         stage'[r] = "allowed" => \A v \in Windows : seen'[r][v].count <= Limit[c][v],
         \A q \in Requests \ {r} : /\ stage'[q] = stage[q] /\ client'[q] = client[q]
                                   /\ \A v \in Windows : seen'[q][v] = seen[q][v]
  PROVE  Arrival' /\ WithinLimits'
<1>1. Arrival'
  <2> SUFFICES ASSUME NEW q \in Requests
               PROVE  /\ stage'[q] = "idle" => /\ client'[q] = {}
                                              /\ \A w \in Windows : seen'[q][w].count = 0
                      /\ stage'[q] = "day" => seen'[q]["day"].count = 0
                      /\ \/ client'[q] = {} /\ stage'[q] = "idle"
                         \/ \E d \in Clients : client'[q] = {d}
    BY DEF Arrival
  <2>1. CASE q = r  BY <2>1
  <2>2. CASE q # r  BY <2>2 DEF Arrival, Windows
  <2> QED  BY <2>1, <2>2
<1>2. WithinLimits'
  <2> SUFFICES ASSUME NEW q \in Requests, NEW d \in Clients, NEW w \in Windows,
                      stage'[q] = "allowed", client'[q] = {d}
               PROVE  seen'[q][w].count <= Limit[d][w]
    BY DEF WithinLimits
  <2>1. CASE q = r
    <3>1. d = c  BY <2>1
    <3> QED  BY <2>1, <3>1
  <2>2. CASE q # r  BY <2>2 DEF WithinLimits
  <2> QED  BY <2>1, <2>2
<1> QED  BY <1>1, <1>2

LEMMA LimitInit == Init => LimitInv
<1> SUFFICES ASSUME Init PROVE LimitInv
  OBVIOUS
<1>1. TypeOK
  BY RateLimitAssumption DEF Init, TypeOK, Stages, NotCounted
<1>2. \A r \in Requests, w \in Windows : seen[r][w].count = 0
  BY DEF Init, NotCounted
<1>3. \A r \in Requests : stage[r] = "idle" /\ client[r] = {}
  BY DEF Init
<1>4. Arrival  BY <1>2, <1>3 DEF Arrival
<1>5. CountsBehind /\ CountsDiffer /\ WithinLimits
  BY <1>2, <1>3 DEF CountsBehind, CountsDiffer, WithinLimits
<1> QED  BY <1>1, <1>4, <1>5 DEF LimitInv

\* A request that ends within its limits, or without being let in.
LEMMA CountMinuteKeeps ==
  ASSUME LimitInv, NEW r \in Requests, CountMinute(r)
  PROVE  LimitInv'
<1> USE DEF LimitInv
<1>1. PICK c \in Keys : CountIn(r, c, "minute") /\ client' = [client EXCEPT ![r] = {c}]
  BY DEF CountMinute
<1>2. /\ c \in Clients /\ "minute" \in Windows /\ "day" \in Windows
      /\ client[r] = {} /\ \A w \in Windows : seen[r][w].count = 0
      /\ stage[r] = "idle" /\ stage' = [stage EXCEPT ![r] = "day"]
  BY DEF CountMinute, Clients, Windows, Arrival
<1>3. /\ CountsBehind' /\ CountsDiffer'
      /\ \A q \in Requests, v \in Windows : q # r \/ v # "minute" => seen'[q][v] = seen[q][v]
  BY <1>1, <1>2, CountKeepsApart
<1>4. /\ counter' \in [Clients -> [Windows -> [count : Nat, until : Nat]]]
      /\ seen' \in [Requests -> [Windows -> [count : Nat, until : Nat, at : Nat]]]
  BY <1>1, <1>2, CountTyped
<1>5. /\ stage'[r] = "day" /\ client'[r] = {c}
      /\ \A q \in Requests \ {r} : stage'[q] = stage[q] /\ client'[q] = client[q]
  BY <1>1, <1>2 DEF TypeOK
<1>6. TypeOK'
  <2>1. stage' \in [Requests -> Stages] /\ client' \in [Requests -> SUBSET Clients]
    BY <1>1, <1>2 DEF TypeOK, Stages
  <2>2. retryAt' = retryAt /\ now' = now /\ faults' = faults  BY DEF CountMinute
  <2>3. \A q \in Requests : stage'[q] = "rejected" <=> retryAt'[q] > 0
    BY <1>2, <1>5, <2>2 DEF TypeOK
  <2> QED  BY <1>4, <2>1, <2>2, <2>3 DEF TypeOK
<1>7. Arrival'
  BY <1>2, <1>3, <1>5 DEF Arrival
<1>8. WithinLimits'
  BY <1>3, <1>5 DEF WithinLimits
<1> QED  BY <1>3, <1>6, <1>7, <1>8

\* The judgement after both counts.
LEMMA CountDayKeeps ==
  ASSUME LimitInv, NEW r \in Requests, CountDay(r)
  PROVE  LimitInv'
<1> USE DEF LimitInv
<1>1. PICK c \in client[r] :
        /\ CountIn(r, c, "day")
        /\ \/ Exceeds(c, "minute", seen'[r]["minute"]) /\ Reject(r, "minute")
           \/ /\ ~Exceeds(c, "minute", seen'[r]["minute"])
              /\ Exceeds(c, "day", seen'[r]["day"]) /\ Reject(r, "day")
           \/ /\ ~Exceeds(c, "minute", seen'[r]["minute"])
              /\ ~Exceeds(c, "day", seen'[r]["day"]) /\ Allow(r)
  BY DEF CountDay
<1>2. /\ c \in Clients /\ "minute" \in Windows /\ "day" \in Windows
      /\ client[r] = {c} /\ stage[r] = "day" /\ seen[r]["day"].count = 0
  BY <1>1 DEF CountDay, Windows, Arrival
<1>3. client' = client /\ client' = [client EXCEPT ![r] = {c}]
  BY <1>2 DEF CountDay, TypeOK
<1>4. /\ CountsBehind' /\ CountsDiffer'
      /\ \A q \in Requests, v \in Windows : q # r \/ v # "day" => seen'[q][v] = seen[q][v]
  <2>1. CountIn(r, c, "day") /\ seen[r]["day"].count = 0  BY <1>1, <1>2
  <2>2. client[r] \subseteq {c} /\ client' = [client EXCEPT ![r] = {c}]  BY <1>2, <1>3
  <2>3. TypeOK /\ Arrival /\ CountsBehind /\ CountsDiffer  OBVIOUS
  <2> HIDE DEF LimitInv
  <2> QED  BY <1>2, <2>1, <2>2, <2>3, CountKeepsApart
<1>5. /\ counter' \in [Clients -> [Windows -> [count : Nat, until : Nat]]]
      /\ seen' \in [Requests -> [Windows -> [count : Nat, until : Nat, at : Nat]]]
  BY <1>1, <1>2, CountTyped
<1>6. /\ seen'[r]["minute"] \in [count : Nat, until : Nat, at : Nat]
      /\ seen'[r]["day"] \in [count : Nat, until : Nat, at : Nat]
  BY <1>2, <1>5
<1>7. CASE \E w \in Windows : Reject(r, w)
  <2>1. PICK w \in Windows : Reject(r, w)  BY <1>7
  <2>2. now + TicksPerSecond * RetryAfter(seen'[r][w]) \in Nat
        /\ now + TicksPerSecond * RetryAfter(seen'[r][w]) > 0
    BY <1>6, RetryMomentPositive DEF Windows, TypeOK
  <2>3. /\ stage'[r] = "rejected" /\ retryAt'[r] > 0
        /\ stage' \in [Requests -> Stages] /\ retryAt' \in [Requests -> Nat]
        /\ \A q \in Requests \ {r} : stage'[q] = stage[q] /\ retryAt'[q] = retryAt[q]
    BY <2>1, <2>2 DEF Reject, TypeOK, Stages
  <2>4. TypeOK'
    <3>1. now' = now /\ faults' = faults  BY DEF CountDay
    <3>2. \A q \in Requests : stage'[q] = "rejected" <=> retryAt'[q] > 0
      BY <2>3 DEF TypeOK
    <3> QED  BY <1>3, <1>5, <2>3, <3>1, <3>2 DEF TypeOK
  <2>5. Arrival' /\ WithinLimits'  BY <1>2, <1>3, <1>4, <2>3, OthersStay
  <2> QED  BY <1>4, <2>4, <2>5
<1>8. CASE /\ ~Exceeds(c, "minute", seen'[r]["minute"])
           /\ ~Exceeds(c, "day", seen'[r]["day"]) /\ Allow(r)
  <2>1. /\ stage'[r] = "allowed" /\ retryAt' = retryAt
        /\ stage' \in [Requests -> Stages]
        /\ \A q \in Requests \ {r} : stage'[q] = stage[q]
    BY <1>8 DEF Allow, TypeOK, Stages
  <2>2. TypeOK'
    <3>1. now' = now /\ faults' = faults  BY DEF CountDay
    <3>2. \A q \in Requests : stage'[q] = "rejected" <=> retryAt'[q] > 0
      BY <1>2, <2>1 DEF TypeOK
    <3> QED  BY <1>3, <1>5, <2>1, <3>1, <3>2 DEF TypeOK
  <2>3. \A w \in Windows : seen'[r][w].count <= Limit[c][w]
    <3>1. /\ Limit[c]["minute"] \in Nat /\ Limit[c]["day"] \in Nat
      BY <1>2, RateLimitAssumption
    <3> QED  BY <1>6, <1>8, <3>1 DEF Exceeds, Windows
  <2>4. Arrival' /\ WithinLimits'  BY <1>2, <1>3, <1>4, <2>1, <2>3, OthersStay
  <2> QED  BY <1>4, <2>2, <2>4
<1> QED  BY <1>1, <1>2, <1>7, <1>8

\* A login counts once, in the minute of its address.
LEMMA CountLoginKeeps ==
  ASSUME LimitInv, NEW r \in Requests, CountLogin(r)
  PROVE  LimitInv'
<1> USE DEF LimitInv
<1>1. PICK c \in Ips :
        /\ CountIn(r, c, "minute") /\ client' = [client EXCEPT ![r] = {c}]
        /\ IF Exceeds(c, "minute", seen'[r]["minute"]) THEN Reject(r, "minute") ELSE Allow(r)
  BY DEF CountLogin
<1>2. /\ c \in Clients /\ "minute" \in Windows /\ "day" \in Windows
      /\ client[r] = {} /\ \A w \in Windows : seen[r][w].count = 0
      /\ stage[r] = "idle"
  BY DEF CountLogin, Clients, Windows, Arrival
<1>3. /\ CountsBehind' /\ CountsDiffer'
      /\ \A q \in Requests, v \in Windows : q # r \/ v # "minute" => seen'[q][v] = seen[q][v]
  BY <1>1, <1>2, CountKeepsApart
<1>4. /\ counter' \in [Clients -> [Windows -> [count : Nat, until : Nat]]]
      /\ seen' \in [Requests -> [Windows -> [count : Nat, until : Nat, at : Nat]]]
  BY <1>1, <1>2, CountTyped
<1>5. /\ client'[r] = {c} /\ client' \in [Requests -> SUBSET Clients]
      /\ \A q \in Requests \ {r} : client'[q] = client[q]
  BY <1>1, <1>2 DEF TypeOK
<1>6. /\ seen'[r]["minute"] \in [count : Nat, until : Nat, at : Nat]
      /\ now' = now /\ faults' = faults
  BY <1>2, <1>4 DEF CountLogin
<1>7. CASE Reject(r, "minute")
  <2>1. now + TicksPerSecond * RetryAfter(seen'[r]["minute"]) \in Nat
        /\ now + TicksPerSecond * RetryAfter(seen'[r]["minute"]) > 0
    BY <1>6, RetryMomentPositive DEF TypeOK
  <2>2. /\ stage'[r] = "rejected" /\ retryAt'[r] > 0
        /\ stage' \in [Requests -> Stages] /\ retryAt' \in [Requests -> Nat]
        /\ \A q \in Requests \ {r} : stage'[q] = stage[q] /\ retryAt'[q] = retryAt[q]
    BY <1>7, <2>1 DEF Reject, TypeOK, Stages
  <2>3. \A q \in Requests : stage'[q] = "rejected" <=> retryAt'[q] > 0
    BY <2>2 DEF TypeOK
  <2>4. TypeOK'  BY <1>4, <1>5, <1>6, <2>2, <2>3 DEF TypeOK
  <2>5. Arrival' /\ WithinLimits'  BY <1>2, <1>3, <1>5, <2>2, OthersStay
  <2> QED  BY <1>3, <2>4, <2>5
<1>8. CASE ~Exceeds(c, "minute", seen'[r]["minute"]) /\ Allow(r)
  <2>1. /\ stage'[r] = "allowed" /\ retryAt' = retryAt
        /\ stage' \in [Requests -> Stages]
        /\ \A q \in Requests \ {r} : stage'[q] = stage[q]
    BY <1>8 DEF Allow, TypeOK, Stages
  <2>2. \A q \in Requests : stage'[q] = "rejected" <=> retryAt'[q] > 0
    BY <1>2, <2>1 DEF TypeOK
  <2>3. TypeOK'  BY <1>4, <1>5, <1>6, <2>1, <2>2 DEF TypeOK
  <2>4. \A w \in Windows : seen'[r][w].count <= Limit[c][w]
    <3>1. Limit[c]["minute"] \in Nat /\ Limit[c]["day"] \in Nat
      BY <1>2, RateLimitAssumption
    <3>2. seen'[r]["day"].count = 0  BY <1>2, <1>3
    <3> QED  BY <1>6, <1>8, <3>1, <3>2 DEF Exceeds, Windows
  <2>5. Arrival' /\ WithinLimits'  BY <1>2, <1>3, <1>5, <2>1, <2>4, OthersStay
  <2> QED  BY <1>3, <2>3, <2>5
<1> QED  BY <1>1, <1>7, <1>8

\* A failure of Redis lets nobody in as allowed, whether it counted or not.
LEMMA FailureKeeps ==
  ASSUME LimitInv, NEW r \in Requests, NEW c \in Clients, NEW w \in Windows,
         RedisFails(r, c, w), seen[r][w].count = 0, client[r] \subseteq {c},
         stage[r] # "rejected"
  PROVE  LimitInv'
<1> USE DEF LimitInv
<1>1. /\ client' = [client EXCEPT ![r] = {c}] /\ client'[r] = {c}
      /\ client' \in [Requests -> SUBSET Clients]
      /\ \A q \in Requests \ {r} : client'[q] = client[q]
      /\ stage' \in [Requests -> Stages] /\ stage'[r] \in {"unlimited", "failed"}
      /\ \A q \in Requests \ {r} : stage'[q] = stage[q]
      /\ now' = now /\ retryAt' = retryAt /\ faults' \in 0 .. MaxFaults
  BY RateLimitAssumption DEF RedisFails, TypeOK, Stages
<1>2. /\ counter' \in [Clients -> [Windows -> [count : Nat, until : Nat]]]
      /\ seen' \in [Requests -> [Windows -> [count : Nat, until : Nat, at : Nat]]]
      /\ CountsBehind' /\ CountsDiffer'
      /\ \A q \in Requests \ {r}, v \in Windows : seen'[q][v] = seen[q][v]
  <2>1. CASE CountIn(r, c, w)
    <3>1. /\ CountsBehind' /\ CountsDiffer'
          /\ \A q \in Requests, v \in Windows : q # r \/ v # w => seen'[q][v] = seen[q][v]
      <4>1. TypeOK /\ Arrival /\ CountsBehind /\ CountsDiffer  OBVIOUS
      <4>2. client' = [client EXCEPT ![r] = {c}]  BY <1>1
      <4> QED  BY <2>1, <4>1, <4>2, CountKeepsApart
    <3> QED  BY <2>1, <3>1, CountTyped
  <2>2. CASE UNCHANGED <<counter, seen>>
    <3>1. client[r] = {c} \/ \A v \in Windows : seen'[r][v].count = 0
      BY <2>2 DEF Arrival
    <3>2. \A q \in Requests, d \in Clients, v \in Windows :
            client'[q] = {d} /\ seen'[q][v].count > 0 => client[q] = {d}
      BY <1>1, <2>2, <3>1
    <3>3. CountsBehind'  BY <2>2, <3>2 DEF CountsBehind
    <3>4. CountsDiffer'  BY <2>2, <3>2 DEF CountsDiffer
    <3> QED  BY <2>2, <3>3, <3>4 DEF TypeOK
  <2> QED  BY <2>1, <2>2 DEF RedisFails
<1>3. \A q \in Requests : stage'[q] = "rejected" <=> retryAt'[q] > 0
  BY <1>1 DEF TypeOK
<1>4. TypeOK'  BY <1>1, <1>2, <1>3 DEF TypeOK
<1>5. Arrival' /\ WithinLimits'
  <2>1. Arrival /\ WithinLimits  OBVIOUS
  <2>2. stage'[r] \notin {"idle", "day"} /\ stage'[r] # "allowed"  BY <1>1
  <2>3. \A q \in Requests \ {r} : /\ stage'[q] = stage[q] /\ client'[q] = client[q]
                                  /\ \A v \in Windows : seen'[q][v] = seen[q][v]
    BY <1>1, <1>2
  <2> QED  BY <1>1, <2>1, <2>2, <2>3, OthersStay
<1> QED  BY <1>2, <1>4, <1>5

LEMMA LimitStep == LimitInv /\ [Next]_vars => LimitInv'
<1> SUFFICES ASSUME LimitInv, [Next]_vars PROVE LimitInv'
  OBVIOUS
<1> USE DEF LimitInv
<1>1. ASSUME NEW r \in Requests, CountMinute(r) PROVE LimitInv'
  BY <1>1, CountMinuteKeeps
<1>2. ASSUME NEW r \in Requests, CountDay(r) PROVE LimitInv'
  BY <1>2, CountDayKeeps
<1>3. ASSUME NEW r \in Requests, CountLogin(r) PROVE LimitInv'
  BY <1>3, CountLoginKeeps
<1>4. ASSUME NEW r \in Requests, FirstFails(r) PROVE LimitInv'
  <2>1. PICK c \in Clients : RedisFails(r, c, "minute")  BY <1>4 DEF FirstFails
  <2>2. /\ stage[r] = "idle" /\ "minute" \in Windows
        /\ client[r] \subseteq {c} /\ seen[r]["minute"].count = 0
    BY <1>4 DEF FirstFails, Arrival, Windows
  <2> QED  BY <2>1, <2>2, FailureKeeps
<1>5. ASSUME NEW r \in Requests, SecondFails(r) PROVE LimitInv'
  <2>1. PICK c \in client[r] : RedisFails(r, c, "day")  BY <1>5 DEF SecondFails
  <2>2. /\ stage[r] = "day" /\ "day" \in Windows /\ c \in Clients
        /\ client[r] \subseteq {c} /\ seen[r]["day"].count = 0
    BY <1>5, <2>1 DEF SecondFails, Arrival, Windows
  <2> QED  BY <2>1, <2>2, FailureKeeps
<1>6. CASE Tick
  <2>1. now' \in Nat /\ UNCHANGED <<counter, stage, client, seen, retryAt, faults>>
    BY <1>6 DEF Tick, TypeOK
  <2>2. TypeOK'  BY <2>1 DEF TypeOK
  <2>3. Arrival'  BY <2>1 DEF Arrival
  <2>4. CountsBehind' /\ CountsDiffer'  BY <2>1 DEF CountsBehind, CountsDiffer
  <2>5. WithinLimits'  BY <2>1 DEF WithinLimits
  <2> QED  BY <2>2, <2>3, <2>4, <2>5
<1>7. CASE UNCHANGED vars
  <2>1. UNCHANGED <<now, counter, stage, client, seen, retryAt, faults>>  BY <1>7 DEF vars
  <2>2. TypeOK'  BY <2>1 DEF TypeOK
  <2>3. Arrival'  BY <2>1 DEF Arrival
  <2>4. CountsBehind' /\ CountsDiffer'  BY <2>1 DEF CountsBehind, CountsDiffer
  <2>5. WithinLimits'  BY <2>1 DEF WithinLimits
  <2> QED  BY <2>2, <2>3, <2>4, <2>5
<1> QED  BY <1>1, <1>2, <1>3, <1>4, <1>5, <1>6, <1>7 DEF Next

\* The counters and the counts stay well typed, and the inductive invariant
\* holds.
THEOREM LimitsInvariant == Spec => []LimitInv
<1> QED  BY LimitInit, LimitStep, PTL DEF Spec

\* Type correctness: among others, exactly the rejected requests have a
\* Retry-After.
THEOREM LimitTypeCorrect == Spec => []TypeOK
<1>1. LimitInv => TypeOK  BY DEF LimitInv
<1> QED  BY <1>1, LimitsInvariant, PTL

LEMMA IntervalSize ==
  ASSUME NEW n \in Nat
  PROVE  IsFiniteSet(1 .. n) /\ Cardinality(1 .. n) = n
<1>1. 1 \in Int /\ n \in Int
  OBVIOUS
<1>2. IsFiniteSet(1 .. n) /\ Cardinality(1 .. n) = IF 1 > n THEN 0 ELSE n - 1 + 1
  BY <1>1, FS_Interval
<1> QED  BY <1>2

\* The counts of those let in differ and are within the limit: no more of them
\* than the limit.
LEMMA WindowFits ==
  ASSUME LimitInv, NEW c \in Clients, NEW w \in Windows, NEW end
  PROVE  /\ IsFiniteSet(Admitted(c, w, end))
         /\ Cardinality(Admitted(c, w, end)) \in Nat
         /\ Cardinality(Admitted(c, w, end)) <= Limit[c][w]
<1> USE DEF LimitInv
<1> DEFINE in == Admitted(c, w, end)
           made == [q \in in |-> seen[q][w].count]
<1>1. Limit[c][w] \in Nat
  BY RateLimitAssumption
<1>2. \A q \in in : /\ q \in Requests /\ client[q] = {c} /\ stage[q] = "allowed"
                   /\ seen[q][w].count \in Nat /\ seen[q][w].count > 0
                   /\ seen[q][w].until = end
  BY DEF Admitted, TypeOK
<1>3. made \in [in -> 1 .. Limit[c][w]]
  BY <1>1, <1>2 DEF WithinLimits
<1>4. \A q, p \in in : made[q] = made[p] => q = p
  BY <1>1, <1>2 DEF CountsDiffer
<1>5. made \in Injection(in, 1 .. Limit[c][w])
  <2>1. DOMAIN made = in  OBVIOUS
  <2> HIDE DEF made
  <2>2. IsInjective(made)  BY <1>4, <2>1 DEF IsInjective
  <2> QED  BY <1>3, <2>2 DEF Injection
<1> HIDE DEF made
<1>6. IsFiniteSet(1 .. Limit[c][w]) /\ Cardinality(1 .. Limit[c][w]) = Limit[c][w]
  BY <1>1, IntervalSize
<1>7. IsFiniteSet(in) /\ Cardinality(in) <= Cardinality(1 .. Limit[c][w])
  BY <1>5, <1>6, FS_Injection
<1> QED  BY <1>6, <1>7, FS_CardinalityType

\* RateLimitService.check: no window lets more requests in than its limit,
\* however requests overlap and whenever Redis fails.
THEOREM WindowsRespected == Spec => []WindowRespected
<1>1. LimitInv => WindowRespected
  BY WindowFits DEF WindowRespected, LimitInv, TypeOK
<1> QED  BY <1>1, LimitsInvariant, PTL

-----------------------------------------------------------------------------
(* Windows in time.  What a request counted is at a moment of its window, and *)
(* the windows of a counter do not overlap.                                   *)

Counted(r, c, w) == client[r] = {c} /\ seen[r][w].count > 0

\* The window that ends at a and the one that ends at b are one, or apart.
Apart(a, b, w) == a = b \/ a + Length[w] <= b \/ b + Length[w] <= a

Placed ==
  /\ \A c \in Clients, w \in Windows : counter[c][w].until <= now + Length[w]
  /\ \A r \in Requests, c \in Clients, w \in Windows : Counted(r, c, w) =>
       /\ seen[r][w].at <= now
       /\ seen[r][w].at < seen[r][w].until
       /\ seen[r][w].until <= seen[r][w].at + Length[w]
       /\ \/ seen[r][w].until = counter[c][w].until
          \/ seen[r][w].until + Length[w] <= counter[c][w].until
  /\ \A r, q \in Requests, c \in Clients, w \in Windows :
       Counted(r, c, w) /\ Counted(q, c, w) => Apart(seen[r][w].until, seen[q][w].until, w)

\* Request q made count n of the window of c that ends at end, before moment t.
Made(q, c, w, n, end, t) ==
  Counted(q, c, w) /\ seen[q][w].count = n /\ seen[q][w].until = end /\ seen[q][w].at <= t

\* Nothing but requests of its client makes a counter grow.
Preceded ==
  /\ \A c \in Clients, w \in Windows : \A n \in 1 .. counter[c][w].count :
       \E q \in Requests : Made(q, c, w, n, counter[c][w].until, now)
  /\ \A r \in Requests, c \in Clients, w \in Windows : Counted(r, c, w) =>
       \A n \in 1 .. seen[r][w].count :
         \E q \in Requests : Made(q, c, w, n, seen[r][w].until, seen[r][w].at)

\* A rejected request has exceeded a limit, and was told to wait for its window.
Exceeded(r, c) ==
  LET w == RejectedFor(r, c) IN
  /\ Exceeds(c, w, seen[r][w])
  /\ 2 * (seen[r][w].until - retryAt[r]) <= TicksPerSecond

Judged == \A r \in Requests : \A c \in client[r] : stage[r] = "rejected" => Exceeded(r, c)

TimeInv == LimitInv /\ Placed /\ Preceded /\ Judged

\* A step that counts: request r makes its first count in window w of c.
Counts(r, c, w) ==
  /\ CountIn(r, c, w) /\ now' = now
  /\ seen[r][w].count = 0 /\ client[r] \subseteq {c} /\ client'[r] = {c}
  /\ \A q \in Requests \ {r} : client'[q] = client[q]

\* A step that does not.
Waits ==
  /\ UNCHANGED <<counter, seen>> /\ now' \in Nat /\ now' >= now
  /\ \A q \in Requests, c \in Clients, w \in Windows : Counted(q, c, w)' <=> Counted(q, c, w)

\* Every step is of one of the two kinds.
LEMMA StepKinds ==
  ASSUME LimitInv, [Next]_vars
  PROVE  Waits \/ \E r \in Requests, c \in Clients, w \in Windows : Counts(r, c, w)
<1> DEFINE Goal == Waits \/ \E r \in Requests, c \in Clients, w \in Windows : Counts(r, c, w)
<1>1. TypeOK /\ Arrival  BY DEF LimitInv
<1>2. "minute" \in Windows /\ "day" \in Windows /\ Keys \subseteq Clients /\ Ips \subseteq Clients
  BY DEF Windows, Clients
<1>3. ASSUME NEW r \in Requests, NEW c \in Clients, NEW w \in Windows, CountIn(r, c, w),
             client' = [client EXCEPT ![r] = {c}], client[r] \subseteq {c},
             seen[r][w].count = 0, now' = now
      PROVE  Goal
  <2>1. client'[r] = {c} /\ \A q \in Requests \ {r} : client'[q] = client[q]
    BY <1>1, <1>3 DEF TypeOK
  <2> QED  BY <1>3, <2>1 DEF Counts
<1>4. ASSUME NEW r \in Requests, CountMinute(r) PROVE Goal
  <2>1. PICK c \in Keys : CountIn(r, c, "minute") /\ client' = [client EXCEPT ![r] = {c}]
    BY <1>4 DEF CountMinute
  <2>2. client[r] = {} /\ seen[r]["minute"].count = 0 /\ now' = now
    BY <1>1, <1>2, <1>4 DEF CountMinute, Arrival
  <2> QED  BY <1>2, <1>3, <2>1, <2>2
<1>5. ASSUME NEW r \in Requests, CountLogin(r) PROVE Goal
  <2>1. PICK c \in Ips : CountIn(r, c, "minute") /\ client' = [client EXCEPT ![r] = {c}]
    BY <1>5 DEF CountLogin
  <2>2. client[r] = {} /\ seen[r]["minute"].count = 0 /\ now' = now
    BY <1>1, <1>2, <1>5 DEF CountLogin, Arrival
  <2> QED  BY <1>2, <1>3, <2>1, <2>2
<1>6. ASSUME NEW r \in Requests, CountDay(r) PROVE Goal
  <2>1. PICK c \in client[r] : CountIn(r, c, "day")
    BY <1>6 DEF CountDay
  <2>2. stage[r] = "day" /\ client' = client /\ now' = now
    BY <1>6 DEF CountDay
  <2>3. c \in Clients /\ client[r] = {c} /\ seen[r]["day"].count = 0
    BY <1>1, <2>1, <2>2 DEF Arrival
  <2>4. client' = [client EXCEPT ![r] = {c}]
    BY <1>1, <2>2, <2>3 DEF TypeOK
  <2> QED  BY <1>2, <1>3, <2>1, <2>2, <2>3, <2>4
<1>7. ASSUME NEW r \in Requests, NEW c \in Clients, NEW w \in Windows, RedisFails(r, c, w),
             client[r] \subseteq {c}, seen[r][w].count = 0,
             client[r] = {c} \/ \A v \in Windows : seen[r][v].count = 0
      PROVE  Goal
  <2>1. client' = [client EXCEPT ![r] = {c}] /\ now' = now
    BY <1>7 DEF RedisFails
  <2>2. CASE CountIn(r, c, w)
    BY <1>3, <1>7, <2>1, <2>2
  <2>3. CASE UNCHANGED <<counter, seen>>
    <3>1. \A q \in Requests : client'[q] = IF q = r THEN {c} ELSE client[q]
      BY <1>1, <2>1 DEF TypeOK
    <3>2. \A q \in Requests, d \in Clients, v \in Windows :
            Counted(q, d, v)' <=> Counted(q, d, v)
      BY <1>7, <2>3, <3>1 DEF Counted
    <3> QED  BY <1>1, <2>1, <2>3, <3>2 DEF Waits, TypeOK
  <2> QED  BY <1>7, <2>2, <2>3 DEF RedisFails
<1>8. ASSUME NEW r \in Requests, FirstFails(r) PROVE Goal
  <2>1. PICK c \in Clients : RedisFails(r, c, "minute")
    BY <1>8 DEF FirstFails
  <2>2. client[r] = {} /\ \A v \in Windows : seen[r][v].count = 0
    BY <1>1, <1>8 DEF FirstFails, Arrival
  <2> QED  BY <1>2, <1>7, <2>1, <2>2
<1>9. ASSUME NEW r \in Requests, SecondFails(r) PROVE Goal
  <2>1. PICK c \in client[r] : RedisFails(r, c, "day")
    BY <1>9 DEF SecondFails
  <2>2. stage[r] = "day"
    BY <1>9 DEF SecondFails
  <2>3. c \in Clients /\ client[r] = {c} /\ seen[r]["day"].count = 0
    BY <1>1, <2>1, <2>2 DEF Arrival
  <2> QED  BY <1>2, <1>7, <2>1, <2>3
<1>10. CASE Tick \/ UNCHANGED vars
  <2>1. UNCHANGED <<counter, seen, client>> /\ now' \in Nat /\ now' >= now
    BY <1>1, <1>10 DEF Tick, vars, TypeOK
  <2> QED  BY <2>1 DEF Waits, Counted
<1> QED  BY <1>4, <1>5, <1>6, <1>8, <1>9, <1>10 DEF Next

\* What a count does to the counter, and what the others keep.
LEMMA CountEffect ==
  ASSUME TypeOK, Arrival, NEW r \in Requests, NEW c \in Clients, NEW w \in Windows,
         Counts(r, c, w)
  PROVE  /\ counter'[c][w].count \in Nat /\ counter'[c][w].until \in Nat
         /\ \/ /\ now < counter[c][w].until /\ counter'[c][w].until = counter[c][w].until
               /\ counter'[c][w].count = counter[c][w].count + 1
            \/ /\ now >= counter[c][w].until /\ counter'[c][w].until = now + Length[w]
               /\ counter'[c][w].count = 1
         /\ \A d \in Clients, v \in Windows : d # c \/ v # w => counter'[d][v] = counter[d][v]
         /\ seen'[r][w] = [count |-> counter'[c][w].count, until |-> counter'[c][w].until,
                           at |-> now]
         /\ \A q \in Requests, v \in Windows : q # r \/ v # w => seen'[q][v] = seen[q][v]
         /\ Counted(r, c, w)'
         /\ \A q \in Requests, d \in Clients, v \in Windows :
              Counted(q, d, v)' => (q = r /\ d = c /\ v = w)
                                   \/ (Counted(q, d, v) /\ (q # r \/ v # w))
         /\ \A q \in Requests, d \in Clients, v \in Windows :
              Counted(q, d, v) => Counted(q, d, v)' /\ (q # r \/ v # w)
<1> DEFINE next == Increment(c, w)
<1>1. /\ counter[c][w] \in [count : Nat, until : Nat] /\ now \in Nat
      /\ Length[w] \in Nat \ {0}
  BY RateLimitAssumption DEF TypeOK
<1>2. /\ next.count \in Nat /\ next.until \in Nat /\ next.count > 0
      /\ \/ /\ now < counter[c][w].until /\ next.until = counter[c][w].until
            /\ next.count = counter[c][w].count + 1
         \/ /\ now >= counter[c][w].until /\ next.until = now + Length[w]
            /\ next.count = 1
  BY <1>1 DEF Increment, Live
<1> HIDE DEF next
<1>3. /\ counter' = [counter EXCEPT ![c][w] = next]
      /\ seen' = [seen EXCEPT ![r][w] = [count |-> next.count, until |-> next.until, at |-> now]]
  BY DEF Counts, CountIn, next
<1>4. /\ counter'[c][w] = next
      /\ \A d \in Clients, v \in Windows : d # c \/ v # w => counter'[d][v] = counter[d][v]
  BY <1>3 DEF TypeOK
<1>5. /\ seen'[r][w] = [count |-> next.count, until |-> next.until, at |-> now]
      /\ \A q \in Requests, v \in Windows : q # r \/ v # w => seen'[q][v] = seen[q][v]
  BY <1>3 DEF TypeOK
<1>6. Counted(r, c, w)'
  BY <1>2, <1>5 DEF Counts, Counted
<1>7. ASSUME NEW q \in Requests, NEW d \in Clients, NEW v \in Windows, Counted(q, d, v)
      PROVE  Counted(q, d, v)' /\ (q # r \/ v # w)
  <2>1. q # r \/ v # w
    BY <1>7 DEF Counted, Counts
  <2>2. seen'[q][v] = seen[q][v]
    BY <1>5, <2>1
  <2>3. client'[q] = client[q]
    BY <1>7 DEF Counted, Counts
  <2> QED  BY <1>7, <2>1, <2>2, <2>3 DEF Counted
<1>8. ASSUME NEW q \in Requests, NEW d \in Clients, NEW v \in Windows, Counted(q, d, v)'
      PROVE  (q = r /\ d = c /\ v = w) \/ (Counted(q, d, v) /\ (q # r \/ v # w))
  <2>1. CASE q # r
    <3>1. client'[q] = client[q] /\ seen'[q][v] = seen[q][v]
      BY <1>5, <2>1 DEF Counts
    <3> QED  BY <1>8, <2>1, <3>1 DEF Counted
  <2>2. CASE q = r /\ v # w
    <3>1. d = c /\ seen[r][v].count > 0
      BY <1>5, <1>8, <2>2 DEF Counted, Counts
    <3>2. client[r] # {}
      BY <3>1 DEF Arrival
    <3>3. client[r] = {c}
      BY <3>2 DEF Counts
    <3> QED  BY <2>2, <3>1, <3>3 DEF Counted
  <2>3. CASE q = r /\ v = w
    <3>1. client'[r] = {c} /\ client'[r] = {d}
      BY <1>8, <2>3 DEF Counted, Counts
    <3>2. d = c
      BY <3>1
    <3> QED  BY <2>3, <3>2
  <2> QED  BY <2>1, <2>2, <2>3
<1> QED  BY <1>2, <1>4, <1>5, <1>6, <1>7, <1>8

\* A window opens when the one before it is over.
LEMMA CountPlaces ==
  ASSUME LimitInv, Placed, NEW r \in Requests, NEW c \in Clients, NEW w \in Windows,
         Counts(r, c, w)
  PROVE  Placed'
<1> DEFINE next == counter'[c][w]
<1>1. TypeOK /\ Arrival  BY DEF LimitInv
<1>2. /\ next.count \in Nat /\ next.until \in Nat
      /\ \/ now < counter[c][w].until /\ next.until = counter[c][w].until
         \/ now >= counter[c][w].until /\ next.until = now + Length[w]
      /\ \A d \in Clients, v \in Windows : d # c \/ v # w => counter'[d][v] = counter[d][v]
      /\ seen'[r][w] = [count |-> next.count, until |-> next.until, at |-> now]
      /\ \A q \in Requests, v \in Windows : q # r \/ v # w => seen'[q][v] = seen[q][v]
      /\ \A q \in Requests, d \in Clients, v \in Windows :
           Counted(q, d, v)' => (q = r /\ d = c /\ v = w)
                                \/ (Counted(q, d, v) /\ (q # r \/ v # w))
  BY <1>1, CountEffect DEF next
<1>3. now' = now  BY DEF Counts
<1>4. /\ now \in Nat /\ \A v \in Windows : Length[v] \in Nat /\ Length[v] > 0
      /\ \A d \in Clients, v \in Windows : counter[d][v].until \in Nat
      /\ \A q \in Requests, v \in Windows : seen[q][v].until \in Nat /\ seen[q][v].at \in Nat
  BY <1>1, RateLimitAssumption DEF TypeOK
<1>5. counter[c][w].until <= now + Length[w]  BY DEF Placed
<1> HIDE DEF next
<1>6. \A d \in Clients, v \in Windows : counter'[d][v].until <= now + Length[v]
  <2> SUFFICES ASSUME NEW d \in Clients, NEW v \in Windows
               PROVE  counter'[d][v].until <= now + Length[v]
    OBVIOUS
  <2>1. CASE d = c /\ v = w
    BY <2>1, <1>2, <1>4, <1>5 DEF next
  <2>2. CASE d # c \/ v # w
    BY <2>2, <1>2 DEF Placed
  <2> QED  BY <2>1, <2>2
<1>7. seen'[r][w].until = next.until /\ seen'[r][w].at = now  BY <1>2
\* Every count made before lies in the window that is open, or before it.
<1>8. ASSUME NEW q \in Requests, Counted(q, c, w)
      PROVE  seen[q][w].until = next.until \/ seen[q][w].until + Length[w] <= next.until
  <2>1. \/ seen[q][w].until = counter[c][w].until
        \/ seen[q][w].until + Length[w] <= counter[c][w].until
    BY <1>8 DEF Placed
  <2> QED  BY <2>1, <1>2, <1>4
<1>9. ASSUME NEW q \in Requests, NEW d \in Clients, NEW v \in Windows, Counted(q, d, v)'
      PROVE  /\ seen'[q][v].at <= now
             /\ seen'[q][v].at < seen'[q][v].until
             /\ seen'[q][v].until <= seen'[q][v].at + Length[v]
             /\ \/ seen'[q][v].until = counter'[d][v].until
                \/ seen'[q][v].until + Length[v] <= counter'[d][v].until
  <2>1. CASE q = r /\ d = c /\ v = w
    BY <2>1, <1>2, <1>4, <1>5, <1>7 DEF next
  <2>2. CASE Counted(q, d, v) /\ (q # r \/ v # w)
    <3>1. seen'[q][v] = seen[q][v]  BY <2>2, <1>2
    <3>2. CASE d = c /\ v = w
      BY <2>2, <3>1, <3>2, <1>8 DEF next, Placed
    <3>3. CASE d # c \/ v # w
      BY <2>2, <3>1, <3>3, <1>2 DEF Placed
    <3> QED  BY <3>2, <3>3
  <2> QED  BY <1>9, <1>2, <2>1, <2>2
<1>10. ASSUME NEW p \in Requests, NEW q \in Requests, NEW d \in Clients, NEW v \in Windows,
              Counted(p, d, v)', Counted(q, d, v)'
       PROVE  Apart(seen'[p][v].until, seen'[q][v].until, v)
  <2>1. CASE p = r /\ q = r /\ v = w
    BY <2>1 DEF Apart
  <2>2. CASE p = r /\ d = c /\ v = w /\ Counted(q, d, v) /\ (q # r \/ v # w)
    <3>1. seen'[q][w] = seen[q][w]  BY <2>2, <1>2
    <3> QED  BY <2>2, <3>1, <1>7, <1>8 DEF Apart
  <2>3. CASE q = r /\ d = c /\ v = w /\ Counted(p, d, v) /\ (p # r \/ v # w)
    <3>1. seen'[p][w] = seen[p][w]  BY <2>3, <1>2
    <3> QED  BY <2>3, <3>1, <1>7, <1>8 DEF Apart
  <2>4. CASE /\ Counted(p, d, v) /\ (p # r \/ v # w)
             /\ Counted(q, d, v) /\ (q # r \/ v # w)
    <3>1. seen'[p][v] = seen[p][v] /\ seen'[q][v] = seen[q][v]  BY <2>4, <1>2
    <3> QED  BY <2>4, <3>1 DEF Placed
  <2>5. /\ (p = r /\ d = c /\ v = w) \/ (Counted(p, d, v) /\ (p # r \/ v # w))
        /\ (q = r /\ d = c /\ v = w) \/ (Counted(q, d, v) /\ (q # r \/ v # w))
    BY <1>10, <1>2
  <2> QED  BY <2>1, <2>2, <2>3, <2>4, <2>5
<1> QED  BY <1>3, <1>6, <1>9, <1>10 DEF Placed, Apart

\* The counts of the open window are those of requests of the client.
LEMMA CountPrecedes ==
  ASSUME LimitInv, Placed, Preceded, NEW r \in Requests, NEW c \in Clients, NEW w \in Windows,
         Counts(r, c, w)
  PROVE  Preceded'
<1> DEFINE next == counter'[c][w]
<1>1. TypeOK /\ Arrival  BY DEF LimitInv
<1>2. /\ next.count \in Nat /\ next.until \in Nat
      /\ \/ next.until = counter[c][w].until /\ next.count = counter[c][w].count + 1
         \/ next.count = 1
      /\ \A d \in Clients, v \in Windows : d # c \/ v # w => counter'[d][v] = counter[d][v]
      /\ seen'[r][w] = [count |-> next.count, until |-> next.until, at |-> now]
      /\ \A q \in Requests, v \in Windows : q # r \/ v # w => seen'[q][v] = seen[q][v]
      /\ Counted(r, c, w)'
      /\ \A q \in Requests, d \in Clients, v \in Windows :
           Counted(q, d, v)' => (q = r /\ d = c /\ v = w)
                                \/ (Counted(q, d, v) /\ (q # r \/ v # w))
      /\ \A q \in Requests, d \in Clients, v \in Windows :
           Counted(q, d, v) => Counted(q, d, v)' /\ (q # r \/ v # w)
  BY <1>1, CountEffect DEF next
<1>3. now' = now /\ now \in Nat  BY <1>1 DEF Counts, TypeOK
<1>4. counter[c][w].count \in Nat /\ counter[c][w].until \in Nat
  BY <1>1 DEF TypeOK
<1> HIDE DEF next
\* What was made stays made.
<1>5. ASSUME NEW q \in Requests, NEW d \in Clients, NEW v \in Windows,
             NEW n, NEW end, NEW t, Made(q, d, v, n, end, t)
      PROVE  /\ Counted(q, d, v)' /\ seen'[q][v].count = n
             /\ seen'[q][v].until = end /\ seen'[q][v].at <= t
  BY <1>2, <1>5 DEF Made
<1>6. ASSUME NEW n \in 1 .. next.count
      PROVE  \E q \in Requests : /\ Counted(q, c, w)' /\ seen'[q][w].count = n
                                 /\ seen'[q][w].until = next.until /\ seen'[q][w].at <= now
  <2>1. CASE n = next.count
    <3>1. /\ seen'[r][w].count = n /\ seen'[r][w].until = next.until
          /\ seen'[r][w].at = now
      BY <1>2, <2>1
    <3> QED  BY <1>2, <1>3, <3>1
  <2>2. CASE n # next.count
    <3>1. n \in 1 .. counter[c][w].count /\ next.until = counter[c][w].until
      BY <1>2, <1>4, <2>2
    <3>2. PICK q \in Requests : Made(q, c, w, n, counter[c][w].until, now)
      BY <3>1 DEF Preceded
    <3> QED  BY <3>1, <3>2, <1>5
  <2> QED  BY <2>1, <2>2
<1>7. ASSUME NEW d \in Clients, NEW v \in Windows, NEW n \in 1 .. counter'[d][v].count
      PROVE  \E q \in Requests :
               /\ Counted(q, d, v)' /\ seen'[q][v].count = n
               /\ seen'[q][v].until = counter'[d][v].until /\ seen'[q][v].at <= now
  <2>1. CASE d = c /\ v = w
    BY <2>1, <1>6, <1>7 DEF next
  <2>2. CASE d # c \/ v # w
    <3>1. counter'[d][v] = counter[d][v]  BY <2>2, <1>2
    <3>2. PICK q \in Requests : Made(q, d, v, n, counter[d][v].until, now)
      BY <3>1, <1>7 DEF Preceded
    <3> QED  BY <3>1, <3>2, <1>5
  <2> QED  BY <2>1, <2>2
<1>8. ASSUME NEW p \in Requests, NEW d \in Clients, NEW v \in Windows, Counted(p, d, v)',
             NEW n \in 1 .. seen'[p][v].count
      PROVE  \E q \in Requests :
               /\ Counted(q, d, v)' /\ seen'[q][v].count = n
               /\ seen'[q][v].until = seen'[p][v].until /\ seen'[q][v].at <= seen'[p][v].at
  <2>1. CASE p = r /\ d = c /\ v = w
    <3>1. /\ seen'[p][v].count = next.count /\ seen'[p][v].until = next.until
          /\ seen'[p][v].at = now
      BY <2>1, <1>2
    <3> QED  BY <2>1, <3>1, <1>6, <1>8
  <2>2. CASE Counted(p, d, v) /\ (p # r \/ v # w)
    <3>1. seen'[p][v] = seen[p][v]  BY <2>2, <1>2
    <3>2. PICK q \in Requests : Made(q, d, v, n, seen[p][v].until, seen[p][v].at)
      BY <2>2, <3>1, <1>8 DEF Preceded
    <3> QED  BY <3>1, <3>2, <1>5
  <2> QED  BY <1>2, <1>8, <2>1, <2>2
<1> QED  BY <1>3, <1>7, <1>8 DEF Preceded, Made

\* Time passes, and nothing that was counted changes.
LEMMA WaitKeeps ==
  ASSUME LimitInv, Placed, Preceded, Waits
  PROVE  Placed' /\ Preceded'
<1>1. /\ counter' = counter /\ seen' = seen /\ now' \in Nat /\ now' >= now /\ now \in Nat
      /\ \A q \in Requests, c \in Clients, w \in Windows : Counted(q, c, w)' <=> Counted(q, c, w)
  BY DEF Waits, LimitInv, TypeOK
<1>2. /\ \A w \in Windows : Length[w] \in Nat
      /\ \A c \in Clients, w \in Windows : counter[c][w].until \in Nat
      /\ \A q \in Requests, w \in Windows : seen[q][w].at \in Nat
  BY RateLimitAssumption DEF LimitInv, TypeOK
<1>3. Placed'
  <2>1. \A c \in Clients, w \in Windows : counter[c][w].until <= now' + Length[w]
    BY <1>1, <1>2 DEF Placed
  <2>2. \A q \in Requests, c \in Clients, w \in Windows :
          Counted(q, c, w) => seen[q][w].at <= now'
    BY <1>1, <1>2 DEF Placed
  <2> QED  BY <1>1, <2>1, <2>2 DEF Placed, Apart
<1>4. ASSUME NEW c \in Clients, NEW w \in Windows, NEW n \in 1 .. counter[c][w].count
      PROVE  \E q \in Requests : Made(q, c, w, n, counter[c][w].until, now')
  <2>1. PICK q \in Requests : Made(q, c, w, n, counter[c][w].until, now)
    BY <1>4 DEF Preceded
  <2> QED  BY <1>1, <1>2, <2>1 DEF Made
<1>5. Preceded'
  BY <1>1, <1>4 DEF Preceded, Made
<1> QED  BY <1>3, <1>5

-----------------------------------------------------------------------------
(* Retry-After. *)

\* Rounding to seconds takes away at most half a second.
LEMMA SecondsNear ==
  ASSUME NEW ticks \in Int
  PROVE  /\ Seconds(ticks) \in Int
         /\ 2 * (ticks - TicksPerSecond * Seconds(ticks)) <= TicksPerSecond
<1> DEFINE double == 2 * TicksPerSecond
           sum == 2 * ticks + TicksPerSecond
           quotient == sum \div double
<1>1. TicksPerSecond \in Nat \ {0} /\ double \in Nat \ {0} /\ sum \in Int
  BY RateLimitAssumption
<1> HIDE DEF double, sum
<1>2. quotient \in Int /\ sum < double * quotient + double
  BY <1>1
<1> HIDE DEF quotient
<1>3. double * quotient = 2 * (TicksPerSecond * quotient) /\ TicksPerSecond * quotient \in Int
  BY <1>1, <1>2 DEF double
<1>4. Seconds(ticks) = quotient
  BY DEF Seconds, quotient, sum, double
<1> DEFINE product == TicksPerSecond * quotient
<1> HIDE DEF product
<1>5. 2 * ticks + TicksPerSecond < 2 * product + 2 * TicksPerSecond /\ product \in Int
  BY <1>2, <1>3 DEF product, sum, double
<1>6. 2 * (ticks - product) <= TicksPerSecond
  BY <1>1, <1>5
<1> QED  BY <1>2, <1>4, <1>6 DEF product

\* The judgement of a count whose moment is not in the future.
LEMMA JudgedNear ==
  ASSUME NEW t \in Nat, NEW count \in [count : Nat, until : Nat, at : Nat], count.at <= t
  PROVE  2 * (count.until - (t + TicksPerSecond * RetryAfter(count))) <= TicksPerSecond
<1> DEFINE ticks == count.until - count.at
           least == TicksPerSecond * Seconds(ticks)
           wait == TicksPerSecond * RetryAfter(count)
<1>1. ticks \in Int /\ Seconds(ticks) \in Int /\ 2 * (ticks - least) <= TicksPerSecond
  BY SecondsNear
<1>2. RetryAfter(count) \in Int /\ RetryAfter(count) >= Seconds(ticks)
  BY <1>1, RetryAfterPositive DEF RetryAfter, Later
<1>3. TicksPerSecond \in Nat
  BY RateLimitAssumption
<1>4. least \in Int /\ wait \in Int /\ wait >= least
  <2> DEFINE a == RetryAfter(count)
             b == Seconds(ticks)
  <2>1. a \in Int /\ b \in Int /\ a >= b
    BY <1>1, <1>2
  <2> HIDE DEF a, b
  <2>2. TicksPerSecond * a >= TicksPerSecond * b
    BY <1>3, <2>1
  <2> QED  BY <1>3, <2>1, <2>2 DEF a, b
<1> HIDE DEF least, wait
<1>5. 2 * (count.until - (t + wait)) <= TicksPerSecond
  BY <1>1, <1>3, <1>4
<1> QED  BY <1>5 DEF wait

\* Request r ends, and everybody else's judgement stays.
LEMMA JudgedKeeps ==
  ASSUME LimitInv, Placed, Placed', Judged, NEW r \in Requests, NEW c \in Clients,
         TypeOK', client'[r] = {c}, now' = now,
         stage'[r] = "rejected" =>
           /\ Counted(r, c, RejectedFor(r, c))'
           /\ RejectedFor(r, c)' \in Windows
           /\ Exceeds(c, RejectedFor(r, c)', seen'[r][RejectedFor(r, c)'])
           /\ retryAt'[r] = now + TicksPerSecond * RetryAfter(seen'[r][RejectedFor(r, c)']),
         \A q \in Requests \ {r} : /\ stage'[q] = stage[q] /\ client'[q] = client[q]
                                   /\ retryAt'[q] = retryAt[q]
                                   /\ \A w \in Windows : seen'[q][w] = seen[q][w]
  PROVE  Judged'
<1> SUFFICES ASSUME NEW q \in Requests, NEW d \in client'[q], stage'[q] = "rejected"
             PROVE  Exceeded(q, d)'
  BY DEF Judged
<1>1. CASE q = r
  <2> DEFINE w == RejectedFor(r, c)'
  <2>1. d = c
    BY <1>1
  <2>2. w \in Windows /\ Counted(r, c, RejectedFor(r, c))'
    BY <1>1
  <2>3. seen'[r][w] \in [count : Nat, until : Nat, at : Nat] /\ now \in Nat
    BY <2>2 DEF TypeOK, LimitInv
  <2>4. seen'[r][w].at <= now
    <3>1. client'[r] = {c} /\ seen'[r][w].count > 0
      BY <2>2 DEF Counted
    <3> QED  BY <2>2, <3>1 DEF Placed, Counted
  <2>5. retryAt'[r] = now + TicksPerSecond * RetryAfter(seen'[r][w])
    BY <1>1
  <2>6. Exceeds(c, w, seen'[r][w])
    BY <1>1
  <2>7. 2 * (seen'[r][w].until - retryAt'[r]) <= TicksPerSecond
    BY <2>3, <2>4, <2>5, JudgedNear
  <2> QED  BY <1>1, <2>1, <2>6, <2>7 DEF Exceeded, Exceeds
<1>2. CASE q # r
  <2>1. RejectedFor(q, d)' = RejectedFor(q, d) /\ RejectedFor(q, d) \in Windows
    BY <1>2 DEF RejectedFor, Windows, Exceeds
  <2>2. d \in client[q] /\ stage[q] = "rejected"
    BY <1>2
  <2>3. seen'[q][RejectedFor(q, d)] = seen[q][RejectedFor(q, d)] /\ retryAt'[q] = retryAt[q]
    BY <1>2, <2>1
  <2> QED  BY <1>2, <2>1, <2>2, <2>3 DEF Judged, Exceeded, Exceeds
<1> QED  BY <1>1, <1>2

\* What a count and a judgement by the same request leave.
LEMMA JudgementKeeps ==
  ASSUME TimeInv, Placed', TypeOK', NEW r \in Requests, NEW c \in Clients, NEW v \in Windows,
         CountIn(r, c, v), client' = [client EXCEPT ![r] = {c}], now' = now,
         \/ /\ Exceeds(c, "minute", seen'[r]["minute"])
            /\ Reject(r, "minute")
         \/ /\ ~Exceeds(c, "minute", seen'[r]["minute"])
            /\ Exceeds(c, "day", seen'[r]["day"]) /\ Reject(r, "day")
         \/ Allow(r)
  PROVE  Judged'
<1>1. LimitInv /\ Placed /\ Judged /\ TypeOK
  BY DEF TimeInv, LimitInv
<1>2. /\ client'[r] = {c} /\ \A q \in Requests \ {r} : client'[q] = client[q]
      /\ \A q \in Requests \ {r}, w \in Windows : seen'[q][w] = seen[q][w]
  BY <1>1 DEF TypeOK, CountIn
<1>3. \A q \in Requests \ {r} : stage'[q] = stage[q] /\ retryAt'[q] = retryAt[q]
  BY <1>1 DEF TypeOK, Reject, Allow
<1>4. ASSUME NEW w \in Windows, Exceeds(c, w, seen'[r][w])
      PROVE  Counted(r, c, w)'
  <2>1. Limit[c][w] \in Nat /\ seen'[r][w].count \in Nat
    BY RateLimitAssumption DEF TypeOK
  <2> QED  BY <1>2, <1>4, <2>1 DEF Exceeds, Counted
<1>5. ASSUME stage'[r] = "rejected"
      PROVE  /\ Exceeds(c, RejectedFor(r, c)', seen'[r][RejectedFor(r, c)'])
             /\ Counted(r, c, RejectedFor(r, c))' /\ RejectedFor(r, c)' \in Windows
             /\ retryAt'[r] = now + TicksPerSecond * RetryAfter(seen'[r][RejectedFor(r, c)'])
  <2>1. CASE Exceeds(c, "minute", seen'[r]["minute"]) /\ Reject(r, "minute")
    <3>1. RejectedFor(r, c)' = "minute"
      BY <2>1 DEF RejectedFor, Exceeds
    <3>2. retryAt'[r] = now + TicksPerSecond * RetryAfter(seen'[r]["minute"])
      BY <1>1, <2>1 DEF Reject, TypeOK
    <3>3. Counted(r, c, "minute")'
      BY <1>4, <2>1 DEF Windows
    <3>4. Exceeds(c, RejectedFor(r, c)', seen'[r][RejectedFor(r, c)'])
      BY <2>1, <3>1 DEF Exceeds
    <3> QED  BY <3>1, <3>2, <3>3, <3>4 DEF Windows, Counted
  <2>2. CASE /\ ~Exceeds(c, "minute", seen'[r]["minute"])
             /\ Exceeds(c, "day", seen'[r]["day"]) /\ Reject(r, "day")
    <3>1. RejectedFor(r, c)' = "day"
      BY <2>2 DEF RejectedFor, Exceeds
    <3>2. retryAt'[r] = now + TicksPerSecond * RetryAfter(seen'[r]["day"])
      BY <1>1, <2>2 DEF Reject, TypeOK
    <3>3. Counted(r, c, "day")'
      BY <1>4, <2>2 DEF Windows
    <3>4. Exceeds(c, RejectedFor(r, c)', seen'[r][RejectedFor(r, c)'])
      BY <2>2, <3>1 DEF Exceeds
    <3> QED  BY <3>1, <3>2, <3>3, <3>4 DEF Windows, Counted
  <2>3. CASE Allow(r)
    BY <1>1, <1>5, <2>3 DEF Allow, TypeOK
  <2> QED  BY <2>1, <2>2, <2>3
<1> QED  BY <1>1, <1>2, <1>3, <1>5, JudgedKeeps

\* A step that leaves the rejected requests and what they know alone.
LEMMA RetryStays ==
  ASSUME TypeOK, Judged,
         \A q \in Requests :
           stage'[q] = "rejected" => /\ stage[q] = "rejected" /\ client'[q] = client[q]
                                     /\ retryAt'[q] = retryAt[q]
                                     /\ \A w \in Windows : seen'[q][w] = seen[q][w]
  PROVE  Judged'
<1> SUFFICES ASSUME NEW q \in Requests, NEW d \in client'[q], stage'[q] = "rejected"
             PROVE  Exceeded(q, d)'
  BY DEF Judged
<1>1. RejectedFor(q, d)' = RejectedFor(q, d) /\ RejectedFor(q, d) \in Windows
  BY DEF RejectedFor, Windows, Exceeds
<1>2. /\ d \in client[q] /\ stage[q] = "rejected" /\ retryAt'[q] = retryAt[q]
      /\ seen'[q][RejectedFor(q, d)] = seen[q][RejectedFor(q, d)]
  BY <1>1
<1> QED  BY <1>1, <1>2 DEF Judged, Exceeded, Exceeds

LEMMA RetryStep ==
  ASSUME TimeInv, [Next]_vars, Placed', LimitInv'
  PROVE  Judged'
<1>1. /\ LimitInv /\ TypeOK /\ Arrival /\ Judged /\ TypeOK'
      /\ "minute" \in Windows /\ "day" \in Windows
  BY DEF TimeInv, LimitInv, Windows
<1>2. ASSUME NEW r \in Requests, CountDay(r) PROVE Judged'
  <2>1. PICK c \in client[r] :
          /\ CountIn(r, c, "day")
          /\ \/ Exceeds(c, "minute", seen'[r]["minute"]) /\ Reject(r, "minute")
             \/ /\ ~Exceeds(c, "minute", seen'[r]["minute"])
                /\ Exceeds(c, "day", seen'[r]["day"]) /\ Reject(r, "day")
             \/ /\ ~Exceeds(c, "minute", seen'[r]["minute"])
                /\ ~Exceeds(c, "day", seen'[r]["day"]) /\ Allow(r)
    BY <1>2 DEF CountDay
  <2>2. c \in Clients /\ client[r] = {c} /\ client' = client /\ now' = now
    BY <1>1, <1>2, <2>1 DEF CountDay, Arrival
  <2>3. client' = [client EXCEPT ![r] = {c}]
    BY <1>1, <2>2 DEF TypeOK
  <2> QED  BY <1>1, <2>1, <2>2, <2>3, JudgementKeeps
<1>3. ASSUME NEW r \in Requests, CountLogin(r) PROVE Judged'
  <2>1. PICK c \in Ips :
          /\ CountIn(r, c, "minute") /\ client' = [client EXCEPT ![r] = {c}]
          /\ IF Exceeds(c, "minute", seen'[r]["minute"]) THEN Reject(r, "minute") ELSE Allow(r)
    BY <1>3 DEF CountLogin
  <2>2. c \in Clients /\ now' = now
    BY <1>3 DEF CountLogin, Clients
  <2> QED  BY <1>1, <2>1, <2>2, JudgementKeeps
<1>4. ASSUME NEW r \in Requests, CountMinute(r) PROVE Judged'
  <2>1. /\ \A q \in Requests : stage'[q] = IF q = r THEN "day" ELSE stage[q]
        /\ \A q \in Requests \ {r} :
             client'[q] = client[q] /\ \A w \in Windows : seen'[q][w] = seen[q][w]
        /\ retryAt' = retryAt
    BY <1>1, <1>4 DEF CountMinute, CountIn, TypeOK
  <2> QED  BY <1>1, <2>1, RetryStays
<1>5. ASSUME NEW r \in Requests, NEW c \in Clients, NEW w \in Windows, RedisFails(r, c, w)
      PROVE  Judged'
  <2>1. /\ \A q \in Requests \ {r} :
             /\ stage'[q] = stage[q] /\ client'[q] = client[q]
             /\ \A v \in Windows : seen'[q][v] = seen[q][v]
        /\ stage'[r] # "rejected" /\ retryAt' = retryAt
    BY <1>1, <1>5 DEF RedisFails, CountIn, TypeOK
  <2> QED  BY <1>1, <2>1, RetryStays
<1>6. ASSUME NEW r \in Requests, FirstFails(r) \/ SecondFails(r) PROVE Judged'
  BY <1>1, <1>5, <1>6 DEF FirstFails, SecondFails, TypeOK
<1>7. CASE Tick \/ UNCHANGED vars
  <2>1. UNCHANGED <<stage, client, seen, retryAt>>
    BY <1>7 DEF Tick, vars
  <2> QED  BY <1>1, <2>1, RetryStays
<1> QED  BY <1>2, <1>3, <1>4, <1>6, <1>7 DEF Next

LEMMA TimeInit == Init => TimeInv
<1> SUFFICES ASSUME Init PROVE TimeInv
  OBVIOUS
<1>1. LimitInv
  BY LimitInit
<1>2. /\ \A r \in Requests : stage[r] = "idle" /\ client[r] = {}
      /\ \A c \in Clients, w \in Windows : counter[c][w].count = 0 /\ counter[c][w].until = 0
      /\ now = 0
  BY DEF Init
<1>3. Placed
  <2>1. \A w \in Windows : Length[w] \in Nat
    BY RateLimitAssumption
  <2>2. \A c \in Clients, w \in Windows : counter[c][w].until <= now + Length[w]
    BY <1>2, <2>1
  <2>3. \A r \in Requests, c \in Clients, w \in Windows : ~Counted(r, c, w)
    BY <1>2 DEF Counted
  <2> QED  BY <2>2, <2>3 DEF Placed
<1>4. Preceded
  BY <1>2 DEF Preceded, Counted
<1>5. Judged
  BY <1>2 DEF Judged
<1> QED  BY <1>1, <1>3, <1>4, <1>5 DEF TimeInv

LEMMA TimeStep == TimeInv /\ [Next]_vars => TimeInv'
<1> SUFFICES ASSUME TimeInv, [Next]_vars PROVE TimeInv'
  OBVIOUS
<1>1. LimitInv /\ LimitInv'
  BY LimitStep DEF TimeInv
<1>2. Placed' /\ Preceded'
  <2>1. CASE Waits
    BY <1>1, <2>1, WaitKeeps DEF TimeInv
  <2>2. ASSUME NEW r \in Requests, NEW c \in Clients, NEW w \in Windows, Counts(r, c, w)
        PROVE  Placed' /\ Preceded'
    BY <1>1, <2>2, CountPlaces, CountPrecedes DEF TimeInv
  <2> QED  BY <1>1, <2>1, <2>2, StepKinds
<1>3. Judged'
  BY <1>1, <1>2, RetryStep
<1> QED  BY <1>1, <1>2, <1>3 DEF TimeInv

\* What is counted lies in its window, and who is rejected exceeded a limit.
LEMMA TimeInvariant == Spec => []TimeInv
<1> QED  BY TimeInit, TimeStep, PTL DEF Spec

\* Retry-After is never more than half a second short of the end of the window
\* the request was rejected for, whatever TTL rounds.
THEOREM RetryAfterIsNear == Spec => []RetryAfterNear
<1>1. TimeInv => RetryAfterNear
  BY DEF TimeInv, Judged, Exceeded, RetryAfterNear
<1> QED  BY <1>1, TimeInvariant, PTL

-----------------------------------------------------------------------------
(* How many requests a window lets in, and how many a rejection takes. *)

\* RateLimitService.check: whoever is rejected had its limit, in the last
\* window's length, for any finite number of requests.
THEOREM RejectionHasCause ==
  ASSUME IsFiniteSet(Requests)
  PROVE  Spec => []RejectedForCause
<1>1. ASSUME TimeInv, NEW r \in Requests, NEW c \in client[r], stage[r] = "rejected"
      PROVE  LET w == RejectedFor(r, c) IN
             Cardinality({q \in Requests \ {r} :
                            /\ client[q] = {c} /\ seen[q][w].count > 0
                            /\ seen[q][w].at <= seen[r][w].at
                            /\ seen[q][w].at > seen[r][w].at - Length[w]}) >= Limit[c][w]
  <2> DEFINE w == RejectedFor(r, c)
             before == {q \in Requests \ {r} :
                          /\ client[q] = {c} /\ seen[q][w].count > 0
                          /\ seen[q][w].at <= seen[r][w].at
                          /\ seen[q][w].at > seen[r][w].at - Length[w]}
             at(n) == CHOOSE q \in Requests :
                        Made(q, c, w, n, seen[r][w].until, seen[r][w].at)
             makers == [n \in 1 .. Limit[c][w] |-> at(n)]
  <2>1. /\ w \in Windows /\ c \in Clients /\ client[r] = {c}
        /\ Limit[c][w] \in Nat /\ Length[w] \in Nat
        /\ seen[r][w] \in [count : Nat, until : Nat, at : Nat]
    <3>1. w \in Windows
      BY DEF RejectedFor, Windows
    <3>2. c \in Clients /\ client[r] = {c}
      BY <1>1 DEF TimeInv, LimitInv, TypeOK, Arrival
    <3> HIDE DEF w
    <3>3. seen[r][w] \in [count : Nat, until : Nat, at : Nat]
      BY <1>1, <3>1 DEF TimeInv, LimitInv, TypeOK
    <3> QED  BY <3>1, <3>2, <3>3, RateLimitAssumption
  <2>2. seen[r][w].count > Limit[c][w]
    BY <1>1 DEF TimeInv, Judged, Exceeded, Exceeds
  <2>3. Counted(r, c, w)
    BY <2>1, <2>2 DEF Counted
  <2> HIDE DEF w
  <2>4. ASSUME NEW n \in 1 .. Limit[c][w]
        PROVE  at(n) \in before /\ seen[at(n)][w].count = n
    <3>1. n \in 1 .. seen[r][w].count
      BY <2>1, <2>2, <2>4
    <3>2. \E q \in Requests : Made(q, c, w, n, seen[r][w].until, seen[r][w].at)
      BY <1>1, <2>1, <2>3, <3>1 DEF TimeInv, Preceded
    <3>3. at(n) \in Requests /\ Made(at(n), c, w, n, seen[r][w].until, seen[r][w].at)
      BY <3>2
    <3> HIDE DEF at
    <3>4. at(n) # r
      BY <2>1, <2>2, <2>4, <3>3 DEF Made
    <3>5. /\ seen[at(n)][w] \in [count : Nat, until : Nat, at : Nat]
          /\ seen[r][w].at < seen[r][w].until
          /\ seen[at(n)][w].until <= seen[at(n)][w].at + Length[w]
      BY <1>1, <2>1, <2>3, <3>3 DEF TimeInv, LimitInv, TypeOK, Placed, Made
    <3>6. seen[at(n)][w].at > seen[r][w].at - Length[w]
      BY <2>1, <3>3, <3>5 DEF Made
    <3> QED  BY <3>3, <3>4, <3>6 DEF Made, Counted
  <2> HIDE DEF at
  <2>5. IsFiniteSet(before)
    BY FS_Subset
  <2> HIDE DEF before
  <2>6. makers \in [1 .. Limit[c][w] -> before]
    BY <2>4
  <2>7. \A n, k \in 1 .. Limit[c][w] : makers[n] = makers[k] => n = k
    BY <2>4
  <2>8. makers \in Injection(1 .. Limit[c][w], before)
    <3>1. DOMAIN makers = 1 .. Limit[c][w]
      OBVIOUS
    <3> HIDE DEF makers
    <3>2. IsInjective(makers)
      BY <2>7, <3>1 DEF IsInjective
    <3> QED  BY <2>6, <3>2 DEF Injection
  <2>9. Cardinality(1 .. Limit[c][w]) <= Cardinality(before)
    BY <2>5, <2>8, FS_Injection
  <2>10. Cardinality(1 .. Limit[c][w]) = Limit[c][w] /\ Cardinality(before) \in Nat
    BY <2>1, <2>5, IntervalSize, FS_CardinalityType
  <2>11. Cardinality(before) >= Limit[c][w]
    BY <2>1, <2>9, <2>10
  <2> QED  BY <2>11 DEF before, w
<1>2. TimeInv => RejectedForCause
  BY <1>1 DEF RejectedForCause
<1> QED  BY <1>2, TimeInvariant, PTL

\* Of three windows of a counter, one lies between the two others: no interval
\* of a window's length reaches into all three.
LEMMA TwoWindows ==
  ASSUME TimeInv, NEW c \in Clients, NEW w \in Windows, NEW start \in Nat,
         NEW p \in Requests, NEW q \in Requests, NEW r \in Requests,
         Counted(p, c, w), Counted(q, c, w), Counted(r, c, w),
         \A x \in {p, q, r} : seen[x][w].at >= start /\ seen[x][w].at < start + Length[w],
         seen[p][w].until # seen[q][w].until
  PROVE  seen[r][w].until \in {seen[p][w].until, seen[q][w].until}
<1>1. Length[w] \in Nat /\ Length[w] > 0
  BY RateLimitAssumption
<1>2. \A x \in {p, q, r} : /\ seen[x][w].at \in Nat /\ seen[x][w].until \in Nat
                           /\ seen[x][w].at < seen[x][w].until
                           /\ seen[x][w].until <= seen[x][w].at + Length[w]
  BY DEF TimeInv, LimitInv, TypeOK, Placed
<1>3. /\ Apart(seen[p][w].until, seen[q][w].until, w)
      /\ Apart(seen[p][w].until, seen[r][w].until, w)
      /\ Apart(seen[q][w].until, seen[r][w].until, w)
  BY DEF TimeInv, Placed
<1> QED  BY <1>1, <1>2, <1>3 DEF Apart

\* A client gets at most twice its limit in any interval of a window's length.
THEOREM SlidingIsBounded == Spec => []SlidingBound
<1>1. ASSUME TimeInv, NEW q \in Requests, NEW c \in client[q], NEW w \in Windows
      PROVE  Cardinality({r \in Requests :
                   /\ stage[r] = "allowed" /\ client[r] = {c} /\ seen[r][w].count > 0
                   /\ seen[r][w].at >= seen[q][w].at
                   /\ seen[r][w].at < seen[q][w].at + Length[w]}) <= 2 * Limit[c][w]
  <2> DEFINE in == {r \in Requests :
                   /\ stage[r] = "allowed" /\ client[r] = {c} /\ seen[r][w].count > 0
                   /\ seen[r][w].at >= seen[q][w].at
                   /\ seen[r][w].at < seen[q][w].at + Length[w]}
  <2>1. /\ c \in Clients /\ Limit[c][w] \in Nat /\ LimitInv /\ seen[q][w].at \in Nat
    BY <1>1, RateLimitAssumption DEF TimeInv, LimitInv, TypeOK
  <2>2. \A r \in in : r \in Requests /\ Counted(r, c, w) /\ r \in Admitted(c, w, seen[r][w].until)
    BY DEF Counted, Admitted
  <2>3. \A r \in in : seen[r][w].at >= seen[q][w].at /\ seen[r][w].at < seen[q][w].at + Length[w]
    OBVIOUS
  <2> HIDE DEF in
  <2>4. PICK a, b : in \subseteq Admitted(c, w, a) \cup Admitted(c, w, b)
    <3>1. CASE \A r, p \in in : seen[r][w].until = seen[p][w].until
      <4>1. CASE in = {}
        BY <4>1
      <4>2. CASE in # {}
        <5>1. PICK p \in in : TRUE
          BY <4>2
        <5>2. in \subseteq Admitted(c, w, seen[p][w].until)
          BY <2>2, <3>1, <5>1
        <5> QED  BY <5>2
      <4> QED  BY <4>1, <4>2
    <3>2. CASE \E r, p \in in : seen[r][w].until # seen[p][w].until
      <4>1. PICK r \in in, p \in in : seen[r][w].until # seen[p][w].until
        BY <3>2
      <4>2. ASSUME NEW x \in in
            PROVE  seen[x][w].until \in {seen[r][w].until, seen[p][w].until}
        BY <1>1, <2>1, <2>2, <2>3, <4>1, <4>2, TwoWindows
      <4>3. in \subseteq Admitted(c, w, seen[r][w].until) \cup Admitted(c, w, seen[p][w].until)
        BY <2>2, <4>2
      <4> QED  BY <4>3
    <3> QED  BY <3>1, <3>2
  <2> DEFINE A == Admitted(c, w, a)
             B == Admitted(c, w, b)
  <2>5. /\ IsFiniteSet(A) /\ Cardinality(A) \in Nat /\ Cardinality(A) <= Limit[c][w]
        /\ IsFiniteSet(B) /\ Cardinality(B) \in Nat /\ Cardinality(B) <= Limit[c][w]
    BY <2>1, WindowFits
  <2> HIDE DEF A, B
  <2>6. /\ IsFiniteSet(A \cup B) /\ IsFiniteSet(A \cap B)
        /\ Cardinality(A \cup B) = Cardinality(A) + Cardinality(B) - Cardinality(A \cap B)
    BY <2>5, FS_Union, FS_Subset
  <2>7. Cardinality(A \cap B) \in Nat
    BY <2>6, FS_CardinalityType
  <2>8. IsFiniteSet(in) /\ Cardinality(in) <= Cardinality(A \cup B)
    BY <2>4, <2>6, FS_Subset DEF A, B
  <2>9. Cardinality(in) \in Nat
    BY <2>8, FS_CardinalityType
  <2>10. Cardinality(in) <= 2 * Limit[c][w]
    BY <2>1, <2>5, <2>6, <2>7, <2>8, <2>9
  <2> QED  BY <2>10 DEF in
<1>2. TimeInv => SlidingBound
  BY <1>1 DEF SlidingBound
<1> QED  BY <1>2, TimeInvariant, PTL
====
