------------------------- MODULE GatewaySessionProofs -------------------------
(***************************************************************************)
(* Roles, tokens and platforms, for every number of requests, users and    *)
(* platforms and all times.  The argument: a row is written by one session *)
(* at a time, so what a session has flushed still fits the row when it     *)
(* commits; a token is as old as its row's role, a login and its own life. *)
(***************************************************************************)
EXTENDS GatewaySession, FiniteSetTheorems, TLAPS

Running(r) == session[r].stage \in {"open", "written", "committed"}

Flushed(r) == session[r].stage = "written" /\ session[r].dirty

Created(r, s) ==
  session[r].stage \in {"committed", "answered"} /\ session[r].kind = "create" /\ session[r].key = s

\* What a running request is about, and how long it has been running.
RequestsFit ==
  \A r \in Requests : Running(r) =>
    /\ clock <= session[r].began + RequestTime
    /\ session[r].kind \in {"login", "grant"} <=> session[r].key \in Users
    /\ session[r].kind = "delete" => session[r].key \in Rules
    /\ session[r].stage = "open" => ~session[r].dirty
    /\ session[r].stage = "written" /\ session[r].kind = "create" => session[r].dirty

\* Two sessions never have both written one row.
WritesIsolated ==
  \A r, q \in Requests :
    Flushed(r) /\ Flushed(q) /\ session[r].key = session[q].key => r = q

\* What a session has written still fits the row.
WritesFit ==
  \A r \in Requests : Flushed(r) /\ session[r].key \notin Rules =>
    /\ session[r].pending \in Row
    /\ Inserts(r) => db[session[r].key] = Absent /\ session[r].pending.role = "user"
    /\ ~Inserts(r) =>
         /\ db[session[r].key] # Absent
         /\ session[r].pending.role =
              IF session[r].kind = "grant" THEN session[r].role ELSE db[session[r].key].role

\* The history variable does what it is for.
AdminUntilNow ==
  \A u \in Users :
    /\ adminUntil[u] <= clock
    /\ IsAdmin(u, db) => adminUntil[u] = clock

\* A login that read the role admin read it when the row had it.
LoginsFresh ==
  \A r \in Requests :
    Running(r) /\ session[r].kind = "login" /\ session[r].seen # Absent
    /\ session[r].seen.role = "admin" => session[r].began <= adminUntil[session[r].key]

\* A token outlives the role by a login and its own life.
TokensFresh ==
  \A t \in tokens : t.role = "admin" =>
    adminUntil[t.user] # Never /\ t.exp <= adminUntil[t.user] + RequestTime + Expiry

\* A platform has one creator, and is there.
CreatorsApart ==
  \A s \in Slugs : \A r, q \in Requests :
    /\ Created(r, s) => db[s] # Absent
    /\ Created(r, s) /\ Created(q, s) => r = q

SessionInv ==
  /\ TypeOK /\ RequestsFit /\ WritesIsolated /\ WritesFit /\ AdminUntilNow
  /\ LoginsFresh /\ TokensFresh /\ CreatorsApart /\ AdminAccessEnds

-----------------------------------------------------------------------------

LEMMA UnreceivedTyped == Unreceived \in Session
<1>1. Keys # {} /\ Values # {}  BY SessionAssumption
<1>2. (CHOOSE k \in Keys : TRUE) \in Keys /\ NoValue \in Values  BY <1>1 DEF NoValue
<1> QED  BY <1>2 DEF Unreceived, Session, Stages, Kinds, Roles

LEMMA SessionInit == Init => SessionInv
<1> SUFFICES ASSUME Init PROVE SessionInv
  OBVIOUS
<1>1. \A r \in Requests :
        /\ session[r] = Unreceived /\ session[r].stage = "idle"
        /\ session[r].by = Operator /\ session[r].began = 0
  BY DEF Init, Unreceived
<1>2. TypeOK  BY <1>1, UnreceivedTyped, SessionAssumption DEF Init, TypeOK
<1>3. RequestsFit /\ LoginsFresh  BY <1>1 DEF RequestsFit, LoginsFresh, Running
<1>4. WritesIsolated /\ WritesFit  BY <1>1 DEF WritesIsolated, WritesFit, Flushed
<1>5. AdminUntilNow  BY DEF Init, AdminUntilNow, Never
<1>6. TokensFresh  BY DEF Init, TokensFresh
<1>7. CreatorsApart  BY <1>1 DEF CreatorsApart, Created
<1>8. AdminAccessEnds  BY <1>1 DEF AdminAccessEnds
<1> QED  BY <1>2, <1>3, <1>4, <1>5, <1>6, <1>7, <1>8 DEF SessionInv

\* A token that lets its user in is fresh.
LEMMA AdminsFresh ==
  ASSUME SessionInv, NEW u \in Admins
  PROVE  /\ u \in Users /\ adminUntil[u] # Never
         /\ clock < adminUntil[u] + RequestTime + Expiry
<1>1. PICK t \in tokens : t.role = "admin" /\ clock < t.exp /\ t.user = u  BY DEF Admins
<1>2. t \in Token  BY <1>1 DEF SessionInv, TypeOK
<1>3. t.user \in Users /\ t.exp \in Nat  BY <1>2 DEF Token
<1>4. adminUntil[u] # Never /\ t.exp <= adminUntil[u] + RequestTime + Expiry
  BY <1>1 DEF SessionInv, TokensFresh
<1>5. adminUntil[u] \in Int /\ clock \in Nat /\ RequestTime \in Nat /\ Expiry \in Nat
  BY <1>1, <1>3, SessionAssumption DEF SessionInv, TypeOK, Never
<1> QED  BY <1>1, <1>3, <1>4, <1>5

\* A request is received.
LEMMA OpenKeeps ==
  ASSUME SessionInv, NEW r \in Requests,
         NEW kind \in Kinds, NEW k \in Keys, NEW v \in Values, NEW role \in Roles,
         NEW by \in Admins \cup {Operator},
         kind \in {"login", "grant"} <=> k \in Users,
         kind = "delete" => k \in Rules,
         Open(r, kind, k, v, role, by)
  PROVE  SessionInv'
<1> USE DEF SessionInv
<1> DEFINE new == [stage |-> "open", kind |-> kind, key |-> k, value |-> v, role |-> role,
                   seen |-> db[k], dirty |-> FALSE, pending |-> Absent, by |-> by,
                   began |-> clock]
<1>1. /\ session[r].stage = "idle" /\ session' = [session EXCEPT ![r] = new]
      /\ UNCHANGED <<clock, db, tokens, adminUntil>>
  BY DEF Open
<1>2. by \in Users \cup {Operator}  BY AdminsFresh
<1>3. new \in Session
  BY <1>2 DEF TypeOK, Session, Stages
<1>4. session'[r] = new /\ \A q \in Requests \ {r} : session'[q] = session[q]
  BY <1>1 DEF TypeOK
<1>5. TypeOK'
  <2>1. session' \in [Requests -> Session]  BY <1>1, <1>3 DEF TypeOK
  <2>2. \A q \in Requests : session'[q].began <= clock  BY <1>4 DEF TypeOK
  <2> QED  BY <1>1, <2>1, <2>2 DEF TypeOK
<1>6. RequestsFit'
  <2>1. clock <= clock + RequestTime  BY SessionAssumption DEF TypeOK
  <2> QED  BY <1>1, <1>4, <2>1 DEF RequestsFit, Running
<1>7. WritesIsolated'  BY <1>4 DEF WritesIsolated, Flushed
<1>8. WritesFit'  BY <1>1, <1>4 DEF WritesFit, Flushed, Inserts
<1>9. AdminUntilNow' /\ TokensFresh'  BY <1>1 DEF AdminUntilNow, TokensFresh
<1>10. LoginsFresh'
  <2>1. ASSUME kind = "login", db[k] # Absent, db[k].role = "admin"
        PROVE  clock <= adminUntil[k]
    <3>1. k \in Users /\ IsAdmin(k, db)  BY <2>1 DEF IsAdmin
    <3>2. adminUntil[k] = clock  BY <3>1 DEF AdminUntilNow
    <3> QED  BY <3>2 DEF TypeOK
  <2> QED  BY <1>1, <1>4, <2>1 DEF LoginsFresh, Running
<1>11. CreatorsApart'
  <2>1. \A q \in Requests, s \in Slugs : Created(q, s)' <=> q # r /\ Created(q, s)
    BY <1>4 DEF Created
  <2> QED  BY <1>1, <2>1 DEF CreatorsApart
<1>12. AdminAccessEnds'
  <2>1. by \in Users => by \in Admins
    BY SessionAssumption
  <2>2. by \in Users =>
          adminUntil[by] # Never /\ clock < adminUntil[by] + RequestTime + Expiry
    BY <2>1, AdminsFresh
  <2> QED  BY <1>1, <1>4, <2>2 DEF AdminAccessEnds
<1> QED  BY <1>5, <1>6, <1>7, <1>8, <1>9, <1>10, <1>11, <1>12

LEMMA ReceiveKeeps == ASSUME SessionInv, NEW r \in Requests, Receive(r) PROVE SessionInv'
<1> USE DEF Kinds, Roles, Keys
<1>1. NoValue \in Values  BY SessionAssumption DEF NoValue
<1>2. CASE Login(r)  BY <1>2, OpenKeeps DEF Login
<1>3. CASE Grant(r)  BY <1>1, <1>3, OpenKeeps DEF Grant
<1>4. CASE CreatePlatform(r) \/ SeedPlatform(r)
  BY <1>4, OpenKeeps, SessionAssumption DEF CreatePlatform, SeedPlatform
<1>5. CASE UpdatePlatform(r)  BY <1>5, OpenKeeps, SessionAssumption DEF UpdatePlatform
<1>6. CASE VerifyCredential(r)
  BY <1>1, <1>6, OpenKeeps, SessionAssumption DEF VerifyCredential
<1>7. CASE CreateRule(r)  BY <1>7, OpenKeeps, SessionAssumption DEF CreateRule
<1>8. CASE UpdateRule(r)  BY <1>8, OpenKeeps, SessionAssumption DEF UpdateRule
<1>9. CASE DeleteRule(r)  BY <1>1, <1>9, OpenKeeps, SessionAssumption DEF DeleteRule
<1> QED  BY <1>2, <1>3, <1>4, <1>5, <1>6, <1>7, <1>8, <1>9 DEF Receive

-----------------------------------------------------------------------------
(* The statement. *)

\* What a statement makes of a row that is not an alert rule.
LEMMA RowAfterFits ==
  ASSUME SessionInv, NEW r \in Requests, Running(r), session[r].key \notin Rules,
         ~Conflict(r), ~Missing(r)
  PROVE  /\ RowAfter(r) \in Row
         /\ Inserts(r) => db[session[r].key] = Absent /\ RowAfter(r).role = "user"
         /\ ~Inserts(r) =>
              /\ db[session[r].key] # Absent
              /\ RowAfter(r).role =
                   IF session[r].kind = "grant" THEN session[r].role ELSE db[session[r].key].role
<1> DEFINE k == session[r].key
<1>1. session[r] \in Session /\ db[k] \in Row \cup {Absent}
  <2>1. session[r] \in Session  BY DEF SessionInv, TypeOK
  <2>2. k \in Keys  BY <2>1 DEF Session
  <2> QED  BY <2>1, <2>2 DEF SessionInv, TypeOK
<1>2. session[r].kind \in Kinds /\ session[r].value \in Values /\ session[r].role \in Roles
  BY <1>1 DEF Session
<1>3. session[r].kind # "delete"  BY DEF SessionInv, RequestsFit
<1>4. CASE Inserts(r)
  <2>1. RowAfter(r) = [value |-> session[r].value, role |-> "user"]
        BY <1>4 DEF RowAfter, Inserts
  <2>2. db[k] = Absent  BY <1>4 DEF Conflict
  <2> QED  BY <1>2, <1>4, <2>1, <2>2 DEF Row, Roles
<1>5. CASE ~Inserts(r)
  <2>1. db[k] \in Row  BY <1>1, <1>5 DEF Missing
  <2>2. CASE session[r].kind = "grant"
    <3>1. RowAfter(r) = [db[k] EXCEPT !.role = session[r].role]
      BY <1>5, <2>2 DEF RowAfter
    <3> QED  BY <1>2, <1>5, <2>1, <2>2, <3>1, SessionAssumption DEF Row
  <2>3. CASE session[r].kind = "verify"
    <3>1. RowAfter(r) = db[k]  BY <1>5, <2>3 DEF RowAfter
    <3> QED  BY <1>5, <2>1, <2>3, <3>1, SessionAssumption
  <2>4. CASE session[r].kind \in {"login", "change"}
    <3>1. RowAfter(r) \in {db[k], [db[k] EXCEPT !.value = session[r].value]}
      BY <1>5, <2>4 DEF RowAfter
    <3> QED  BY <1>2, <1>5, <2>1, <2>4, <3>1, SessionAssumption DEF Row
  <2> QED  BY <1>2, <1>3, <1>5, <2>2, <2>3, <2>4 DEF Kinds, Inserts
<1> QED  BY <1>4, <1>5

\* Any statement, and none, leaves the session of a request well typed.
LEMMA RowAfterTyped ==
  ASSUME SessionInv, NEW r \in Requests, Running(r), ~Conflict(r), ~Missing(r)
  PROVE  RowAfter(r) \in Row \cup {Absent}
<1>1. session[r] \in Session  BY DEF SessionInv, TypeOK
<1>2. session[r].kind \in Kinds /\ session[r].value \in Values /\ session[r].role \in Roles
      /\ session[r].key \in Keys
  BY <1>1 DEF Session
<1>3. db[session[r].key] \in Row \cup {Absent}  BY <1>2 DEF SessionInv, TypeOK
<1>4. CASE Inserts(r)
  <2>1. RowAfter(r) = [value |-> session[r].value, role |-> "user"]
    BY <1>4 DEF RowAfter, Inserts
  <2> QED  BY <1>2, <2>1 DEF Row, Roles
<1>5. CASE ~Inserts(r)
  <2>1. db[session[r].key] \in Row  BY <1>3, <1>5 DEF Missing
  <2>2. RowAfter(r) \in {db[session[r].key], Absent,
                         [db[session[r].key] EXCEPT !.role = session[r].role],
                         [db[session[r].key] EXCEPT !.value = session[r].value]}
    BY <1>2, <1>5 DEF RowAfter, Kinds, Inserts
  <2> QED  BY <1>2, <2>1, <2>2 DEF Row
<1> QED  BY <1>4, <1>5

\* A request has flushed what it had to write, if anything.
LEMMA WrittenKeeps ==
  ASSUME SessionInv, NEW r \in Requests,
         NEW dirty \in BOOLEAN, NEW pending \in Row \cup {Absent},
         session[r].stage = "open",
         session' = [session EXCEPT ![r] =
           [session[r] EXCEPT !.stage = "written", !.dirty = dirty, !.pending = pending]],
         UNCHANGED <<clock, db, tokens, adminUntil>>,
         session[r].kind = "create" => dirty,
         dirty => ~Locked(session[r].key),
         dirty /\ session[r].key \notin Rules =>
           /\ pending \in Row
           /\ Inserts(r) => db[session[r].key] = Absent /\ pending.role = "user"
           /\ ~Inserts(r) =>
                /\ db[session[r].key] # Absent
                /\ pending.role =
                     IF session[r].kind = "grant" THEN session[r].role
                                                  ELSE db[session[r].key].role
  PROVE  SessionInv'
<1> USE DEF SessionInv
<1> DEFINE new == [session[r] EXCEPT !.stage = "written", !.dirty = dirty, !.pending = pending]
<1>1. session[r] \in Session  BY DEF TypeOK
<1>2. new \in Session  BY <1>1 DEF Session, Stages
<1>3. session'[r] = new /\ \A q \in Requests \ {r} : session'[q] = session[q]
  BY DEF TypeOK
<1>4. /\ new.stage = "written" /\ new.dirty = dirty /\ new.pending = pending
      /\ new.kind = session[r].kind /\ new.key = session[r].key /\ new.seen = session[r].seen
      /\ new.role = session[r].role /\ new.by = session[r].by /\ new.began = session[r].began
  BY <1>1 DEF Session
<1> HIDE DEF new
<1>5. TypeOK'
  <2>1. session' \in [Requests -> Session]  BY <1>2, <1>3 DEF TypeOK, new
  <2>2. \A q \in Requests : session'[q].began <= clock  BY <1>3, <1>4 DEF TypeOK
  <2> QED  BY <2>1, <2>2 DEF TypeOK
<1>6. RequestsFit'  BY <1>3, <1>4 DEF RequestsFit, Running
<1>7. WritesIsolated'
  <2>1. ASSUME NEW q \in Requests, q # r, dirty PROVE ~(Flushed(q) /\ session[q].key = session[r].key)
    BY <2>1 DEF Flushed, Locked
  <2> QED  BY <1>3, <1>4, <2>1 DEF WritesIsolated, Flushed
<1>8. WritesFit'
  <2> SUFFICES ASSUME NEW q \in Requests, Flushed(q)', session'[q].key \notin Rules
               PROVE (/\ session[q].pending \in Row
                      /\ Inserts(q) => db[session[q].key] = Absent /\ session[q].pending.role = "user"
                      /\ ~Inserts(q) =>
                           /\ db[session[q].key] # Absent
                           /\ session[q].pending.role =
                                IF session[q].kind = "grant" THEN session[q].role
                                                           ELSE db[session[q].key].role)'
    BY DEF WritesFit
  <2>1. CASE q = r  BY <1>3, <1>4, <2>1 DEF Flushed, Inserts
  <2>2. CASE q # r  BY <1>3, <2>2 DEF WritesFit, Flushed, Inserts
  <2> QED  BY <2>1, <2>2
<1>9. AdminUntilNow' /\ TokensFresh'  BY DEF AdminUntilNow, TokensFresh
<1>10. LoginsFresh'  BY <1>3, <1>4 DEF LoginsFresh, Running
<1>11. CreatorsApart'
  <2>1. \A q \in Requests, s \in Slugs : Created(q, s)' <=> Created(q, s)
    BY <1>3, <1>4 DEF Created
  <2> QED  BY <2>1 DEF CreatorsApart
<1>12. AdminAccessEnds'  BY <1>3, <1>4 DEF AdminAccessEnds
<1> QED  BY <1>5, <1>6, <1>7, <1>8, <1>9, <1>10, <1>11, <1>12

LEMMA FlushKeeps == ASSUME SessionInv, NEW r \in Requests, Flush(r) PROVE SessionInv'
<1>1. Running(r) /\ ~Conflict(r) /\ ~Missing(r)  BY DEF Flush, Running
<1>2. session' = [session EXCEPT ![r] =
        [session[r] EXCEPT !.stage = "written", !.dirty = TRUE, !.pending = RowAfter(r)]]
  BY DEF Flush, SessionInv, TypeOK, Session
<1>3. RowAfter(r) \in Row \cup {Absent}  BY <1>1, RowAfterTyped
<1>4. session[r].key \notin Rules =>
         /\ RowAfter(r) \in Row
         /\ Inserts(r) => db[session[r].key] = Absent /\ RowAfter(r).role = "user"
         /\ ~Inserts(r) =>
              /\ db[session[r].key] # Absent
              /\ RowAfter(r).role =
                   IF session[r].kind = "grant" THEN session[r].role ELSE db[session[r].key].role
  BY <1>1, RowAfterFits
<1> QED  BY <1>2, <1>3, <1>4, WrittenKeeps DEF Flush

LEMMA FlushNothingKeeps == ASSUME SessionInv, NEW r \in Requests, FlushNothing(r) PROVE SessionInv'
<1>1. session[r] \in Session /\ session[r].dirty = FALSE
  BY DEF FlushNothing, SessionInv, TypeOK, RequestsFit, Running, Session
<1>2. session[r].pending \in Row \cup {Absent}  BY <1>1 DEF Session
<1>3. session' = [session EXCEPT ![r] =
        [session[r] EXCEPT !.stage = "written", !.dirty = FALSE, !.pending = session[r].pending]]
  BY <1>1 DEF FlushNothing, SessionInv, TypeOK, Session
<1>4. session[r].kind # "create"  BY DEF FlushNothing, Emits, Inserts
<1> QED  BY <1>2, <1>3, <1>4, WrittenKeeps DEF FlushNothing

-----------------------------------------------------------------------------
(* Ends, commits and the clock. *)

\* A request ends, with a token perhaps.
LEMMA EndKeeps ==
  ASSUME SessionInv, NEW r \in Requests, NEW new \in Session,
         session' = [session EXCEPT ![r] = new],
         new.stage \in {"answered", "failed"}, new.by = Operator, new.began = 0,
         \A s \in Slugs :
           new.stage = "answered" /\ new.kind = "create" /\ new.key = s => Created(r, s),
         UNCHANGED <<clock, db, adminUntil>>,
         tokens' \subseteq Token, \A t \in tokens' : t.exp <= clock + Expiry,
         TokensFresh'
  PROVE  SessionInv'
<1> USE DEF SessionInv
<1>1. session'[r] = new /\ \A q \in Requests \ {r} : session'[q] = session[q]
  BY DEF TypeOK
<1>2. TypeOK'
  <2>1. session' \in [Requests -> Session]  BY DEF TypeOK
  <2>2. \A q \in Requests : session'[q].began <= clock  BY <1>1 DEF TypeOK
  <2> QED  BY <2>1, <2>2 DEF TypeOK
<1>3. RequestsFit' /\ LoginsFresh'  BY <1>1 DEF RequestsFit, LoginsFresh, Running
<1>4. WritesIsolated'  BY <1>1 DEF WritesIsolated, Flushed
<1>5. WritesFit'  BY <1>1 DEF WritesFit, Flushed, Inserts
<1>6. AdminUntilNow'  BY DEF AdminUntilNow
<1>7. CreatorsApart'
  <2>1. \A q \in Requests, s \in Slugs : Created(q, s)' => Created(q, s)
    BY <1>1 DEF Created
  <2> QED  BY <2>1 DEF CreatorsApart
<1>8. AdminAccessEnds'
  BY <1>1, SessionAssumption DEF AdminAccessEnds
<1> QED  BY <1>2, <1>3, <1>4, <1>5, <1>6, <1>7, <1>8

LEMMA FailKeeps ==
  ASSUME SessionInv, NEW r \in Requests, Fail(r), UNCHANGED <<clock, db, tokens, adminUntil>>
  PROVE  SessionInv'
<1> DEFINE new == [Unreceived EXCEPT !.stage = "failed"]
<1>1. new \in Session  BY UnreceivedTyped DEF Session, Stages
<1>2. new.stage = "failed" /\ new.by = Operator /\ new.began = 0  BY DEF Unreceived
<1>3. session' = [session EXCEPT ![r] = new]  BY DEF Fail
<1>4. tokens' \subseteq Token /\ \A t \in tokens' : t.exp <= clock + Expiry
  BY DEF SessionInv, TypeOK
<1>5. TokensFresh'  BY DEF SessionInv, TokensFresh
<1> HIDE DEF new
<1> QED  BY <1>1, <1>2, <1>3, <1>4, <1>5, EndKeeps

LEMMA CloseKeeps ==
  ASSUME SessionInv, NEW r \in Requests, Close(r),
         session[r].key \in Slugs => session[r].stage = "committed",
         UNCHANGED <<clock, db, adminUntil>>,
         tokens' \subseteq Token, \A t \in tokens' : t.exp <= clock + Expiry,
         TokensFresh'
  PROVE  SessionInv'
<1> DEFINE new == [Unreceived EXCEPT !.stage = "answered",
                                     !.kind = session[r].kind, !.key = session[r].key]
<1>1. session[r].kind \in Kinds /\ session[r].key \in Keys
  BY DEF SessionInv, TypeOK, Session
<1>2. new \in Session  BY <1>1, UnreceivedTyped DEF Session, Stages
<1>3. /\ new.stage = "answered" /\ new.by = Operator /\ new.began = 0
      /\ new.kind = session[r].kind /\ new.key = session[r].key
  BY DEF Unreceived
<1>4. session' = [session EXCEPT ![r] = new]  BY DEF Close
<1> HIDE DEF new
<1>5. \A s \in Slugs :
        new.stage = "answered" /\ new.kind = "create" /\ new.key = s => Created(r, s)
  BY <1>3 DEF Created
<1> QED  BY <1>2, <1>3, <1>4, <1>5, EndKeeps

LEMMA AnswerKeeps == ASSUME SessionInv, NEW r \in Requests, Answer(r) PROVE SessionInv'
<1> USE DEF SessionInv
<1>1. Close(r) /\ session[r].stage = "committed" /\ UNCHANGED <<clock, db, adminUntil>>
  BY DEF Answer
<1>2. session[r] \in Session  BY DEF TypeOK
<1>3. clock \in Nat /\ Expiry \in Nat /\ RequestTime \in Nat  BY SessionAssumption DEF TypeOK
<1>4. CASE session[r].kind # "login"
  <2>1. tokens' = tokens  BY <1>4 DEF Answer
  <2>2. TokensFresh'  BY <1>1, <2>1 DEF TokensFresh
  <2> QED  BY <1>1, <2>1, <2>2, CloseKeeps DEF TypeOK
<1>5. CASE session[r].kind = "login"
  <2> DEFINE u == session[r].key
  <2>1. tokens' = tokens \cup {TokenOf(r)}  BY <1>5 DEF Answer
  <2>2. u \in Users  BY <1>1, <1>5 DEF RequestsFit, Running
  <2>3. session[r].seen \in Row \cup {Absent} /\ session[r].began \in Nat  BY <1>2 DEF Session
  <2>4. TokenOf(r) \in Token /\ TokenOf(r).exp = clock + Expiry /\ TokenOf(r).user = u
    BY <1>3, <2>2, <2>3 DEF TokenOf, Token, Row, Roles
  <2>5. ASSUME TokenOf(r).role = "admin"
        PROVE  adminUntil[u] # Never /\ TokenOf(r).exp <= adminUntil[u] + RequestTime + Expiry
    <3>1. session[r].seen # Absent /\ session[r].seen.role = "admin"  BY <2>5 DEF TokenOf
    <3>2. session[r].began <= adminUntil[u]  BY <1>1, <1>5, <3>1 DEF LoginsFresh, Running
    <3>3. clock <= session[r].began + RequestTime  BY <1>1 DEF RequestsFit, Running
    <3>4. adminUntil[u] \in Nat \cup {Never}  BY <2>2 DEF TypeOK
    <3> QED  BY <1>3, <2>3, <2>4, <3>2, <3>3, <3>4 DEF Never
  <2>6. TokensFresh'  BY <1>1, <2>1, <2>4, <2>5 DEF TokensFresh
  <2>7. tokens' \subseteq Token /\ \A t \in tokens' : t.exp <= clock + Expiry
    BY <1>3, <2>1, <2>4 DEF TypeOK
  <2> QED  BY <1>1, <2>6, <2>7, CloseKeeps
<1> QED  BY <1>4, <1>5

LEMMA AnswerUncommittedKeeps ==
  ASSUME SessionInv, NEW r \in Requests, AnswerUncommitted(r) PROVE SessionInv'
<1>1. session[r].key \notin Slugs  BY DEF AnswerUncommitted, Commits
<1>2. TokensFresh'  BY DEF AnswerUncommitted, SessionInv, TokensFresh
<1>3. tokens' \subseteq Token /\ \A t \in tokens' : t.exp <= clock + Expiry
  BY DEF AnswerUncommitted, SessionInv, TypeOK
<1> QED  BY <1>1, <1>2, <1>3, CloseKeeps DEF AnswerUncommitted

\* What a commit does to the rows: one that a platform or a user has stays.
LEMMA CommittedRows ==
  ASSUME SessionInv, NEW r \in Requests, Commit(r)
  PROVE  /\ session[r].key \in Users \cup Slugs /\ session[r].key \notin Rules
         /\ db' \in [Keys -> Row \cup {Absent}]
         /\ \A k \in Keys \ {session[r].key} : db'[k] = db[k]
         /\ ~session[r].dirty => db' = db
         /\ session[r].dirty =>
              Flushed(r) /\ db'[session[r].key] = session[r].pending /\ session[r].pending \in Row
<1> USE DEF SessionInv
<1>1. session[r].key \in Users \cup Slugs /\ session[r].key \notin Rules
  BY SessionAssumption DEF Commit, Commits
<1>2. session[r].key \in Keys  BY <1>1 DEF Keys
<1>3. session[r].dirty => Flushed(r) /\ session[r].pending \in Row
  BY <1>1 DEF Commit, Flushed, WritesFit
<1>4. CASE session[r].dirty
  <2>1. db' = [db EXCEPT ![session[r].key] = session[r].pending]  BY <1>4 DEF Commit
  <2> QED  BY <1>1, <1>2, <1>3, <1>4, <2>1 DEF TypeOK
<1>5. CASE ~session[r].dirty
  <2>1. db' = db  BY <1>5 DEF Commit
  <2> QED  BY <1>1, <1>5, <2>1 DEF TypeOK
<1> QED  BY <1>4, <1>5

\* The last moment a user was an administrator only gets later.
LEMMA AdminUntilGrows ==
  ASSUME SessionInv, NEW table, NEW now \in Nat, clock <= now,
         adminUntil' = [u \in Users |-> IF IsAdmin(u, table) THEN now ELSE adminUntil[u]]
  PROVE  /\ adminUntil' \in [Users -> Nat \cup {Never}]
         /\ \A u \in Users :
              /\ adminUntil[u] <= adminUntil'[u] /\ adminUntil'[u] <= now
              /\ adminUntil[u] # Never => adminUntil'[u] # Never
              /\ IsAdmin(u, table) => adminUntil'[u] = now
<1>1. adminUntil \in [Users -> Nat \cup {Never}] /\ clock \in Nat  BY DEF SessionInv, TypeOK
<1>2. \A u \in Users : adminUntil[u] <= clock  BY DEF SessionInv, AdminUntilNow
<1> QED  BY <1>1, <1>2 DEF Never

\* What was bounded by that moment stays bounded.
LEMMA BoundsKeep ==
  ASSUME SessionInv,
         adminUntil' \in [Users -> Nat \cup {Never}],
         \A u \in Users :
           /\ adminUntil[u] <= adminUntil'[u]
           /\ adminUntil[u] # Never => adminUntil'[u] # Never,
         tokens' = tokens
  PROVE  TokensFresh'
<1> SUFFICES ASSUME NEW t \in tokens, t.role = "admin"
             PROVE  /\ adminUntil'[t.user] # Never
                    /\ t.exp <= adminUntil'[t.user] + RequestTime + Expiry
  BY DEF TokensFresh
<1>1. t.user \in Users /\ t.exp \in Nat  BY DEF SessionInv, TypeOK, Token
<1>2. adminUntil[t.user] # Never /\ t.exp <= adminUntil[t.user] + RequestTime + Expiry
  BY DEF SessionInv, TokensFresh
<1>3. adminUntil[t.user] \in Nat \cup {Never} /\ adminUntil'[t.user] \in Nat \cup {Never}
  BY <1>1 DEF SessionInv, TypeOK
<1>4. adminUntil[t.user] \in Int /\ adminUntil'[t.user] \in Int  BY <1>3 DEF Never
<1> QED  BY <1>1, <1>2, <1>4, SessionAssumption

LEMMA CommitKeeps == ASSUME SessionInv, NEW r \in Requests, Commit(r) PROVE SessionInv'
<1> USE DEF SessionInv
<1> DEFINE new == [session[r] EXCEPT !.stage = "committed"]
<1>1. session[r] \in Session /\ clock \in Nat  BY DEF TypeOK
<1>2. session[r].stage = "written" /\ session' = [session EXCEPT ![r] = new]
      /\ UNCHANGED <<clock, tokens>>
  BY DEF Commit, TypeOK
<1>3. new \in Session  BY <1>1 DEF Session, Stages
<1>4. session'[r] = new /\ \A q \in Requests \ {r} : session'[q] = session[q]
  BY <1>2 DEF TypeOK
<1>5. /\ new.stage = "committed" /\ new.dirty = session[r].dirty
      /\ new.kind = session[r].kind /\ new.key = session[r].key /\ new.seen = session[r].seen
      /\ new.role = session[r].role /\ new.by = session[r].by /\ new.began = session[r].began
  BY <1>1 DEF Session
<1> HIDE DEF new
<1>6. /\ session[r].key \in Users \cup Slugs /\ session[r].key \notin Rules
      /\ db' \in [Keys -> Row \cup {Absent}]
      /\ \A k \in Keys \ {session[r].key} : db'[k] = db[k]
      /\ ~session[r].dirty => db' = db
      /\ session[r].dirty =>
           Flushed(r) /\ db'[session[r].key] = session[r].pending /\ session[r].pending \in Row
  BY CommittedRows
<1>7. /\ adminUntil' \in [Users -> Nat \cup {Never}]
      /\ \A u \in Users :
           /\ adminUntil[u] <= adminUntil'[u] /\ adminUntil'[u] <= clock
           /\ adminUntil[u] # Never => adminUntil'[u] # Never
           /\ IsAdmin(u, db') => adminUntil'[u] = clock
  <2>1. adminUntil' = [u \in Users |-> IF IsAdmin(u, db') THEN clock ELSE adminUntil[u]]
        /\ clock <= clock
    BY <1>1 DEF Commit
  <2> QED  BY ONLY <2>1, <1>1, SessionInv, AdminUntilGrows
<1>8. TypeOK'
  <2>1. session' \in [Requests -> Session]  BY <1>2, <1>3 DEF TypeOK
  <2>2. \A q \in Requests : session'[q].began <= clock  BY <1>4, <1>5 DEF TypeOK
  <2> QED  BY <1>2, <1>6, <1>7, <2>1, <2>2 DEF TypeOK
<1>9. RequestsFit'  BY <1>2, <1>4, <1>5 DEF RequestsFit, Running
<1>10. WritesIsolated'  BY <1>4, <1>5 DEF WritesIsolated, Flushed
<1>11. WritesFit'
  <2> SUFFICES ASSUME NEW q \in Requests, Flushed(q)', session'[q].key \notin Rules
               PROVE (/\ session[q].pending \in Row
                      /\ Inserts(q) => db[session[q].key] = Absent /\ session[q].pending.role = "user"
                      /\ ~Inserts(q) =>
                           /\ db[session[q].key] # Absent
                           /\ session[q].pending.role =
                                IF session[q].kind = "grant" THEN session[q].role
                                                           ELSE db[session[q].key].role)'
    BY DEF WritesFit
  <2>1. q # r /\ session'[q] = session[q] /\ Flushed(q)  BY <1>4, <1>5 DEF Flushed
  <2>2. session[q].key \in Keys  BY DEF TypeOK, Session
  <2>3. db'[session[q].key] = db[session[q].key]
    <3>1. CASE session[r].dirty
      <4>1. session[q].key # session[r].key  BY <1>6, <2>1, <3>1 DEF WritesIsolated
      <4> QED  BY <1>6, <2>2, <4>1
    <3>2. CASE ~session[r].dirty  BY <1>6, <3>2
    <3> QED  BY <3>1, <3>2
  <2> QED  BY <2>1, <2>3 DEF WritesFit, Inserts
<1>12. AdminUntilNow'  BY <1>2, <1>7 DEF AdminUntilNow
<1>13. LoginsFresh'
  <2> SUFFICES ASSUME NEW q \in Requests, Running(q)', session'[q].kind = "login",
                      session'[q].seen # Absent, session'[q].seen.role = "admin"
               PROVE  session'[q].began <= adminUntil'[session'[q].key]
    BY DEF LoginsFresh
  <2>1. Running(q) /\ session[q].kind = "login" /\ session[q].seen # Absent
        /\ session[q].seen.role = "admin"
    BY <1>2, <1>4, <1>5 DEF Running
  <2>2. session'[q].began = session[q].began /\ session'[q].key = session[q].key
    BY <1>4, <1>5
  <2>3. session[q].key \in Users  BY <2>1 DEF RequestsFit
  <2>4. session[q].began <= adminUntil[session[q].key]  BY <2>1 DEF LoginsFresh
  <2>5. session[q].began \in Nat /\ adminUntil[session[q].key] \in Int
        /\ adminUntil'[session[q].key] \in Int
    BY <1>7, <2>3 DEF TypeOK, Session, Never
  <2> QED  BY <1>7, <2>2, <2>3, <2>4, <2>5
<1>14. TokensFresh'  BY <1>2, <1>7, BoundsKeep
<1>15. CreatorsApart'
  <2> SUFFICES ASSUME NEW s \in Slugs, NEW q \in Requests, NEW p \in Requests
               PROVE  /\ Created(q, s)' => db'[s] # Absent
                      /\ Created(q, s)' /\ Created(p, s)' => q = p
    BY DEF CreatorsApart
  <2>1. \A x \in Requests : Created(x, s)' => Created(x, s) \/ x = r  BY <1>4 DEF Created
  <2>2. s \in Keys /\ Absent \notin Row  BY SessionAssumption DEF Keys
  <2>3. db[s] # Absent => db'[s] # Absent
    BY <1>6, <2>2
  <2>4. ASSUME Created(r, s)' PROVE db[s] = Absent /\ db'[s] # Absent
    <3>1. session[r].kind = "create" /\ session[r].key = s  BY <1>4, <1>5, <2>4 DEF Created
    <3>2. session[r].dirty
      BY <3>1 DEF Commit, RequestsFit, Running
    <3>3. db[s] = Absent  BY <1>6, <3>1, <3>2 DEF WritesFit, Inserts
    <3> QED  BY <1>6, <2>2, <3>1, <3>2, <3>3
  <2>5. CASE Created(q, s)' /\ q = r
    <3>1. db[s] = Absent /\ db'[s] # Absent  BY <2>4, <2>5
    <3>2. ~Created(p, s)  BY <3>1 DEF CreatorsApart
    <3> QED  BY <2>1, <2>5, <3>1, <3>2
  <2>6. CASE Created(q, s)' /\ q # r
    <3>1. Created(q, s) /\ db[s] # Absent  BY <2>1, <2>6 DEF CreatorsApart
    <3>2. ~Created(r, s)'  BY <2>4, <3>1
    <3>3. Created(p, s)' => Created(p, s)  BY <2>1, <3>2
    <3> QED  BY <2>3, <3>1, <3>3 DEF CreatorsApart
  <2> QED  BY <2>5, <2>6
<1>16. AdminAccessEnds'
  <2> SUFFICES ASSUME NEW q \in Requests, session'[q].stage # "idle", session'[q].by \in Users
               PROVE  /\ adminUntil'[session'[q].by] # Never
                      /\ session'[q].began < adminUntil'[session'[q].by] + RequestTime + Expiry
    BY DEF AdminAccessEnds
  <2>1. /\ session[q].stage # "idle" /\ session'[q].by = session[q].by
        /\ session'[q].began = session[q].began
    BY <1>2, <1>4, <1>5
  <2>2. /\ adminUntil[session[q].by] # Never
        /\ session[q].began < adminUntil[session[q].by] + RequestTime + Expiry
    BY <2>1 DEF AdminAccessEnds
  <2>3. /\ session[q].began \in Nat /\ adminUntil[session[q].by] \in Int
        /\ adminUntil'[session[q].by] \in Int
    BY <1>7, <2>1 DEF TypeOK, Session, Never
  <2> QED  BY <1>7, <2>1, <2>2, <2>3, SessionAssumption
<1> QED  BY <1>8, <1>9, <1>10, <1>11, <1>12, <1>13, <1>14, <1>15, <1>16

LEMMA TickKeeps == ASSUME SessionInv, Tick PROVE SessionInv'
<1> USE DEF SessionInv
<1>1. /\ clock' = clock + 1 /\ clock \in Nat /\ clock + 1 \in Nat /\ clock <= clock + 1
      /\ UNCHANGED <<db, session, tokens>>
  BY DEF Tick, TypeOK
<1>2. /\ adminUntil' \in [Users -> Nat \cup {Never}]
      /\ \A u \in Users :
           /\ adminUntil[u] <= adminUntil'[u] /\ adminUntil'[u] <= clock + 1
           /\ adminUntil[u] # Never => adminUntil'[u] # Never
           /\ IsAdmin(u, db) => adminUntil'[u] = clock + 1
  <2>1. adminUntil' = [u \in Users |-> IF IsAdmin(u, db) THEN clock + 1 ELSE adminUntil[u]]
    BY DEF Tick
  <2> QED  BY ONLY <1>1, <2>1, SessionInv, AdminUntilGrows
<1>3. TypeOK'
  <2>1. \A t \in tokens : t.exp <= clock + 1 + Expiry
    BY <1>1, SessionAssumption DEF TypeOK, Token
  <2>2. \A r \in Requests : session[r].began <= clock + 1  BY <1>1 DEF TypeOK, Session
  <2> QED  BY <1>1, <1>2, <2>1, <2>2 DEF TypeOK
<1>4. RequestsFit'
  <2>1. ASSUME NEW r \in Requests, Running(r) PROVE clock + 1 <= session[r].began + RequestTime
    <3>1. clock < session[r].began + RequestTime  BY <2>1 DEF Tick, Running
    <3>2. session[r].began \in Nat /\ RequestTime \in Nat
      BY SessionAssumption DEF TypeOK, Session
    <3> QED  BY <1>1, <3>1, <3>2
  <2> QED  BY <1>1, <2>1 DEF RequestsFit, Running
<1>5. WritesIsolated'  BY <1>1 DEF WritesIsolated, Flushed
<1>6. WritesFit'  BY <1>1 DEF WritesFit, Flushed, Inserts
<1>7. AdminUntilNow'  BY <1>1, <1>2 DEF AdminUntilNow, IsAdmin
<1>8. LoginsFresh'
  <2> SUFFICES ASSUME NEW q \in Requests, Running(q), session[q].kind = "login",
                      session[q].seen # Absent, session[q].seen.role = "admin"
               PROVE  session[q].began <= adminUntil'[session[q].key]
    BY <1>1 DEF LoginsFresh, Running
  <2>1. session[q].key \in Users /\ session[q].began <= adminUntil[session[q].key]
    BY DEF RequestsFit, LoginsFresh
  <2>2. session[q].began \in Nat /\ adminUntil[session[q].key] \in Int
        /\ adminUntil'[session[q].key] \in Int
    BY <1>2, <2>1 DEF TypeOK, Session, Never
  <2> QED  BY <1>2, <2>1, <2>2
<1>9. TokensFresh'  BY <1>1, <1>2, BoundsKeep
<1>10. CreatorsApart'  BY <1>1 DEF CreatorsApart, Created
<1>11. AdminAccessEnds'
  <2> SUFFICES ASSUME NEW q \in Requests, session[q].stage # "idle", session[q].by \in Users
               PROVE  /\ adminUntil'[session[q].by] # Never
                      /\ session[q].began < adminUntil'[session[q].by] + RequestTime + Expiry
    BY <1>1 DEF AdminAccessEnds
  <2>1. /\ adminUntil[session[q].by] # Never
        /\ session[q].began < adminUntil[session[q].by] + RequestTime + Expiry
    BY DEF AdminAccessEnds
  <2>2. /\ session[q].began \in Nat /\ adminUntil[session[q].by] \in Int
        /\ adminUntil'[session[q].by] \in Int
    BY <1>2 DEF TypeOK, Session, Never
  <2> QED  BY <1>2, <2>1, <2>2, SessionAssumption
<1> QED  BY <1>3, <1>4, <1>5, <1>6, <1>7, <1>8, <1>9, <1>10, <1>11

LEMMA SessionStep == SessionInv /\ [Next]_vars => SessionInv'
<1> SUFFICES ASSUME SessionInv, [Next]_vars PROVE SessionInv'
  OBVIOUS
<1>1. ASSUME NEW r \in Requests, Receive(r) PROVE SessionInv'  BY <1>1, ReceiveKeeps
<1>2. ASSUME NEW r \in Requests, Step(r) PROVE SessionInv'
  <2>1. CASE Refuse(r)  BY <2>1, FailKeeps DEF Refuse
  <2> QED  BY <1>2, <2>1, FlushKeeps, FlushNothingKeeps, CommitKeeps, AnswerKeeps,
              AnswerUncommittedKeeps DEF Step
<1>3. ASSUME NEW r \in Requests, Abort(r) PROVE SessionInv'  BY <1>3, FailKeeps DEF Abort
<1>4. CASE Tick  BY <1>4, TickKeeps
<1>5. CASE UNCHANGED vars
  <2> USE DEF SessionInv
  <2>1. UNCHANGED <<clock, db, session, tokens, adminUntil>>  BY <1>5 DEF vars
  <2>2. TypeOK'  BY <2>1 DEF TypeOK
  <2>3. RequestsFit' /\ LoginsFresh'  BY <2>1 DEF RequestsFit, LoginsFresh, Running
  <2>4. WritesIsolated' /\ WritesFit'  BY <2>1 DEF WritesIsolated, WritesFit, Flushed, Inserts
  <2>5. AdminUntilNow' /\ TokensFresh'  BY <2>1 DEF AdminUntilNow, TokensFresh, IsAdmin
  <2>6. CreatorsApart' /\ AdminAccessEnds'  BY <2>1 DEF CreatorsApart, Created, AdminAccessEnds
  <2> QED  BY <2>2, <2>3, <2>4, <2>5, <2>6
<1> QED  BY <1>1, <1>2, <1>3, <1>4, <1>5 DEF Next

-----------------------------------------------------------------------------

\* The inductive invariant: what sessions have flushed fits the rows they lock,
\* and tokens are as fresh as the logins that got them.
THEOREM SessionInvariant == Spec => []SessionInv
<1> QED  BY SessionInit, SessionStep, PTL DEF Spec

\* Requests, rows and tokens have the types of their models.
THEOREM SessionTypes == Spec => []TypeOK
<1>1. SessionInv => TypeOK  BY DEF SessionInv
<1> QED  BY <1>1, SessionInvariant, PTL

\* require_admin lets a user in for at most the life of a token and the time of
\* a login after grant_admin has taken the role away.
THEOREM AccessEnds == Spec => []AdminAccessEnds
<1>1. SessionInv => AdminAccessEnds  BY DEF SessionInv
<1> QED  BY <1>1, SessionInvariant, PTL

\* Of several create_platform with one slug at most one succeeds.
THEOREM PlatformsOnce == Spec => []OneCreator
<1>1. ASSUME SessionInv PROVE OneCreator
  <2> SUFFICES ASSUME NEW s \in Slugs
               PROVE  /\ Cardinality({r \in Requests : Created(r, s)}) <= 1
                      /\ {r \in Requests : Created(r, s)} # {} => db[s] # Absent
    BY DEF OneCreator, Created
  <2>1. CASE {r \in Requests : Created(r, s)} = {}
    BY <2>1, FS_EmptySet
  <2>2. CASE {r \in Requests : Created(r, s)} # {}
    <3>1. PICK r \in Requests : Created(r, s)  BY <2>2
    <3>2. db[s] # Absent /\ \A q \in Requests : Created(q, s) => q = r
      BY <1>1, <3>1 DEF SessionInv, CreatorsApart
    <3>3. {q \in Requests : Created(q, s)} = {r}  BY <3>1, <3>2
    <3>4. Cardinality({r}) = 1  BY FS_Singleton
    <3> QED  BY <3>2, <3>3, <3>4
  <2> QED  BY <2>1, <2>2
<1> QED  BY <1>1, SessionInvariant, PTL

\* Roles change by grants only: no login of telegram_login takes back what a
\* grant_admin has written since the login read the row.
THEOREM RolesStay == Spec => RolesByGrant
<1> DEFINE RoleStep ==
      \A u \in Users : db'[u] # db[u] =>
        /\ db'[u] # Absent
        /\ db[u] = Absent => db'[u].role = "user"
        /\ db[u] # Absent /\ db'[u].role # db[u].role =>
             \E r \in Requests :
               /\ session[r].kind = "grant" /\ session[r].key = u
               /\ session[r].role = db'[u].role
               /\ session[r].stage = "written" /\ session'[r].stage = "committed"
<1>1. ASSUME SessionInv, [Next]_vars PROVE RoleStep
  <2>1. CASE db' = db  BY <2>1
  <2>2. ASSUME NEW r \in Requests, Commit(r) PROVE RoleStep
    <3> SUFFICES ASSUME NEW u \in Users, db'[u] # db[u]
                 PROVE  /\ db'[u] # Absent
                        /\ db[u] = Absent => db'[u].role = "user"
                        /\ db[u] # Absent /\ db'[u].role # db[u].role =>
                             \E q \in Requests :
                               /\ session[q].kind = "grant" /\ session[q].key = u
                               /\ session[q].role = db'[u].role
                               /\ session[q].stage = "written" /\ session'[q].stage = "committed"
      OBVIOUS
    <3>1. /\ session[r].key = u /\ Flushed(r) /\ db'[u] = session[r].pending
          /\ session[r].pending \in Row
      BY <1>1, <2>2, CommittedRows DEF Keys
    <3>2. session[r].key \notin Rules /\ Absent \notin Row
      BY <3>1, SessionAssumption
    <3>3. /\ Inserts(r) => db[u] = Absent /\ db'[u].role = "user"
          /\ ~Inserts(r) =>
               /\ db[u] # Absent
               /\ db'[u].role = IF session[r].kind = "grant" THEN session[r].role ELSE db[u].role
      BY <1>1, <3>1, <3>2 DEF SessionInv, WritesFit
    <3>4. session[r].stage = "written" /\ session'[r].stage = "committed"
      BY <1>1, <2>2 DEF Commit, SessionInv, TypeOK, Session
    <3> QED  BY <3>1, <3>2, <3>3, <3>4
  <2>3. ASSUME NEW r \in Requests, Receive(r) PROVE db' = db
    <3>1. ASSUME NEW kind, NEW k, NEW v, NEW role, NEW by, Open(r, kind, k, v, role, by)
          PROVE  db' = db
      BY <3>1 DEF Open
    <3>2. CASE Login(r) \/ Grant(r)  BY <3>1, <3>2 DEF Login, Grant
    <3>3. CASE \/ CreatePlatform(r) \/ SeedPlatform(r)
               \/ UpdatePlatform(r) \/ VerifyCredential(r)
      BY <3>1, <3>3 DEF CreatePlatform, SeedPlatform, UpdatePlatform, VerifyCredential
    <3>4. CASE CreateRule(r) \/ UpdateRule(r) \/ DeleteRule(r)
      BY <3>1, <3>4 DEF CreateRule, UpdateRule, DeleteRule
    <3> QED  BY <2>3, <3>2, <3>3, <3>4 DEF Receive
  <2>4. ASSUME NEW r \in Requests, Step(r), ~Commit(r) PROVE db' = db
    BY <2>4 DEF Step, Flush, FlushNothing, Refuse, Answer, AnswerUncommitted
  <2>5. CASE Tick \/ UNCHANGED vars  BY <2>5 DEF Tick, vars
  <2>6. ASSUME NEW r \in Requests, Abort(r) PROVE db' = db  BY <2>6 DEF Abort
  <2> QED  BY <1>1, <2>1, <2>2, <2>3, <2>4, <2>5, <2>6 DEF Next
<1>2. SessionInv /\ [Next]_vars => [RoleStep]_vars  BY <1>1
<1> QED  BY <1>2, SessionInvariant, PTL DEF Spec, RolesByGrant

=============================================================================
