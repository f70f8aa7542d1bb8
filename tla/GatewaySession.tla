---------------------------- MODULE GatewaySession ----------------------------
(***************************************************************************)
(* The requests of the gateway that write to the database.  Each has a     *)
(* session of its own (get_db_session): it reads a row, flushes one        *)
(* statement, and the session is closed when the request ends; each        *)
(* platform of the collector's seed-platforms is such a session, too.      *)
(* Logins, grants and changes of platforms commit before they answer;      *)
(* changes of alert rules and the verification of a credential do not,     *)
(* and closing the session rolls them back.                                *)
(*                                                                         *)
(* A row has one value, which stands for its columns except the role of a  *)
(* user.  Creation, update and revocation of credentials are in            *)
(* SubjectSync, because they change subjects as well.                      *)
(***************************************************************************)
EXTENDS Integers, FiniteSets

CONSTANTS
  Requests,     \* requests, each received at most once
  Users,        \* Telegram users: rows of telegram_users
  Slugs,        \* platforms, by their unique slug
  Rules,        \* alert rules
  Credentials,  \* stored credentials
  Values,       \* what a row may say
  Absent,       \* no such row
  Operator,     \* whoever needs no token of a user
  Expiry,       \* life of a JWT
  RequestTime,  \* longest time a request takes
  MaxTime       \* bound on the clock

Keys == Users \cup Slugs \cup Rules \cup Credentials
Roles == {"user", "admin"}
Row == [value : Values, role : Roles]

ASSUME SessionAssumption ==
  /\ Users \cap (Slugs \cup Rules \cup Credentials) = {}
  /\ Slugs \cap (Rules \cup Credentials) = {} /\ Rules \cap Credentials = {}
  /\ Keys # {} /\ Values # {}
  /\ Absent \notin Row /\ Operator \notin Users
  /\ Expiry \in Nat /\ RequestTime \in Nat /\ MaxTime \in Nat

Stages == {"idle", "open", "written", "committed", "answered", "failed"}
Kinds == {"login", "grant", "create", "change", "verify", "delete"}
Token == [user : Users, role : Roles, exp : Nat]
Session ==
  [stage : Stages,                \* what the request does next, or how it ended
   kind : Kinds, key : Keys,      \* what it does, to which row
   value : Values, role : Roles,  \* what it was asked to write
   seen : Row \cup {Absent},      \* the row as its first query returned it
   dirty : BOOLEAN,               \* it has flushed a statement
   pending : Row \cup {Absent},   \* the row that statement makes
   by : Users \cup {Operator},    \* whose token let it in
   began : Nat]

VARIABLES
  clock,
  db,         \* db[k]: the committed row with key k, or Absent
  session,    \* session[r]: the request and its session
  tokens,     \* the JWTs that were handed out
  adminUntil  \* the last moment each user's row had the role admin (history)

vars == <<clock, db, session, tokens, adminUntil>>

Never == -1

\* The value of a request that names none.
NoValue == CHOOSE v \in Values : TRUE

Unreceived ==
  [stage |-> "idle", kind |-> "login", key |-> CHOOSE k \in Keys : TRUE,
   value |-> NoValue, role |-> "user", seen |-> Absent,
   dirty |-> FALSE, pending |-> Absent, by |-> Operator, began |-> 0]

IsAdmin(u, table) == table[u] # Absent /\ table[u].role = "admin"

Init ==
  /\ clock = 0
  /\ db \in [Keys -> Row \cup {Absent}]
  /\ \A k \in Keys \ Users : db[k] # Absent => db[k].role = "user"
  /\ session = [r \in Requests |-> Unreceived]
  /\ tokens = {}
  /\ adminUntil = [u \in Users |-> IF IsAdmin(u, db) THEN 0 ELSE Never]

-----------------------------------------------------------------------------
(* Receiving a request: authorisation, and the query that finds the row. *)

Open(r, kind, k, v, role, by) ==
  /\ session[r].stage = "idle"
  /\ session' = [session EXCEPT ![r] =
       [stage |-> "open", kind |-> kind, key |-> k, value |-> v, role |-> role,
        seen |-> db[k], dirty |-> FALSE, pending |-> Absent, by |-> by, began |-> clock]]
  /\ UNCHANGED <<clock, db, tokens, adminUntil>>

\* Fault: the expiry is not verified.
AdminsByRole == {t.user : t \in {t \in tokens : t.role = "admin"}}

\* require_admin: what counts is the token, never the row.
Admins == {t.user : t \in {t \in tokens : t.role = "admin" /\ clock < t.exp}}

Login(r) == \E u \in Users, v \in Values : Open(r, "login", u, v, "user", Operator)

\* Only with ADMIN_TOKEN; 404 without a row.
Grant(r) ==
  \E u \in Users, role \in Roles :
    db[u] # Absent /\ Open(r, "grant", u, NoValue, role, Operator)

CreatePlatform(r) ==
  \E s \in Slugs, v \in Values, by \in Admins \cup {Operator} :
    Open(r, "create", s, v, "user", by)

\* A platform of seed-platforms, which is left alone if it is there.
SeedPlatform(r) ==
  \E s \in Slugs, v \in Values :
    db[s] = Absent /\ Open(r, "create", s, v, "user", Operator)

UpdatePlatform(r) ==
  \E s \in Slugs, v \in Values, by \in Admins \cup {Operator} :
    db[s] # Absent /\ Open(r, "change", s, v, "user", by)

VerifyCredential(r) ==
  \E c \in Credentials, by \in Admins \cup {Operator} :
    db[c] # Absent /\ Open(r, "verify", c, NoValue, "user", by)

\* The id of a new rule is one that nobody else uses.
CreateRule(r) ==
  \E x \in Rules, v \in Values :
    /\ db[x] = Absent
    /\ \A q \in Requests : session[q].stage \in {"idle", "failed"} \/ session[q].key # x
    /\ Open(r, "create", x, v, "user", Operator)

\* (A body without values, which writes nothing, is left out.)
UpdateRule(r) ==
  \E x \in Rules, v \in Values : db[x] # Absent /\ Open(r, "change", x, v, "user", Operator)

\* No query before the statement, so no 404 yet.
DeleteRule(r) ==
  \E x \in Rules : Open(r, "delete", x, NoValue, "user", Operator)

-----------------------------------------------------------------------------
(* The statement, the commit, the answer. *)

\* A flushed row is locked, or its key taken, until commit or close.
Locked(k) ==
  \E q \in Requests :
    session[q].stage = "written" /\ session[q].dirty /\ session[q].key = k

Inserts(r) ==
  \/ session[r].kind = "create"
  \/ session[r].kind = "login" /\ session[r].seen = Absent

\* The ORM writes the columns that differ from what it read, and emits no
\* statement when none does.
Emits(r) ==
  CASE Inserts(r) -> TRUE
    [] ~Inserts(r) /\ session[r].kind = "login" -> session[r].value # session[r].seen.value
    [] session[r].kind = "grant" -> session[r].role # session[r].seen.role
    [] session[r].kind \in {"change", "verify", "delete"} -> TRUE

\* Fault: a login writes the whole row, with the role it read.
RowWithRoleSeen(r) ==
  LET s == session[r] IN
  CASE Inserts(r) -> [value |-> s.value, role |-> "user"]
    [] ~Inserts(r) /\ s.kind = "login" -> [value |-> s.value, role |-> s.seen.role]
    [] s.kind = "grant" -> [db[s.key] EXCEPT !.role = s.role]
    [] s.kind = "change" /\ s.key \in Slugs /\ s.value = s.seen.value -> db[s.key]
    [] s.kind = "change" /\ ~(s.key \in Slugs /\ s.value = s.seen.value) ->
         [db[s.key] EXCEPT !.value = s.value]
    [] s.kind = "verify" -> db[s.key]
    [] s.kind = "delete" -> Absent

\* The row after the statement.  An update of a rule is a statement of its own
\* and sets what it is told to, those of the ORM what has changed.
RowAfter(r) ==
  LET s == session[r] IN
  CASE Inserts(r) -> [value |-> s.value, role |-> "user"]
    [] s.kind = "grant" -> [db[s.key] EXCEPT !.role = s.role]
    [] s.kind = "verify" -> db[s.key]
    [] s.kind = "delete" -> Absent
    [] s.kind \in {"login", "change"} /\ ~Inserts(r) ->
         IF s.key \in Rules \/ s.value # s.seen.value
           THEN [db[s.key] EXCEPT !.value = s.value] ELSE db[s.key]

\* Fault: only the row that was read is asked, and not the unique key.
ConflictSeen(r) == Inserts(r) /\ session[r].seen # Absent

\* A unique key that another session has inserted in the meantime.
Conflict(r) == Inserts(r) /\ db[session[r].key] # Absent

\* DELETE or UPDATE of a rule that is not there: 404.
Missing(r) == ~Inserts(r) /\ db[session[r].key] = Absent

\* The request is answered, and its session is closed.
Close(r) ==
  session' = [session EXCEPT ![r] = [Unreceived EXCEPT !.stage = "answered",
                                       !.kind = session[r].kind, !.key = session[r].key]]

\* The request fails, and its session is closed.
Fail(r) == session' = [session EXCEPT ![r] = [Unreceived EXCEPT !.stage = "failed"]]

\* The flush; it waits for the lock.
Flush(r) ==
  /\ session[r].stage = "open"
  /\ Emits(r)
  /\ ~Locked(session[r].key) /\ ~Conflict(r) /\ ~Missing(r)
  /\ session' = [session EXCEPT ![r].stage = "written", ![r].dirty = TRUE,
                                ![r].pending = RowAfter(r)]
  /\ UNCHANGED <<clock, db, tokens, adminUntil>>

\* A flush with nothing to write.
FlushNothing(r) ==
  /\ session[r].stage = "open"
  /\ ~Emits(r)
  /\ session' = [session EXCEPT ![r].stage = "written"]
  /\ UNCHANGED <<clock, db, tokens, adminUntil>>

\* The statement fails or finds nothing, once the lock is free.
Refuse(r) ==
  /\ session[r].stage = "open"
  /\ ~Locked(session[r].key) /\ (Conflict(r) \/ Missing(r))
  /\ Fail(r)
  /\ UNCHANGED <<clock, db, tokens, adminUntil>>

\* The routes that commit.
Commits(r) == session[r].key \in Users \cup Slugs

Commit(r) ==
  /\ session[r].stage = "written" /\ Commits(r)
  /\ session' = [session EXCEPT ![r].stage = "committed"]
  /\ db' = IF session[r].dirty THEN [db EXCEPT ![session[r].key] = session[r].pending] ELSE db
  /\ adminUntil' = [u \in Users |-> IF IsAdmin(u, db') THEN clock ELSE adminUntil[u]]
  /\ UNCHANGED <<clock, tokens>>

\* _mint_jwt: the object still has the role it was read with
\* (expire_on_commit=False).
TokenOf(r) ==
  [user |-> session[r].key, exp |-> clock + Expiry,
   role |-> IF session[r].seen = Absent THEN "user" ELSE session[r].seen.role]

\* The answer of a route that has committed; a login's carries a token.
Answer(r) ==
  /\ session[r].stage = "committed"
  /\ Close(r)
  /\ tokens' = IF session[r].kind = "login" THEN tokens \cup {TokenOf(r)} ELSE tokens
  /\ UNCHANGED <<clock, db, adminUntil>>

\* The answer of a route that does not commit: the session is closed, and
\* what it flushed is rolled back.
AnswerUncommitted(r) ==
  /\ session[r].stage = "written" /\ ~Commits(r)
  /\ Close(r)
  /\ UNCHANGED <<clock, db, tokens, adminUntil>>

\* The database or the gateway fails: what is not committed is rolled back.
Abort(r) ==
  /\ session[r].stage \in {"open", "written", "committed"}
  /\ Fail(r)
  /\ UNCHANGED <<clock, db, tokens, adminUntil>>

\* Time passes; no request takes longer than RequestTime.
Tick ==
  /\ clock < MaxTime
  /\ \A r \in Requests :
       session[r].stage \in {"open", "written", "committed"}
         => clock < session[r].began + RequestTime
  /\ clock' = clock + 1
  /\ adminUntil' = [u \in Users |-> IF IsAdmin(u, db) THEN clock + 1 ELSE adminUntil[u]]
  /\ UNCHANGED <<db, session, tokens>>

-----------------------------------------------------------------------------

Receive(r) ==
  \/ Login(r) \/ Grant(r)
  \/ CreatePlatform(r) \/ SeedPlatform(r) \/ UpdatePlatform(r) \/ VerifyCredential(r)
  \/ CreateRule(r) \/ UpdateRule(r) \/ DeleteRule(r)

Step(r) ==
  \/ Flush(r) \/ FlushNothing(r) \/ Refuse(r)
  \/ Commit(r) \/ Answer(r) \/ AnswerUncommitted(r)

Next == (\E r \in Requests : Receive(r) \/ Step(r) \/ Abort(r)) \/ Tick

Spec == Init /\ [][Next]_vars

-----------------------------------------------------------------------------
(* Properties. *)

TypeOK ==
  /\ clock \in Nat
  /\ db \in [Keys -> Row \cup {Absent}]
  /\ session \in [Requests -> Session]
  /\ tokens \subseteq Token
  /\ adminUntil \in [Users -> Nat \cup {Never}]
  /\ \A t \in tokens : t.exp <= clock + Expiry
  /\ \A r \in Requests : session[r].began <= clock

\* A row of a user gets the role user when it is made, stays, and changes its
\* role only by a grant of that role: a login that read the row before the
\* grant and commits after it does not take the role back (telegram_login
\* writes other columns than grant_admin).
RolesByGrant ==
  [][\A u \in Users : db'[u] # db[u] =>
       /\ db'[u] # Absent
       /\ db[u] = Absent => db'[u].role = "user"
       /\ db[u] # Absent /\ db'[u].role # db[u].role =>
            \E r \in Requests :
              /\ session[r].kind = "grant" /\ session[r].key = u
              /\ session[r].role = db'[u].role
              /\ session[r].stage = "written" /\ session'[r].stage = "committed"]_vars

\* A user's token lets it in as an administrator (require_admin) for at most
\* the life of a token and the time of a login after its row has lost the
\* role, and never a user whose row never had it.
AdminAccessEnds ==
  \A r \in Requests : session[r].stage # "idle" /\ session[r].by \in Users =>
    /\ adminUntil[session[r].by] # Never
    /\ session[r].began < adminUntil[session[r].by] + RequestTime + Expiry

\* Of several requests and runs of seed-platforms that create a platform with
\* one slug at most one is told it has, and the platform is there then
\* (create_platform, _seed_platform).
OneCreator ==
  \A s \in Slugs :
    LET creators == {r \in Requests : /\ session[r].stage \in {"committed", "answered"}
                                      /\ session[r].kind = "create" /\ session[r].key = s}
    IN /\ Cardinality(creators) <= 1
       /\ creators # {} => db[s] # Absent

\* What the alert rule API has confirmed is stored: a rule that was created is
\* there, and one that was deleted is not (internal clients can manage alert
\* rules through the gateway).
RulesAreManaged ==
  \A r \in Requests :
    session[r].stage = "answered" /\ session[r].key \in Rules =>
      (db[session[r].key] = Absent) = (session[r].kind = "delete")
=============================================================================
