-------------------------------- MODULE Login -------------------------------
(***************************************************************************)
(* A login from the packet to the database: Router, AuthHandler, and the   *)
(* coroutine AuthService::login with the connection pool and the tables of *)
(* schema.sql.  A login is a coroutine on the strand of its Session and    *)
(* keeps the Session alive; the logins of all Sessions share the pool.     *)
(*                                                                         *)
(* Nothing reaches Router's branch for Auth packets today: the parser      *)
(* knows neither the packet type Auth nor the sub header Action.  The      *)
(* packets here are those a parser that knows both would hand over.        *)
(***************************************************************************)
EXTENDS Integers, FiniteSets

CONSTANTS
  Logins,       \* packets that arrive, each handled at most once
  Sessions,
  SessionOf,    \* the Session of each packet
  PacketOf,      \* what each packet holds, see PacketShape
  WellFormed,   \* the user ids that the regular expression accepts
  Length,       \* the length of each user id and password
  Users,        \* table users: its id and password_hash by user_id
  Collate,      \* what utf8mb4_unicode_ci compares of a string: neither case
                \* nor accents nor the blanks at its end
  NumberOf,     \* the number that MySQL reads from a user id, 0 if it is none
  PoolSize      \* connections of the pool

PacketShape ==
  [type     : {"Auth", "Text", "File", "Video"},
   action   : {{}} \cup {{b} : b \in 0 .. 255},   \* sub_header_get_uint8(Action)
   readable : BOOLEAN,                            \* the payload is a request
   user_id  : STRING,
   password : STRING]

ASSUME LoginAssumption ==
  /\ IsFiniteSet(Logins)
  /\ SessionOf \in [Logins -> Sessions]
  /\ PacketOf \in [Logins -> PacketShape]
  /\ PoolSize \in Nat \ {0}
  /\ \A u \in DOMAIN Users : Users[u].id \in Nat
  /\ \A u, v \in DOMAIN Users : Collate[u] = Collate[v] => u = v

VARIABLES
  loginFault,      \* the exception that left a worker thread, or none
  login,      \* how far each login is
  ip,         \* the address that it found, until it is inserted
  idle,       \* connections in the pool that no login holds
  open,       \* the Sessions that are not stopped
  active,     \* the user ids with is_active = 1
  rows        \* table login_sessions

loginVars == <<loginFault, login, ip, idle, open, active, rows>>

Running == {"spawned", "acquire", "select", "insert"}

LoginTypeOK ==
  /\ loginFault \in {"none", "archive_exception"}
  /\ login \in [Logins -> {"packet", "ended"} \cup Running]
  /\ ip \in [Logins -> {"none", "peer", "0.0.0.0"}]
  /\ idle \in 0 .. PoolSize
  /\ open \subseteq Sessions
  /\ active \subseteq DOMAIN Users
  /\ rows \subseteq [session_id : {"session_id"}, user_id : Nat, ip_address : {"peer", "0.0.0.0"}]

LoginInit ==
  /\ loginFault = "none"
  /\ login = [l \in Logins |-> "packet"]
  /\ ip = [l \in Logins |-> "none"]
  /\ idle = PoolSize
  /\ open = Sessions
  /\ active = DOMAIN Users
  /\ rows = {}

LoginUp == loginFault = "none"
-----------------------------------------------------------------------------
ActionFromByte(b) ==
  CASE b = 10 -> "Login"
    [] b = 11 -> "Register"
    [] OTHER  -> "Unknown"

IsLogin(p) == p.type = "Auth" /\ \E b \in p.action : ActionFromByte(b) = "Login"

Goto(l, step) == login' = [login EXCEPT ![l] = step]

\* Session::on_packet: Router::route and AuthHandler::handle.  Any packet but
\* a login is ignored; the archive throws if the payload is not a request.
OnPacket(l) ==
  LET p == PacketOf[l]
  IN  /\ LoginUp
      /\ SessionOf[l] \in open
      /\ login[l] = "packet"
      /\ \/ ~IsLogin(p) /\ Goto(l, "ended") /\ UNCHANGED loginFault
         \/ /\ IsLogin(p) /\ p.readable
            /\ Goto(l, "spawned")
            /\ UNCHANGED loginFault
         \/ /\ IsLogin(p) /\ ~p.readable
            /\ loginFault' = "archive_exception"
            /\ UNCHANGED login
      /\ UNCHANGED <<ip, idle, open, active, rows>>

\* The names say what each function was meant for; the last two return TRUE
\* for what is too short.
IsValidUserId(id) == id \in WellFormed
IsValidUserIdLength(id) == Length[id] < 4
IsValidPasswordLength(password) == Length[password] < 6

Request(l) == PacketOf[l]

\* The chain of tests ends the login when any of them is TRUE.
Rejected(l) ==
  \/ IsValidUserId(Request(l).user_id)
  \/ IsValidUserIdLength(Request(l).user_id)
  \/ IsValidPasswordLength(Request(l).password)

Validate(l) ==
  /\ LoginUp
  /\ login[l] = "spawned"
  /\ Goto(l, IF Rejected(l) THEN "ended" ELSE "acquire")
  /\ UNCHANGED <<loginFault, ip, idle, open, active, rows>>

\* async_get_connection, once the pool has an idle connection
GetConnection(l) ==
  /\ LoginUp
  /\ login[l] = "acquire"
  /\ idle > 0
  /\ idle' = idle - 1
  /\ Goto(l, "select")
  /\ UNCHANGED <<loginFault, ip, open, active, rows>>

\* The pool gives none, for instance because it is not running any more.
GetConnectionFails(l) ==
  /\ LoginUp
  /\ login[l] = "acquire"
  /\ Goto(l, "ended")
  /\ UNCHANGED <<loginFault, ip, idle, open, active, rows>>

\* The coroutine returns or throws, which detached ignores: its frame is
\* destroyed, and the pooled_connection gives its connection back.
Return(l) ==
  /\ Goto(l, "ended")
  /\ idle' = idle + 1
  /\ ip' = [ip EXCEPT ![l] = "none"]

\* Seeded fault: no connection comes back from a query that fails.
QueryFailsWithConnection(l) ==
  /\ LoginUp
  /\ login[l] \in {"select", "insert"}
  /\ Goto(l, "ended")
  /\ ip' = [ip EXCEPT ![l] = "none"]
  /\ UNCHANGED <<loginFault, idle, open, active, rows>>

\* Preparing or executing a statement fails, which throws.
QueryFails(l) ==
  /\ LoginUp
  /\ login[l] \in {"select", "insert"}
  /\ Return(l)
  /\ UNCHANGED <<loginFault, open, active, rows>>

\* The columns compare under the collation of the table, which is that of the
\* database.
HasCredentialsOf(l, u) ==
  /\ Collate[u] = Collate[Request(l).user_id]
  /\ Collate[Users[u].password_hash] = Collate[Request(l).password]

Matches(l) == \E u \in active : HasCredentialsOf(l, u)

\* Seeded fault: the login goes on whether or not a row was selected.
SelectUserUnchecked(l) ==
  /\ LoginUp
  /\ login[l] = "select"
  /\ Goto(l, "insert")
  /\ ip' = [ip EXCEPT ![l] = IF SessionOf[l] \in open THEN "peer" ELSE "0.0.0.0"]
  /\ UNCHANGED <<loginFault, idle, open, active, rows>>

\* Seeded fault: the connection is given to selectUser and back to the pool.
SelectUserReturnsConnection(l) ==
  /\ LoginUp
  /\ login[l] = "select"
  /\ Matches(l)
  /\ idle' = idle + 1
  /\ Goto(l, "insert")
  /\ UNCHANGED <<loginFault, ip, open, active, rows>>

\* selectUser, and get_remote_address() of a Session that may be stopped, for
\* which it is the unspecified address
SelectUser(l) ==
  /\ LoginUp
  /\ login[l] = "select"
  /\ \/ /\ Matches(l)
        /\ Goto(l, "insert")
        /\ ip' = [ip EXCEPT ![l] = IF SessionOf[l] \in open THEN "peer" ELSE "0.0.0.0"]
        /\ UNCHANGED idle
     \/ ~Matches(l) /\ Return(l)
  /\ UNCHANGED <<loginFault, open, active, rows>>

Row(l) == [session_id |-> "session_id", user_id |-> NumberOf[Request(l).user_id],
           ip_address |-> ip[l]]

\* The primary key, and the foreign key to users(id)
Insertable(r) ==
  /\ \A s \in rows : s.session_id # r.session_id
  /\ \E u \in DOMAIN Users : Users[u].id = r.user_id

\* insertUser, which throws if the row is refused.  The key of the row is no
\* AUTO_INCREMENT, so last_insert_id() is 0, insertUser returns false, and
\* updateUser is not called.
InsertUser(l) ==
  /\ LoginUp
  /\ login[l] = "insert"
  /\ rows' = IF Insertable(Row(l)) THEN rows \cup {Row(l)} ELSE rows
  /\ Return(l)
  /\ UNCHANGED <<loginFault, open, active>>

\* Session::stop, by a timer, an error or the peer
StopSession(s) ==
  /\ LoginUp
  /\ open' = open \ {s}
  /\ s \in open
  /\ UNCHANGED <<loginFault, login, ip, idle, active, rows>>

\* Somebody clears is_active.
Deactivate(u) ==
  /\ LoginUp
  /\ u \in active
  /\ active' = active \ {u}
  /\ UNCHANGED <<loginFault, login, ip, idle, open, rows>>
-----------------------------------------------------------------------------
Coroutine(l) ==
  \/ Validate(l)
  \/ GetConnection(l)
  \/ SelectUser(l)
  \/ InsertUser(l)
  \/ QueryFails(l)

LoginNext ==
  \/ \E l \in Logins : OnPacket(l) \/ Coroutine(l) \/ GetConnectionFails(l)
  \/ \E s \in Sessions : StopSession(s)
  \/ \E u \in DOMAIN Users : Deactivate(u)

LoginSpec == LoginInit /\ [][LoginNext]_loginVars

\* The database answers, and the pool gives out its idle connections; it need
\* not give an error to those who wait.
LoginFairness == \A l \in Logins : WF_loginVars(Coroutine(l))
-----------------------------------------------------------------------------
Holding == {l \in Logins : login[l] \in {"select", "insert"}}

\* Every connection is in the pool or with exactly one login that runs,
\* whichever way logins end.
PoolConserved == idle + Cardinality(Holding) = PoolSize

\* Only a login with the credentials of a user, as the database compares them,
\* leaves a row, and as every login uses the same session id, there is one row
\* at most.  The row names the user whose id MySQL reads from the user_id sent,
\* which need not be the user whose credentials they are.  An address that is
\* not the peer's is that of a Session which was stopped meanwhile.
RowsAreAuthenticated ==
  /\ Cardinality(rows) <= 1
  /\ \A r \in rows : \E l \in Logins :
       /\ login[l] = "ended"
       /\ IsLogin(PacketOf[l])
       /\ \E u \in DOMAIN Users : HasCredentialsOf(l, u)
       /\ NumberOf[Request(l).user_id] = r.user_id
       /\ r.ip_address # "peer" => SessionOf[l] \notin open

Alive(s) == s \in open \/ \E l \in Logins : SessionOf[l] = s /\ login[l] \in Running

\* A login ends, also when all connections are taken, when queries fail and
\* when its Session stops meanwhile; so a stopped Session is released in the
\* end.  The process must not end first.
LoginsEnd ==
  \A s \in Sessions : (s \notin open) ~> (~LoginUp \/ ~Alive(s))
=============================================================================
