---------------------------- MODULE LoginProofs -----------------------------
(***************************************************************************)
(* Theorems about Login, for every set of packets and Sessions, every      *)
(* table of users and every size of the pool.                              *)
(***************************************************************************)
EXTENDS Login, FiniteSetTheorems, TLAPS

\* What is known of a login by how far it has come: it came from a
\* packet for a login, and from the SELECT on it has the credentials of a user
\* and an address.
Progress ==
  \A l \in Logins :
    /\ login[l] \in Running => IsLogin(PacketOf[l])
    /\ login[l] = "insert" =>
         /\ \E u \in DOMAIN Users : HasCredentialsOf(l, u)
         /\ ip[l] # "none"
         /\ ip[l] # "peer" => SessionOf[l] \notin open

\* The table is empty or holds one row, which a login that has ended wrote.
Source(r, l) ==
  /\ login[l] = "ended"
  /\ IsLogin(PacketOf[l])
  /\ \E u \in DOMAIN Users : HasCredentialsOf(l, u)
  /\ NumberOf[Request(l).user_id] = r.user_id
  /\ r.ip_address # "peer" => SessionOf[l] \notin open

OneRow == rows = {} \/ \E r : rows = {r} /\ \E l \in Logins : Source(r, l)

LoginInv == LoginTypeOK /\ Progress /\ OneRow /\ PoolConserved
-----------------------------------------------------------------------------
LEMMA InitLoginInv == LoginInit => LoginInv
<1> SUFFICES ASSUME LoginInit PROVE LoginInv
  OBVIOUS
<1> USE LoginAssumption DEF LoginInit
<1>1. LoginTypeOK
  BY DEF LoginTypeOK
<1>2. Progress
  BY DEF Progress, Running
<1>3. Holding = {}
  BY DEF Holding
<1>4. PoolConserved
  BY <1>3, FS_EmptySet DEF PoolConserved
<1> QED  BY <1>1, <1>2, <1>4 DEF LoginInv, OneRow

\* The four ways in which a step changes who holds a connection.
LEMMA HoldingChanges ==
  ASSUME LoginTypeOK, NEW l \in Logins, NEW step, Goto(l, step)
  PROVE  /\ IsFiniteSet(Holding)
         /\ Holding' = IF step \in {"select", "insert"} THEN Holding \cup {l}
                                                        ELSE Holding \ {l}
         /\ \A k \in Logins : login'[k] = IF k = l THEN step ELSE login[k]
<1>1. IsFiniteSet(Holding)
  BY LoginAssumption, FS_Subset DEF Holding
<1>2. \A k \in Logins : login'[k] = IF k = l THEN step ELSE login[k]
  BY DEF LoginTypeOK, Goto
<1> QED  BY <1>1, <1>2 DEF Holding

LEMMA PoolInductive ==
  ASSUME LoginTypeOK, PoolConserved, [LoginNext]_loginVars
  PROVE  PoolConserved'
<1>1. Holding \subseteq Logins /\ IsFiniteSet(Holding) /\ Cardinality(Holding) \in Nat
  BY LoginAssumption, FS_Subset, FS_CardinalityType DEF Holding
<1>2. CASE UNCHANGED <<login, idle>>
  BY <1>2 DEF PoolConserved, Holding
<1>3. ASSUME NEW l \in Logins, NEW step, Goto(l, step), UNCHANGED idle,
             step \in {"select", "insert"} <=> l \in Holding
      PROVE  PoolConserved'
  <2>1. Holding' = Holding
    BY <1>3, HoldingChanges
  <2> QED  BY <1>3, <2>1 DEF PoolConserved
<1>4. ASSUME NEW l \in Logins, l \in Holding, Return(l)
      PROVE  PoolConserved'
  <2>1. Holding' = Holding \ {l}
    BY <1>4, HoldingChanges DEF Return
  <2>2. Cardinality(Holding') = Cardinality(Holding) - 1
    BY <1>1, <1>4, <2>1, FS_RemoveElement
  <2> QED  BY <1>1, <1>4, <2>2 DEF Return, PoolConserved, LoginTypeOK
<1>5. ASSUME NEW l \in Logins, GetConnection(l)
      PROVE  PoolConserved'
  <2>1. Holding' = Holding \cup {l} /\ l \notin Holding
    BY <1>5, HoldingChanges DEF GetConnection, Holding
  <2>2. Cardinality(Holding') = Cardinality(Holding) + 1
    BY <1>1, <2>1, FS_AddElement
  <2> QED  BY <1>1, <1>5, <2>2 DEF GetConnection, PoolConserved, LoginTypeOK
<1>6. ASSUME NEW l \in Logins, OnPacket(l) \/ Validate(l) \/ GetConnectionFails(l)
      PROVE  PoolConserved'
  <2>1. l \notin Holding /\ UNCHANGED idle
    BY <1>6 DEF OnPacket, Validate, GetConnectionFails, Holding
  <2>2. \/ UNCHANGED login
        \/ \E step \in {"spawned", "acquire", "ended"} : Goto(l, step)
    BY <1>6 DEF OnPacket, Validate, GetConnectionFails
  <2> QED  BY <1>2, <1>3, <2>1, <2>2
<1>7. ASSUME NEW l \in Logins, SelectUser(l) \/ InsertUser(l) \/ QueryFails(l)
      PROVE  PoolConserved'
  <2>1. l \in Holding
    BY <1>7 DEF SelectUser, InsertUser, QueryFails, Holding
  <2>2. Return(l) \/ (Goto(l, "insert") /\ UNCHANGED idle)
    BY <1>7 DEF SelectUser, InsertUser, QueryFails
  <2> QED  BY <1>3, <1>4, <2>1, <2>2
<1>8. CASE \/ \E s \in Sessions : StopSession(s)
           \/ \E u \in DOMAIN Users : Deactivate(u)
           \/ UNCHANGED loginVars
  BY <1>2, <1>8 DEF StopSession, Deactivate, loginVars
<1> QED  BY <1>5, <1>6, <1>7, <1>8 DEF LoginNext, Coroutine
-----------------------------------------------------------------------------
\* A row that can be inserted is of the table's type, and there is no other.
LEMMA InsertedRow ==
  ASSUME LoginTypeOK, Progress, NEW l \in Logins, login[l] = "insert", Insertable(Row(l))
  PROVE  /\ rows = {}
         /\ Row(l) \in [session_id : {"session_id"}, user_id : Nat,
                        ip_address : {"peer", "0.0.0.0"}]
<1>1. ip[l] \in {"peer", "0.0.0.0"}
  BY DEF LoginTypeOK, Progress
<1>2. NumberOf[Request(l).user_id] \in Nat
  BY LoginAssumption DEF Insertable, Row
<1>3. \A s \in rows : s.session_id = "session_id"
  BY DEF LoginTypeOK
<1> QED  BY <1>1, <1>2, <1>3 DEF Insertable, Row

LEMMA TypeInductive ==
  ASSUME LoginTypeOK, Progress, PoolConserved, [LoginNext]_loginVars
  PROVE  LoginTypeOK'
<1> USE DEF LoginTypeOK
<1>1. Holding \subseteq Logins /\ IsFiniteSet(Holding) /\ Cardinality(Holding) \in Nat
  BY LoginAssumption, FS_Subset, FS_CardinalityType DEF Holding
<1>2. ASSUME NEW l \in Logins, OnPacket(l) \/ Validate(l) \/ GetConnectionFails(l)
      PROVE  LoginTypeOK'
  BY <1>2 DEF OnPacket, Validate, GetConnectionFails, Goto, Running
<1>3. ASSUME NEW l \in Logins, GetConnection(l)
      PROVE  LoginTypeOK'
  BY <1>3, LoginAssumption DEF GetConnection, Goto, Running
<1>4. ASSUME NEW l \in Logins, l \in Holding, Return(l)
      PROVE  /\ login' \in [Logins -> {"packet", "ended"} \cup Running]
             /\ ip' \in [Logins -> {"none", "peer", "0.0.0.0"}]
             /\ idle' \in 0 .. PoolSize
  <2>1. Cardinality(Holding) # 0
    BY <1>1, <1>4, FS_EmptySet
  <2>2. idle + 1 \in 0 .. PoolSize
    BY <1>1, <2>1, LoginAssumption DEF PoolConserved
  <2> QED  BY <1>4, <2>2 DEF Return, Goto
<1>5. ASSUME NEW l \in Logins, QueryFails(l)
      PROVE  LoginTypeOK'
  BY <1>4, <1>5 DEF QueryFails, Holding
<1>6. ASSUME NEW l \in Logins, SelectUser(l)
      PROVE  LoginTypeOK'
  <2>1. CASE Return(l)
    BY <1>4, <1>6, <2>1 DEF SelectUser, Holding
  <2>2. CASE Matches(l) /\ ~Return(l)
    BY <1>6, <2>2 DEF SelectUser, Goto, Running
  <2> QED  BY <1>6, <2>1, <2>2 DEF SelectUser
<1>7. ASSUME NEW l \in Logins, InsertUser(l)
      PROVE  LoginTypeOK'
  <2>1. login[l] = "insert" /\ Return(l)
    BY <1>7 DEF InsertUser
  <2>2. rows' \subseteq [session_id : {"session_id"}, user_id : Nat,
                         ip_address : {"peer", "0.0.0.0"}]
    <3>1. CASE Insertable(Row(l))
      BY <1>7, <2>1, <3>1, InsertedRow DEF InsertUser
    <3>2. CASE ~Insertable(Row(l))
      BY <1>7, <3>2 DEF InsertUser
    <3> QED  BY <3>1, <3>2
  <2> QED  BY <1>4, <1>7, <2>1, <2>2 DEF InsertUser, Holding
<1>8. CASE \/ \E s \in Sessions : StopSession(s)
           \/ \E u \in DOMAIN Users : Deactivate(u)
           \/ UNCHANGED loginVars
  BY <1>8 DEF StopSession, Deactivate, loginVars
<1> QED
  BY <1>2, <1>3, <1>5, <1>6, <1>7, <1>8 DEF LoginNext, Coroutine

\* A login that goes one step further takes what is known of it along.
LEMMA ProgressInductive ==
  ASSUME LoginTypeOK, Progress, [LoginNext]_loginVars
  PROVE  Progress'
<1> USE DEF LoginTypeOK, Progress, Goto, Running
<1>1. ASSUME NEW l \in Logins, OnPacket(l)
      PROVE  Progress'
  BY <1>1 DEF OnPacket, HasCredentialsOf, Request
<1>2. ASSUME NEW l \in Logins, Validate(l)
      PROVE  Progress'
  BY <1>2 DEF Validate, HasCredentialsOf, Request
<1>3. ASSUME NEW l \in Logins, GetConnection(l) \/ GetConnectionFails(l)
      PROVE  Progress'
  BY <1>3 DEF GetConnection, GetConnectionFails, HasCredentialsOf, Request
<1>4. ASSUME NEW l \in Logins, Return(l), UNCHANGED open
      PROVE  Progress'
  BY <1>4 DEF Return, HasCredentialsOf, Request
<1>5. ASSUME NEW l \in Logins, SelectUser(l)
      PROVE  Progress'
  <2>1. CASE Matches(l) /\ ~Return(l)
    <3>1. \E u \in DOMAIN Users : HasCredentialsOf(l, u)
      BY <2>1 DEF Matches
    <3> QED  BY <1>5, <2>1, <3>1 DEF SelectUser, HasCredentialsOf, Request
  <2> QED  BY <1>4, <1>5, <2>1 DEF SelectUser
<1>6. ASSUME NEW l \in Logins, InsertUser(l) \/ QueryFails(l)
      PROVE  Progress'
  BY <1>4, <1>6 DEF InsertUser, QueryFails
<1>7. CASE \/ \E s \in Sessions : StopSession(s)
           \/ \E u \in DOMAIN Users : Deactivate(u)
           \/ UNCHANGED loginVars
  BY <1>7 DEF StopSession, Deactivate, loginVars, HasCredentialsOf, Request
<1> QED
  BY <1>1, <1>2, <1>3, <1>5, <1>6, <1>7 DEF LoginNext, Coroutine

\* A login that has ended stays so, and with it the source of the row.
LEMMA RowInductive ==
  ASSUME LoginTypeOK, Progress, OneRow, [LoginNext]_loginVars
  PROVE  OneRow'
<1>1. /\ \A l \in Logins : login[l] = "ended" => login'[l] = "ended"
      /\ open' \subseteq open
  BY DEF LoginTypeOK, LoginNext, Coroutine, OnPacket, Validate, GetConnection, GetConnectionFails,
         SelectUser, InsertUser, QueryFails, Return, StopSession, Deactivate, Goto, loginVars
<1>2. ASSUME UNCHANGED rows
      PROVE  OneRow'
  <2>1. CASE rows = {}
    BY <1>2, <2>1 DEF OneRow
  <2>2. ASSUME NEW r, rows = {r}, NEW l \in Logins, Source(r, l)
        PROVE  OneRow'
    <3>1. Source(r, l)'
      BY <1>1, <2>2 DEF Source, HasCredentialsOf, Request
    <3> QED  BY <1>2, <2>2, <3>1 DEF OneRow
  <2> QED  BY <2>1, <2>2 DEF OneRow
<1>3. ASSUME NEW l \in Logins, InsertUser(l), Insertable(Row(l))
      PROVE  OneRow'
  <2>1. login[l] = "insert" /\ login'[l] = "ended"
    BY <1>3 DEF InsertUser, Return, Goto, LoginTypeOK
  <2>2. rows' = {Row(l)}
    BY <1>3, <2>1, InsertedRow DEF InsertUser
  <2>3. \E k \in Logins : /\ login'[k] = "ended"
                          /\ IsLogin(PacketOf[k])
                          /\ \E u \in DOMAIN Users : HasCredentialsOf(k, u)
                          /\ NumberOf[Request(k).user_id] = Row(l).user_id
                          /\ Row(l).ip_address # "peer" => SessionOf[k] \notin open'
    BY <2>1, <1>3 DEF Row, Progress, HasCredentialsOf, Request, Running, InsertUser
  <2> QED  BY <2>2, <2>3 DEF OneRow, Source, HasCredentialsOf, Request
<1>4. CASE UNCHANGED loginVars
  BY <1>2, <1>4 DEF loginVars
<1>5. CASE LoginNext
  <2>1. UNCHANGED rows \/ \E l \in Logins : InsertUser(l) /\ Insertable(Row(l))
    BY <1>5 DEF LoginNext, Coroutine, OnPacket, Validate, GetConnection, GetConnectionFails,
                SelectUser, InsertUser, QueryFails, StopSession, Deactivate
  <2> QED  BY <1>2, <1>3, <2>1
<1> QED  BY <1>4, <1>5

LEMMA LoginInvariant == LoginSpec => []LoginInv
<1>1. LoginInv /\ [LoginNext]_loginVars => LoginInv'
  BY PoolInductive, TypeInductive, ProgressInductive, RowInductive DEF LoginInv
<1> QED  BY <1>1, InitLoginInv, PTL DEF LoginSpec

LEMMA LoginInvImplies ==
  LoginInv => LoginTypeOK /\ PoolConserved /\ RowsAreAuthenticated
<1> SUFFICES ASSUME LoginInv PROVE RowsAreAuthenticated
  BY DEF LoginInv
<1>1. CASE rows = {}
  BY <1>1, FS_EmptySet DEF RowsAreAuthenticated
<1>2. ASSUME NEW r, rows = {r}, NEW l \in Logins, Source(r, l)
      PROVE  RowsAreAuthenticated
  <2>1. Cardinality(rows) = 1
    BY <1>2, FS_Singleton
  <2>2. \A q \in rows : Source(q, l)
    BY <1>2
  <2> QED  BY <1>2, <2>1, <2>2 DEF RowsAreAuthenticated, Source
<1> QED  BY <1>1, <1>2 DEF LoginInv, OneRow
-----------------------------------------------------------------------------
\* Every variable keeps to its type, the rows of login_sessions among them.
THEOREM TypeCorrect == LoginSpec => []LoginTypeOK
BY LoginInvariant, LoginInvImplies, PTL

\* AuthService::login never keeps a connection beyond its end and never gives
\* one back twice, for any number of logins and connections.
THEOREM ConnectionsComeBack == LoginSpec => []PoolConserved
BY LoginInvariant, LoginInvImplies, PTL

\* For every collation: no login writes a row without the credentials of a
\* user as the database compares them, and the constant session id admits one
\* row only.
THEOREM NoRowWithoutCredentials == LoginSpec => []RowsAreAuthenticated
BY LoginInvariant, LoginInvImplies, PTL

-----------------------------------------------------------------------------
(***************************************************************************)
(* What LoginsEnd rests on: a login has a few steps to go and none takes   *)
(* it back, and one that waits for the pool waits for a login that runs.   *)
(***************************************************************************)
StepsLeft(step) ==
  CASE step = "packet"  -> 5
    [] step = "spawned" -> 4
    [] step = "acquire" -> 3
    [] step = "select"  -> 2
    [] step = "insert"  -> 1
    [] OTHER            -> 0

\* No step of any login, Session or user takes a login back, a stopped
\* Session up again or a row away, and a step of the coroutine advances it.
OnlyForward ==
  [][/\ \A l \in Logins : StepsLeft(login'[l]) <= StepsLeft(login[l])
     /\ \A l \in Logins : Coroutine(l) => StepsLeft(login'[l]) < StepsLeft(login[l])
     /\ open' \subseteq open
     /\ rows \subseteq rows']_loginVars

\* A login takes at most four steps after its packet, whatever the others do.
THEOREM LoginsOnlyAdvance == LoginSpec => OnlyForward
<1>1. ASSUME LoginTypeOK, NEW l \in Logins, NEW step, Goto(l, step),
             StepsLeft(step) < StepsLeft(login[l])
      PROVE  /\ \A k \in Logins : StepsLeft(login'[k]) <= StepsLeft(login[k])
             /\ StepsLeft(login'[l]) < StepsLeft(login[l])
  <2>1. \A k \in Logins : login'[k] = IF k = l THEN step ELSE login[k]
    BY <1>1 DEF LoginTypeOK, Goto
  <2>2. \A s : StepsLeft(s) \in Nat
    BY DEF StepsLeft
  <2> QED  BY <1>1, <2>1, <2>2
<1>2. ASSUME LoginTypeOK, NEW l \in Logins, Coroutine(l)
      PROVE  /\ \A k \in Logins : StepsLeft(login'[k]) <= StepsLeft(login[k])
             /\ StepsLeft(login'[l]) < StepsLeft(login[l])
  <2>1. \E step \in {"acquire", "select", "insert", "ended"} :
          Goto(l, step) /\ StepsLeft(step) < StepsLeft(login[l])
    BY <1>2 DEF Coroutine, Validate, GetConnection, SelectUser, InsertUser, QueryFails,
                Return, StepsLeft
  <2> QED  BY <1>1, <1>2, <2>1
<1>3. ASSUME LoginTypeOK, NEW l \in Logins, OnPacket(l) \/ GetConnectionFails(l)
      PROVE  \A k \in Logins : StepsLeft(login'[k]) <= StepsLeft(login[k])
  <2>1. \/ UNCHANGED login
        \/ \E step \in {"spawned", "ended"} :
             Goto(l, step) /\ StepsLeft(step) < StepsLeft(login[l])
    BY <1>3 DEF OnPacket, GetConnectionFails, StepsLeft
  <2>2. \A s : StepsLeft(s) \in Nat
    BY DEF StepsLeft
  <2> QED  BY <1>1, <1>3, <2>1, <2>2
<1>4. ASSUME LoginTypeOK, LoginNext
      PROVE  \A k \in Logins : StepsLeft(login'[k]) <= StepsLeft(login[k])
  <2>1. CASE \/ \E s \in Sessions : StopSession(s)
             \/ \E u \in DOMAIN Users : Deactivate(u)
    <3>1. \A s : StepsLeft(s) \in Nat
      BY DEF StepsLeft
    <3> QED  BY <2>1, <3>1 DEF StopSession, Deactivate
  <2> QED  BY <1>2, <1>3, <1>4, <2>1 DEF LoginNext
<1>5. ASSUME LoginNext
      PROVE  open' \subseteq open /\ rows \subseteq rows'
  BY <1>5 DEF LoginNext, Coroutine, OnPacket, Validate, GetConnection, GetConnectionFails,
              SelectUser, InsertUser, QueryFails, StopSession, Deactivate
<1>6. LoginTypeOK /\ [LoginNext]_loginVars
        => [/\ \A l \in Logins : StepsLeft(login'[l]) <= StepsLeft(login[l])
            /\ \A l \in Logins : Coroutine(l) => StepsLeft(login'[l]) < StepsLeft(login[l])
            /\ open' \subseteq open
            /\ rows \subseteq rows']_loginVars
  BY <1>2, <1>4, <1>5
<1> QED  BY <1>6, TypeCorrect, PTL DEF LoginSpec, OnlyForward

\* The pool is empty only while a login that needs no other to go on holds a
\* connection, so waiting logins never wait for each other.
NoPoolDeadlock ==
  idle = 0 => \E l \in Logins : login[l] \in {"select", "insert"}

\* For every size of the pool but zero: no set of logins waits in a circle.
THEOREM PoolNeverDeadlocks == LoginSpec => []NoPoolDeadlock
<1>1. LoginInv => NoPoolDeadlock
  <2> SUFFICES ASSUME LoginInv, idle = 0 PROVE Holding # {}
    BY DEF NoPoolDeadlock, Holding
  <2>1. Cardinality(Holding) = PoolSize /\ PoolSize # 0
    BY LoginAssumption, FS_Subset, FS_CardinalityType DEF LoginInv, PoolConserved, Holding
  <2> QED  BY <2>1, FS_EmptySet
<1> QED  BY <1>1, LoginInvariant, PTL
=============================================================================
