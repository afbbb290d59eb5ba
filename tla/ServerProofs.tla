---------------------------- MODULE ServerProofs ----------------------------
(***************************************************************************)
(* Theorems about Server, for every finite set of clients, every limit on  *)
(* the sessions and every number of worker threads.                        *)
(***************************************************************************)
EXTENDS Server, FiniteSetTheorems, TLAPS

\* Every variable keeps to its type; the counter of add_connection() stays
\* within the limit.
THEOREM TypeCorrect == Spec => []TypeOK
<1>1. Init => TypeOK
  BY ServerAssumption DEF Init, TypeOK, Phases, AcceptStates
<1>2. TypeOK /\ [Next]_vars => TypeOK'
  <2> SUFFICES ASSUME TypeOK, [Next]_vars PROVE TypeOK'
    OBVIOUS
  <2> USE ServerAssumption DEF TypeOK, Phases, AcceptStates, DoAccept
  <2>1. CASE AcceptFails
    BY <2>1 DEF AcceptFails
  <2>2. CASE AcceptAfterClose
    BY <2>2 DEF AcceptAfterClose, MovePhase
  <2>3. CASE AcceptError
    BY <2>3 DEF AcceptError
  <2>4. ASSUME NEW c \in Conns, ClientConnects(c) PROVE TypeOK'
    BY <2>4 DEF ClientConnects, MovePhase
  <2>5. ASSUME NEW c \in Conns, AcceptCompletes(c) PROVE TypeOK'
    BY <2>5 DEF AcceptCompletes, MovePhase
  <2>6. ASSUME NEW c \in Conns, AddConnection(c) PROVE TypeOK'
    BY <2>6 DEF AddConnection, BeginAccept, MovePhase
  <2>7. ASSUME NEW c \in Conns, RejectConnection(c) PROVE TypeOK'
    BY <2>7 DEF RejectConnection, BeginAccept, MovePhase
  <2>8. ASSUME NEW c \in Conns, AcceptThrows(c) PROVE TypeOK'
    BY <2>8 DEF AcceptThrows
  <2>9. ASSUME NEW c \in Conns, StartSession(c) PROVE TypeOK'
    BY <2>9 DEF StartSession, MovePhase
  <2>10. ASSUME NEW c \in Conns, InsertSession(c) PROVE TypeOK'
    BY <2>10 DEF InsertSession, MovePhase
  <2>11. ASSUME NEW c \in Conns, StopSession(c) PROVE TypeOK'
    BY <2>11 DEF StopSession
  <2>12. ASSUME NEW c \in Conns, RemoveSession(c) PROVE TypeOK'
    BY <2>12 DEF RemoveSession
  <2>13. ASSUME NEW c \in Conns, SessionThrows(c) PROVE TypeOK'
    BY <2>13 DEF SessionThrows
  <2>14. CASE StopServer
    BY <2>14 DEF StopServer
  <2>15. CASE StopContext
    BY <2>15 DEF StopContext
  <2>16. CASE UNCHANGED vars
    BY <2>16 DEF vars
  <2> QED
    BY <2>1, <2>2, <2>3, <2>4, <2>5, <2>6, <2>7, <2>8, <2>9, <2>10, <2>11,
       <2>12, <2>13, <2>14, <2>15, <2>16
    DEF Next, Kernel, AcceptHandler, SessionHandler
<1> QED  BY <1>1, <1>2, PTL DEF Spec
-----------------------------------------------------------------------------
(***************************************************************************)
(* There is one accept chain: while its handler is inside a connection,    *)
(* no other connection is on its way, and no async_accept is outstanding.  *)
(* A connection has a session, and a place in sessions_, only after the    *)
(* handler has come that far with it.                                      *)
(***************************************************************************)
OneChain ==
  /\ \A c \in Conns : phase[c] \in {"admitted", "starting"} => accept = "running"
  /\ \A c, d \in Conns : phase[c] \in {"admitted", "starting"}
                       /\ phase[d] \in {"admitted", "starting"} => c = d
  /\ \A c \in Conns : session[c] # "none" <=> phase[c] \in {"starting", "inserted"}
  /\ SessionsTracked

LEMMA OneChainInductive == TypeOK /\ OneChain /\ [Next]_vars => OneChain'
<1> SUFFICES ASSUME TypeOK, OneChain, [Next]_vars PROVE OneChain'
  OBVIOUS
<1> USE DEF TypeOK, OneChain, SessionsTracked
<1>1. CASE AcceptFails
  BY <1>1 DEF AcceptFails
<1>2. CASE AcceptAfterClose
  BY <1>2 DEF AcceptAfterClose, MovePhase
<1>3. CASE AcceptError
  BY <1>3 DEF AcceptError
<1>4. ASSUME NEW c \in Conns, ClientConnects(c) PROVE OneChain'
  BY <1>4 DEF ClientConnects, MovePhase
<1>5. ASSUME NEW c \in Conns, AcceptCompletes(c) PROVE OneChain'
  BY <1>5 DEF AcceptCompletes, MovePhase
<1>6. ASSUME NEW c \in Conns, AddConnection(c) PROVE OneChain'
  BY <1>6 DEF AddConnection, BeginAccept, MovePhase
<1>7. ASSUME NEW c \in Conns, RejectConnection(c) PROVE OneChain'
  BY <1>7 DEF RejectConnection, BeginAccept, MovePhase
<1>8. ASSUME NEW c \in Conns, AcceptThrows(c) PROVE OneChain'
  BY <1>8 DEF AcceptThrows
<1>9. ASSUME NEW c \in Conns, StartSession(c) PROVE OneChain'
  BY <1>9 DEF StartSession, MovePhase
<1>10. ASSUME NEW c \in Conns, InsertSession(c) PROVE OneChain'
  BY <1>10 DEF InsertSession, MovePhase
<1>11. ASSUME NEW c \in Conns, StopSession(c) PROVE OneChain'
  BY <1>11 DEF StopSession
<1>12. ASSUME NEW c \in Conns, RemoveSession(c) PROVE OneChain'
  BY <1>12 DEF RemoveSession
<1>13. ASSUME NEW c \in Conns, SessionThrows(c) PROVE OneChain'
  BY <1>13 DEF SessionThrows
<1>14. CASE StopServer
  BY <1>14 DEF StopServer
<1>15. CASE StopContext
  BY <1>15 DEF StopContext
<1>16. CASE UNCHANGED vars
  BY <1>16 DEF vars
<1> QED
  BY <1>1, <1>2, <1>3, <1>4, <1>5, <1>6, <1>7, <1>8, <1>9, <1>10, <1>11,
     <1>12, <1>13, <1>14, <1>15, <1>16
  DEF Next, Kernel, AcceptHandler, SessionHandler

LEMMA OneChainInvariant == Spec => []OneChain
<1>1. Init => OneChain
  BY DEF Init, OneChain, SessionsTracked
<1> QED  BY <1>1, OneChainInductive, TypeCorrect, PTL DEF Spec

\* With any number of threads, sessions_ holds every session that runs after
\* its accept handler is done, and only sessions that were inserted.
THEOREM RunningSessionsAreTracked == Spec => []SessionsTracked
<1>1. OneChain => SessionsTracked
  BY DEF OneChain
<1> QED  BY <1>1, OneChainInvariant, PTL
-----------------------------------------------------------------------------
\* The counter is the number of connections ever admitted.
Counted == active = Cardinality(Admitted)

LEMMA CountedInductive == TypeOK /\ Counted /\ [Next]_vars => Counted'
<1> SUFFICES ASSUME TypeOK, Counted, [Next]_vars PROVE Counted'
  OBVIOUS
<1>1. IsFiniteSet(Admitted)
  BY ServerAssumption, FS_Subset DEF Admitted
<1>2. ASSUME NEW c \in Conns, AddConnection(c) PROVE Counted'
  <2>1. c \notin Admitted /\ Admitted' = Admitted \cup {c}
    BY <1>2 DEF AddConnection, BeginAccept, MovePhase, Admitted, TypeOK
  <2>2. Cardinality(Admitted \cup {c}) = Cardinality(Admitted) + 1
    BY <1>1, <2>1, FS_AddElement
  <2>3. active' = active + 1
    BY <1>2 DEF AddConnection
  <2> QED  BY <2>1, <2>2, <2>3 DEF Counted
<1>3. CASE UNCHANGED <<active, Admitted>>
  BY <1>3 DEF Counted
<1>4. ASSUME NEW c \in Conns, NEW from, NEW to, MovePhase(c, from, to),
             from \in {"admitted", "starting", "inserted"}
               <=> to \in {"admitted", "starting", "inserted"}
      PROVE  Admitted' = Admitted
  BY <1>4 DEF MovePhase, Admitted, TypeOK
<1>5. ASSUME UNCHANGED phase PROVE Admitted' = Admitted
  BY <1>5 DEF Admitted
<1>6. CASE AcceptFails
  BY <1>3, <1>5, <1>6 DEF AcceptFails
<1>7. CASE AcceptAfterClose
  BY <1>3, <1>4, <1>5, <1>7 DEF AcceptAfterClose
<1>8. CASE AcceptError
  BY <1>3, <1>5, <1>8 DEF AcceptError
<1>9. ASSUME NEW c \in Conns, ClientConnects(c) PROVE Counted'
  BY <1>3, <1>4, <1>9 DEF ClientConnects
<1>10. ASSUME NEW c \in Conns, AcceptCompletes(c) PROVE Counted'
  BY <1>3, <1>4, <1>10 DEF AcceptCompletes
<1>11. ASSUME NEW c \in Conns, RejectConnection(c) PROVE Counted'
  BY <1>3, <1>4, <1>11 DEF RejectConnection
<1>12. ASSUME NEW c \in Conns, StartSession(c) PROVE Counted'
  BY <1>3, <1>4, <1>12 DEF StartSession
<1>13. ASSUME NEW c \in Conns, InsertSession(c) PROVE Counted'
  BY <1>3, <1>4, <1>13 DEF InsertSession
<1>14. ASSUME NEW c \in Conns,
              AcceptThrows(c) \/ StopSession(c) \/ RemoveSession(c) \/ SessionThrows(c)
       PROVE  Counted'
  BY <1>3, <1>5, <1>14 DEF AcceptThrows, StopSession, RemoveSession, SessionThrows
<1>15. CASE StopServer
  <2>1. Admitted' = Admitted
    BY <1>15 DEF StopServer, Admitted, TypeOK
  <2> QED  BY <1>3, <1>15, <2>1 DEF StopServer
<1>16. CASE StopContext
  BY <1>3, <1>5, <1>16 DEF StopContext
<1>17. CASE UNCHANGED vars
  BY <1>3, <1>5, <1>17 DEF vars
<1> QED
  BY <1>2, <1>6, <1>7, <1>8, <1>9, <1>10, <1>11, <1>12, <1>13, <1>14, <1>15,
     <1>16, <1>17
  DEF Next, Kernel, AcceptHandler, SessionHandler

\* For every number of clients and of threads there are never more sessions
\* than max_sessions.
THEOREM CapacityIsRespected == Spec => []CapacityRespected
<1>1. Init => Counted
  <2> SUFFICES ASSUME Init PROVE Counted
    OBVIOUS
  <2>1. Admitted = {}
    BY DEF Init, Admitted
  <2> QED  BY <2>1, FS_EmptySet DEF Init, Counted
<1>2. TypeOK /\ OneChain /\ Counted => CapacityRespected
  <2> SUFFICES ASSUME TypeOK, OneChain, Counted PROVE CapacityRespected
    OBVIOUS
  <2>1. Live \subseteq Admitted
    BY DEF OneChain, Live, Admitted
  <2>2. IsFiniteSet(Admitted)
    BY ServerAssumption, FS_Subset DEF Admitted
  <2>3. Cardinality(Live) <= Cardinality(Admitted)
    BY <2>1, <2>2, FS_Subset
  <2> QED  BY <2>3, ServerAssumption DEF TypeOK, Counted, CapacityRespected
<1> QED
  BY <1>1, <1>2, CountedInductive, OneChainInvariant, TypeCorrect, PTL DEF Spec
-----------------------------------------------------------------------------
\* One step of the server is, for each connection, a step of its life or none.
LEMMA LifeStepSimulation ==
  ASSUME TypeOK, OneChain, [Next]_vars, NEW e \in Conns
  PROVE  [Life(e)!LifeNext]_(Life(e)!lifeVars)
<1> DEFINE Stage(c) == IF phase[c] \in {"starting", "inserted"} THEN phase[c]
                                                               ELSE "accepted"
<1>1. ASSUME UNCHANGED <<session, sessions_, fault>>, Stage(e)' = Stage(e)
      PROVE  UNCHANGED Life(e)!lifeVars
  BY <1>1 DEF Life!lifeVars, Up
<1>2. ASSUME UNCHANGED <<phase, session, sessions_>>, Up, fault' # "none"
      PROVE  Life(e)!LifeNext
  BY <1>2 DEF Life!LifeNext, Life!LifeThrow, Up
<1>3. ASSUME NEW c \in Conns, NEW from, NEW to, MovePhase(c, from, to),
             from \notin {"starting", "inserted"}, to \notin {"starting", "inserted"}
      PROVE  Stage(e)' = Stage(e)
  BY <1>3 DEF MovePhase, TypeOK
<1>4. CASE AcceptFails \/ AcceptError \/ StopContext \/ UNCHANGED vars
  BY <1>1, <1>4 DEF AcceptFails, AcceptError, StopContext, vars
<1>5. CASE AcceptAfterClose
  BY <1>1, <1>3, <1>5 DEF AcceptAfterClose
<1>6. CASE StopServer
  <2>1. Stage(e)' = Stage(e)
    BY <1>6 DEF StopServer, TypeOK
  <2> QED  BY <1>1, <1>6, <2>1 DEF StopServer
<1>7. ASSUME NEW c \in Conns,
             \/ ClientConnects(c) \/ AcceptCompletes(c)
             \/ AddConnection(c) \/ RejectConnection(c)
      PROVE  UNCHANGED Life(e)!lifeVars
  BY <1>1, <1>3, <1>7
  DEF ClientConnects, AcceptCompletes, AddConnection, RejectConnection
<1>8. ASSUME NEW c \in Conns, AcceptThrows(c) \/ SessionThrows(c)
      PROVE  Life(e)!LifeNext
  BY <1>2, <1>8 DEF AcceptThrows, SessionThrows, CanRunHandler
<1>9. ASSUME NEW c \in Conns, StartSession(c)
      PROVE  [Life(e)!LifeNext]_(Life(e)!lifeVars)
  <2>1. CASE e = c
    BY <1>9, <2>1 DEF StartSession, MovePhase, OneChain, TypeOK, Up,
                      Life!LifeNext, Life!LifeStep, Life!LifeStart
  <2>2. CASE e # c
    BY <1>9, <2>2 DEF StartSession, MovePhase, TypeOK, Up, Life!lifeVars
  <2> QED  BY <2>1, <2>2
<1>10. ASSUME NEW c \in Conns, InsertSession(c)
       PROVE  [Life(e)!LifeNext]_(Life(e)!lifeVars)
  <2>1. CASE e = c
    BY <1>10, <2>1 DEF InsertSession, MovePhase, TypeOK, Up,
                       Life!LifeNext, Life!LifeStep, Life!LifeInsert
  <2>2. CASE e # c
    BY <1>10, <2>2 DEF InsertSession, MovePhase, TypeOK, Up, Life!lifeVars
  <2> QED  BY <2>1, <2>2
<1>11. ASSUME NEW c \in Conns, StopSession(c)
       PROVE  [Life(e)!LifeNext]_(Life(e)!lifeVars)
  <2>1. CASE e = c
    BY <1>11, <2>1 DEF StopSession, CanRunHandler, TypeOK, Up,
                       Life!LifeNext, Life!LifeStep, Life!LifeStop
  <2>2. CASE e # c
    BY <1>11, <2>2 DEF StopSession, TypeOK, Up, Life!lifeVars
  <2> QED  BY <2>1, <2>2
<1>12. ASSUME NEW c \in Conns, RemoveSession(c)
       PROVE  [Life(e)!LifeNext]_(Life(e)!lifeVars)
  <2>1. CASE e = c
    BY <1>12, <2>1 DEF RemoveSession, TypeOK, Up,
                       Life!LifeNext, Life!LifeStep, Life!LifeRemove
  <2>2. CASE e # c
    BY <1>12, <2>2 DEF RemoveSession, TypeOK, Up, Life!lifeVars
  <2> QED  BY <2>1, <2>2
<1> QED
  BY <1>4, <1>5, <1>1, <1>6, <1>7, <1>8, <1>9, <1>10, <1>11, <1>12
  DEF Next, Kernel, AcceptHandler, SessionHandler

\* Every connection of the server lives the life that module Connection
\* implements in detail.
THEOREM EveryConnectionLives == Spec => ConnectionsLive
<1> DEFINE LifeStepsOnly ==
      \A c \in Conns : [Life(c)!LifeNext]_(Life(c)!lifeVars)
<1>1. Init => \A c \in Conns : Life(c)!LifeInit
  BY DEF Init, Life!LifeInit, Up
<1>2. TypeOK /\ OneChain /\ [Next]_vars => [LifeStepsOnly]_vars
  BY LifeStepSimulation
<1> QED
  BY <1>1, <1>2, OneChainInvariant, TypeCorrect, PTL DEF Spec, ConnectionsLive
-----------------------------------------------------------------------------
(***************************************************************************)
(* One worker thread: while the accept handler is inside a connection no   *)
(* session can stop, so a session that stops was inserted before.          *)
(***************************************************************************)
StopsAfterInsert ==
  \A c \in Conns :
    /\ session[c] \in {"closing", "closed"} => phase[c] = "inserted"
    /\ session[c] = "closed" => c \notin sessions_

LEMMA BusyThread ==
  ASSUME ThreadCount = 1, TypeOK, CanRunHandler
  PROVE  accept # "running"
<1>1. IsFiniteSet(Closing)
  BY ServerAssumption, FS_Subset DEF Closing
<1>2. Cardinality(Closing) \in Nat
  BY <1>1, FS_CardinalityType
<1> QED  BY <1>2 DEF CanRunHandler, Busy

NoGhostSession == \A c \in sessions_ : session[c] # "closed"

\* With one worker thread no stopped session stays in sessions_.
THEOREM OneThreadLeavesNoGhost ==
  ASSUME ThreadCount = 1
  PROVE  Spec => []NoGhostSession
<1>1. Init => StopsAfterInsert
  BY DEF Init, StopsAfterInsert
<1>2. TypeOK /\ OneChain /\ StopsAfterInsert /\ [Next]_vars => StopsAfterInsert'
  <2> SUFFICES ASSUME TypeOK, OneChain, StopsAfterInsert, [Next]_vars
               PROVE  StopsAfterInsert'
    OBVIOUS
  <2> USE DEF TypeOK, StopsAfterInsert
  <2>1. CASE AcceptFails \/ AcceptError \/ StopContext \/ UNCHANGED vars
    BY <2>1 DEF AcceptFails, AcceptError, StopContext, vars
  <2>2. CASE AcceptAfterClose
    BY <2>2 DEF AcceptAfterClose, MovePhase
  <2>3. CASE StopServer
    BY <2>3 DEF StopServer
  <2>4. ASSUME NEW c \in Conns,
               \/ ClientConnects(c) \/ AcceptCompletes(c)
               \/ AddConnection(c) \/ RejectConnection(c)
        PROVE  StopsAfterInsert'
    BY <2>4 DEF ClientConnects, AcceptCompletes, AddConnection,
                RejectConnection, BeginAccept, MovePhase
  <2>5. ASSUME NEW c \in Conns, AcceptThrows(c) \/ SessionThrows(c)
        PROVE  StopsAfterInsert'
    BY <2>5 DEF AcceptThrows, SessionThrows
  <2>6. ASSUME NEW c \in Conns, StartSession(c) PROVE StopsAfterInsert'
    BY <2>6 DEF StartSession, MovePhase
  <2>7. ASSUME NEW c \in Conns, InsertSession(c) PROVE StopsAfterInsert'
    BY <2>7 DEF InsertSession, MovePhase
  <2>8. ASSUME NEW c \in Conns, StopSession(c) PROVE StopsAfterInsert'
    <3>1. phase[c] = "inserted"
      BY <2>8, BusyThread DEF StopSession, OneChain
    <3> QED  BY <2>8, <3>1 DEF StopSession
  <2>9. ASSUME NEW c \in Conns, RemoveSession(c) PROVE StopsAfterInsert'
    BY <2>9 DEF RemoveSession
  <2> QED
    BY <2>1, <2>2, <2>3, <2>4, <2>5, <2>6, <2>7, <2>8, <2>9
    DEF Next, Kernel, AcceptHandler, SessionHandler
<1>3. TypeOK /\ StopsAfterInsert => NoGhostSession
  BY DEF TypeOK, StopsAfterInsert, NoGhostSession
<1> QED
  BY <1>1, <1>2, <1>3, OneChainInvariant, TypeCorrect, PTL DEF Spec
-----------------------------------------------------------------------------
(***************************************************************************)
(* What the liveness properties rest on, without fairness: the accept      *)
(* chain always has a next step, a worker is inside one handler only, and  *)
(* after io_context::stop() the workers have less and less to do.          *)
(***************************************************************************)
LEMMA ChainInductive == TypeOK /\ AcceptChainUnbroken /\ [Next]_vars => AcceptChainUnbroken'
<1> SUFFICES ASSUME TypeOK, AcceptChainUnbroken, [Next]_vars PROVE AcceptChainUnbroken'
  OBVIOUS
<1> USE DEF TypeOK, AcceptChainUnbroken, AcceptStates, DoAccept
<1>1. CASE AcceptFails \/ AcceptError \/ StopContext \/ UNCHANGED vars
  BY <1>1 DEF AcceptFails, AcceptError, StopContext, vars
<1>2. CASE AcceptAfterClose
  BY <1>2 DEF AcceptAfterClose, MovePhase
<1>3. CASE StopServer
  BY <1>3 DEF StopServer
<1>4. ASSUME NEW c \in Conns, ClientConnects(c) PROVE AcceptChainUnbroken'
  BY <1>4 DEF ClientConnects, MovePhase
<1>5. ASSUME NEW c \in Conns, AcceptCompletes(c) PROVE AcceptChainUnbroken'
  BY <1>5 DEF AcceptCompletes, MovePhase
<1>6. ASSUME NEW c \in Conns, AddConnection(c) PROVE AcceptChainUnbroken'
  BY <1>6 DEF AddConnection, BeginAccept, MovePhase
<1>7. ASSUME NEW c \in Conns, RejectConnection(c) PROVE AcceptChainUnbroken'
  BY <1>7 DEF RejectConnection, BeginAccept, MovePhase
<1>8. ASSUME NEW c \in Conns, StartSession(c) PROVE AcceptChainUnbroken'
  BY <1>8 DEF StartSession, MovePhase
<1>9. ASSUME NEW c \in Conns, InsertSession(c) PROVE AcceptChainUnbroken'
  BY <1>9 DEF InsertSession, MovePhase
<1>10. ASSUME NEW c \in Conns,
              AcceptThrows(c) \/ StopSession(c) \/ RemoveSession(c) \/ SessionThrows(c)
       PROVE  AcceptChainUnbroken'
  BY <1>10 DEF AcceptThrows, StopSession, RemoveSession, SessionThrows
<1> QED
  BY <1>1, <1>2, <1>3, <1>4, <1>5, <1>6, <1>7, <1>8, <1>9, <1>10
  DEF Next, Kernel, AcceptHandler, SessionHandler

\* For every number of clients and threads, no rejection, no error and no
\* session ends the accept chain while the acceptor is open.
THEOREM ChainNeverBreaks == Spec => []AcceptChainUnbroken
<1>1. Init => AcceptChainUnbroken
  BY DEF Init, AcceptChainUnbroken
<1> QED  BY <1>1, ChainInductive, TypeCorrect, PTL DEF Spec
-----------------------------------------------------------------------------
\* Since nothing counts down, max_sessions limits the sessions of the whole
\* life of the process, those that have ended included.
LifetimeLimit == Cardinality({c \in Conns : session[c] # "none"}) <= MaxSessions

\* Only max_sessions clients are ever served, however many come, go and come
\* again.
THEOREM OnlyMaxSessionsEver == Spec => []LifetimeLimit
<1>1. TypeOK /\ OneChain /\ CapacityRespected => LifetimeLimit
  <2> SUFFICES ASSUME TypeOK, OneChain, CapacityRespected PROVE LifetimeLimit
    OBVIOUS
  <2> DEFINE Served == {c \in Conns : session[c] # "none"}
  <2>1. Served \subseteq Admitted
    BY DEF OneChain, Admitted
  <2>2. IsFiniteSet(Admitted)
    BY ServerAssumption, FS_Subset DEF Admitted
  <2>3. /\ Cardinality(Served) <= Cardinality(Admitted)
        /\ Cardinality(Served) \in Nat /\ Cardinality(Admitted) \in Nat
    BY <2>1, <2>2, FS_Subset, FS_CardinalityType
  <2> QED  BY <2>3, ServerAssumption DEF CapacityRespected, LifetimeLimit
<1> QED  BY <1>1, OneChainInvariant, CapacityIsRespected, TypeCorrect, PTL
-----------------------------------------------------------------------------
\* There are never more handlers inside their code than worker threads.
WorkersBounded == Busy <= ThreadCount

LEMMA ClosingFinite ==
  ASSUME TypeOK
  PROVE  /\ IsFiniteSet(Closing) /\ Cardinality(Closing) \in Nat
         /\ \A c \in Conns : session' = [session EXCEPT ![c] = "closing"] /\ c \notin Closing
              => Cardinality(Closing') = Cardinality(Closing) + 1
         /\ \A c \in Conns : session' = [session EXCEPT ![c] = "closed"] /\ c \in Closing
              => Cardinality(Closing') = Cardinality(Closing) - 1
<1>1. IsFiniteSet(Closing) /\ Cardinality(Closing) \in Nat
  BY ServerAssumption, FS_Subset, FS_CardinalityType DEF Closing
<1>2. ASSUME NEW c \in Conns, session' = [session EXCEPT ![c] = "closing"], c \notin Closing
      PROVE  Cardinality(Closing') = Cardinality(Closing) + 1
  <2>1. Closing' = Closing \cup {c}
    BY <1>2 DEF Closing, TypeOK
  <2> QED  BY <1>1, <1>2, <2>1, FS_AddElement
<1>3. ASSUME NEW c \in Conns, session' = [session EXCEPT ![c] = "closed"], c \in Closing
      PROVE  Cardinality(Closing') = Cardinality(Closing) - 1
  <2>1. Closing' = Closing \ {c}
    BY <1>3 DEF Closing, TypeOK
  <2> QED  BY <1>1, <1>3, <2>1, FS_RemoveElement
<1> QED  BY <1>1, <1>2, <1>3

\* A step begins at most one handler, and only if a thread is free for it.
LEMMA BusyStep ==
  ASSUME TypeOK, OneChain, [Next]_vars
  PROVE  /\ Busy \in Nat /\ Busy' \in Nat
         /\ Busy' <= Busy \/ (CanRunHandler /\ Busy' = Busy + 1)
<1>1. Cardinality(Closing) \in Nat
  BY ClosingFinite
<1> USE <1>1 DEF Busy
<1>2. ASSUME UNCHANGED session PROVE Closing' = Closing
  BY <1>2 DEF Closing
<1>3. CASE AcceptFails \/ AcceptError \/ StopContext \/ UNCHANGED vars
  BY <1>2, <1>3 DEF AcceptFails, AcceptError, DoAccept, StopContext, vars
<1>4. CASE AcceptAfterClose
  BY <1>2, <1>4 DEF AcceptAfterClose
<1>5. CASE StopServer
  BY <1>2, <1>5 DEF StopServer
<1>6. ASSUME NEW c \in Conns, ClientConnects(c) \/ AcceptCompletes(c) \/ AcceptThrows(c)
      PROVE  Busy \in Nat /\ Busy' \in Nat /\ Busy' <= Busy
  BY <1>2, <1>6 DEF ClientConnects, AcceptCompletes, AcceptThrows
<1>7. ASSUME NEW c \in Conns, AddConnection(c)
      PROVE  Busy \in Nat /\ Busy' \in Nat /\ CanRunHandler /\ Busy' = Busy + 1
  BY <1>2, <1>7 DEF AddConnection, BeginAccept
<1>8. ASSUME NEW c \in Conns, RejectConnection(c) \/ InsertSession(c) \/ SessionThrows(c)
      PROVE  Busy \in Nat /\ Busy' \in Nat /\ Busy' <= Busy
  BY <1>2, <1>8 DEF RejectConnection, BeginAccept, InsertSession, DoAccept, SessionThrows
<1>9. ASSUME NEW c \in Conns, StartSession(c)
      PROVE  Busy \in Nat /\ Busy' \in Nat /\ Busy' <= Busy
  <2>1. session[c] = "none"
    BY <1>9 DEF StartSession, MovePhase, OneChain, TypeOK
  <2>2. Closing' = Closing
    BY <1>9, <2>1 DEF StartSession, Closing, TypeOK
  <2> QED  BY <1>9, <2>2 DEF StartSession
<1>10. ASSUME NEW c \in Conns, StopSession(c)
       PROVE  Busy \in Nat /\ Busy' \in Nat /\ CanRunHandler /\ Busy' = Busy + 1
  <2>1. c \notin Closing
    BY <1>10 DEF StopSession, Closing
  <2>2. Cardinality(Closing') = Cardinality(Closing) + 1
    BY <1>10, <2>1, ClosingFinite DEF StopSession
  <2> QED  BY <1>10, <2>2 DEF StopSession
<1>11. ASSUME NEW c \in Conns, RemoveSession(c)
       PROVE  Busy \in Nat /\ Busy' \in Nat /\ Busy' <= Busy
  <2>1. c \in Closing
    BY <1>11 DEF RemoveSession, Closing
  <2>2. Cardinality(Closing') = Cardinality(Closing) - 1 /\ Cardinality(Closing) # 0
    BY <1>11, <2>1, ClosingFinite, FS_EmptySet DEF RemoveSession
  <2> QED  BY <1>11, <2>2 DEF RemoveSession
<1> QED
  BY <1>3, <1>4, <1>5, <1>6, <1>7, <1>8, <1>9, <1>10, <1>11
  DEF Next, Kernel, AcceptHandler, SessionHandler

\* The model never has more handlers running than the pool has threads.
THEOREM WorkersAreEnough == Spec => []WorkersBounded
<1>1. Init => WorkersBounded
  <2> SUFFICES ASSUME Init PROVE WorkersBounded
    OBVIOUS
  <2>1. Closing = {}
    BY DEF Init, Closing
  <2> QED  BY <2>1, FS_EmptySet, ServerAssumption DEF Init, Busy, WorkersBounded
<1>2. TypeOK /\ OneChain /\ WorkersBounded /\ [Next]_vars => WorkersBounded'
  <2> SUFFICES ASSUME TypeOK, OneChain, WorkersBounded, [Next]_vars PROVE WorkersBounded'
    OBVIOUS
  <2>1. /\ Busy \in Nat /\ Busy' \in Nat
        /\ Busy' <= Busy \/ (CanRunHandler /\ Busy' = Busy + 1)
    BY BusyStep
  <2>2. ThreadCount \in Nat /\ ThreadCount' = ThreadCount
    BY ServerAssumption
  <2>3. CanRunHandler => Busy < ThreadCount
    BY DEF CanRunHandler
  <2> HIDE DEF Busy
  <2> QED  BY <2>1, <2>2, <2>3 DEF WorkersBounded
<1> QED  BY <1>1, <1>2, OneChainInvariant, TypeCorrect, PTL DEF Spec
-----------------------------------------------------------------------------
\* After io_context::stop() no worker begins another handler: what is running
\* comes to its end, and no accept and no stop() of a session begins.
StoppedWorkersDrain ==
  [][app = "stopped" => /\ app' = "stopped"
                        /\ Busy' <= Busy
                        /\ Closing' \subseteq Closing
                        /\ accept' = "running" => accept = "running"]_vars

\* The shutdown goes one way only, for every number of threads and sessions.
THEOREM ShutdownOnlyDrains == Spec => StoppedWorkersDrain
<1>1. TypeOK /\ OneChain /\ [Next]_vars
        => [app = "stopped" => /\ app' = "stopped"
                               /\ Busy' <= Busy
                               /\ Closing' \subseteq Closing
                               /\ accept' = "running" => accept = "running"]_vars
  <2> SUFFICES ASSUME TypeOK, OneChain, Next, app = "stopped"
               PROVE  /\ app' = "stopped"
                      /\ Busy' <= Busy
                      /\ Closing' \subseteq Closing
                      /\ accept' = "running" => accept = "running"
    OBVIOUS
  <2>1. ~CanRunHandler
    BY DEF CanRunHandler
  <2>2. Busy' <= Busy
    BY <2>1, BusyStep
  <2>3. CASE Kernel
    BY <2>2, <2>3 DEF Kernel, AcceptFails, ClientConnects, AcceptCompletes, Closing
  <2>4. CASE AcceptHandler
    <3>1. \E c \in Conns : AcceptThrows(c) \/ StartSession(c) \/ InsertSession(c)
      BY <2>1, <2>4 DEF AcceptHandler, AcceptAfterClose, AcceptError, AddConnection,
                        RejectConnection, BeginAccept
    <3> QED
      BY <2>2, <3>1 DEF AcceptThrows, StartSession, InsertSession, DoAccept, Closing, TypeOK
  <2>5. CASE SessionHandler
    BY <2>1, <2>2, <2>5 DEF SessionHandler, StopSession, SessionThrows, RemoveSession,
                            Closing, TypeOK
  <2>6. CASE StopServer \/ StopContext
    BY <2>1, <2>6 DEF StopServer, StopContext
  <2> QED  BY <2>2, <2>3, <2>4, <2>5, <2>6 DEF Next
<1> QED
  BY <1>1, OneChainInvariant, TypeCorrect, PTL DEF Spec, StoppedWorkersDrain
=============================================================================
