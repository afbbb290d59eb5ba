------------------------------- MODULE Server -------------------------------
(***************************************************************************)
(* The accept chain of Server, the sessions it creates and the shutdown by *)
(* Application::stop, run by the worker threads of Server::start_workers.  *)
(*                                                                         *)
(* There is one chain of async_accept: do_accept() is called once by       *)
(* start_accept() and then only as the last statement of its own handler.  *)
(* A session is seen here only as ConnectionLife describes it; module      *)
(* Connection opens it up.                                                 *)
(*                                                                         *)
(* A worker runs one handler at a time, from beginning to end: a step that *)
(* begins a handler needs a thread that is not in the middle of one.       *)
(***************************************************************************)
EXTENDS Integers, FiniteSets

CONSTANTS
  Conns,         \* the TCP connections that clients may open
  MaxSessions,   \* sessions.max_sessions
  ThreadCount,   \* thread_pool.thread_count
  CtorOutcomes   \* see Connection

ASSUME ServerAssumption ==
  /\ IsFiniteSet(Conns)
  /\ MaxSessions \in Nat
  /\ ThreadCount \in Nat \ {0}
  /\ CtorOutcomes \subseteq {"throws", "returns"}

VARIABLES
  fault,       \* the uncaught exception that ended the process, or none
  app,         \* Application: running, stopping (inside stop()), stopped
  acceptor,    \* acceptor.is_open()
  accept,      \* the outstanding async_accept, or the handler it has started
  phase,       \* how far the accept handler has come with a connection
  session,     \* the Session of a connection
  sessions_,   \* the connections whose Session is in Server::sessions_
  active       \* Server::active_connections

vars == <<fault, app, acceptor, accept, phase, session, sessions_, active>>

Up == fault = "none"

\* away     - the client has not connected
\* backlog  - the kernel has set up the connection
\* accepted - its accept handler is ready to run
\* admitted - add_connection() has returned true
\* starting - start() was called, sessions_ does not hold the session yet
\* dropped  - the server closed the socket without a session for it
Phases == {"away", "backlog", "accepted", "admitted", "starting", "inserted",
           "rejected", "dropped"}

\* pending - waiting for a client
\* ready   - handler queued with a new socket, or
\* failed  - with an error
\* running - a worker is inside the handler
\* ended   - the handler has returned without another async_accept
AcceptStates == {"pending", "ready", "failed", "running", "ended"}

TypeOK ==
  /\ fault \in {"none", "bad_weak_ptr", "not_connected", "session"}
  /\ app \in {"running", "stopping", "stopped"}
  /\ acceptor \in {"open", "closed"}
  /\ accept \in AcceptStates
  /\ phase \in [Conns -> Phases]
  /\ session \in [Conns -> {"none", "running", "closing", "closed"}]
  /\ sessions_ \subseteq Conns
  /\ active \in 0 .. MaxSessions

Init ==
  /\ fault = "none"
  /\ app = "running"
  /\ acceptor = "open"
  /\ accept = "pending"
  /\ phase = [c \in Conns |-> "away"]
  /\ session = [c \in Conns |-> "none"]
  /\ sessions_ = {}
  /\ active = 0

Closing == {c \in Conns : session[c] = "closing"}

Busy == Cardinality(Closing)
        + (IF accept = "running" THEN 1 ELSE 0)
        + (IF app = "stopping" THEN 1 ELSE 0)

\* io_context::run() begins another handler unless stop() was called.
CanRunHandler == Up /\ app # "stopped" /\ Busy < ThreadCount

MovePhase(c, from, to) ==
  /\ phase[c] = from
  /\ phase' = [phase EXCEPT ![c] = to]

-----------------------------------------------------------------------------
(* Clients and the kernel                                                  *)

ClientConnects(c) ==
  /\ Up /\ acceptor = "open"
  /\ MovePhase(c, "away", "backlog")
  /\ UNCHANGED <<fault, app, acceptor, accept, session, sessions_, active>>

AcceptCompletes(c) ==
  /\ Up /\ app # "stopped"
  /\ accept = "pending"
  /\ accept' = "ready"
  /\ MovePhase(c, "backlog", "accepted")
  /\ UNCHANGED <<fault, app, acceptor, session, sessions_, active>>

\* accept() fails, for example for want of a file descriptor.
AcceptFails ==
  /\ Up /\ app # "stopped"
  /\ accept = "pending"
  /\ accept' = "failed"
  /\ UNCHANGED <<fault, app, acceptor, phase, session, sessions_, active>>
-----------------------------------------------------------------------------
(* Server::do_accept and its handler                                       *)

\* Seeded fault: after the handler of a connection no new accept is started.
DoAcceptForgotten == accept' = "ended"

\* async_accept on an acceptor that is closed fails at once.
DoAccept == accept' = IF acceptor = "open" THEN "pending" ELSE "failed"

\* The handler first asks whether stop() has closed the acceptor, and drops
\* its socket if so.
AcceptAfterClose ==
  /\ CanRunHandler
  /\ acceptor = "closed"
  /\ \/ /\ accept = "failed"
        /\ UNCHANGED phase
     \/ /\ accept = "ready"
        /\ \E c \in Conns : MovePhase(c, "accepted", "dropped")
  /\ accept' = "ended"
  /\ UNCHANGED <<fault, app, acceptor, session, sessions_, active>>

\* An error is logged and the chain goes on.
AcceptError ==
  /\ CanRunHandler
  /\ accept = "failed" /\ acceptor = "open"
  /\ DoAccept
  /\ UNCHANGED <<fault, app, acceptor, phase, session, sessions_, active>>

BeginAccept(c) ==
  /\ CanRunHandler
  /\ accept = "ready" /\ acceptor = "open"
  /\ phase[c] = "accepted"

\* Seeded fault: the comparison of add_connection() lets one more in.
AddConnectionOffByOne(c) ==
  /\ BeginAccept(c)
  /\ active <= MaxSessions
  /\ active' = active + 1
  /\ MovePhase(c, "accepted", "admitted")
  /\ accept' = "running"
  /\ UNCHANGED <<fault, app, acceptor, session, sessions_>>

\* Seeded fault: add_connection() admits without counting.
AddConnectionUncounted(c) ==
  /\ BeginAccept(c)
  /\ active < MaxSessions
  /\ MovePhase(c, "accepted", "admitted")
  /\ accept' = "running"
  /\ UNCHANGED <<fault, app, acceptor, session, sessions_, active>>

\* add_connection(): nothing ever calls remove_connection().
AddConnection(c) ==
  /\ BeginAccept(c)
  /\ active < MaxSessions
  /\ active' = active + 1
  /\ MovePhase(c, "accepted", "admitted")
  /\ accept' = "running"
  /\ UNCHANGED <<fault, app, acceptor, session, sessions_>>

RejectConnection(c) ==
  /\ BeginAccept(c)
  /\ active >= MaxSessions
  /\ MovePhase(c, "accepted", "rejected")
  /\ DoAccept
  /\ UNCHANGED <<fault, app, acceptor, session, sessions_, active>>

\* remote_endpoint() of a socket whose peer is gone, or the constructor of
\* Session, throws out of the worker thread.
AcceptThrows(c) ==
  /\ Up
  /\ phase[c] = "admitted"
  /\ fault' \in {"not_connected"} \cup
               (IF "throws" \in CtorOutcomes THEN {"bad_weak_ptr"} ELSE {})
  /\ UNCHANGED <<app, acceptor, accept, phase, session, sessions_, active>>

\* make_shared<Session> and session->start()
StartSession(c) ==
  /\ Up
  /\ "returns" \in CtorOutcomes
  /\ MovePhase(c, "admitted", "starting")
  /\ session' = [session EXCEPT ![c] = "running"]
  /\ UNCHANGED <<fault, app, acceptor, accept, sessions_, active>>

\* Seeded fault: the session is not inserted.
InsertForgotten(c) ==
  /\ Up
  /\ MovePhase(c, "starting", "inserted")
  /\ DoAccept
  /\ UNCHANGED <<fault, app, acceptor, session, sessions_, active>>

\* sessions_.insert() under session_mutex_, and the next do_accept()
InsertSession(c) ==
  /\ Up
  /\ MovePhase(c, "starting", "inserted")
  /\ sessions_' = sessions_ \cup {c}
  /\ DoAccept
  /\ UNCHANGED <<fault, app, acceptor, session, active>>
-----------------------------------------------------------------------------
(* Sessions                                                                *)

\* Seeded fault: Session::stop() without its stopped_ guard.
StopSessionAgain(c) ==
  /\ CanRunHandler
  /\ session[c] \in {"running", "closed"}
  /\ session' = [session EXCEPT ![c] = "closing"]
  /\ UNCHANGED <<fault, app, acceptor, accept, phase, sessions_, active>>

\* One handler of the session calls Session::stop() for the first time.
StopSession(c) ==
  /\ CanRunHandler
  /\ session[c] = "running"
  /\ session' = [session EXCEPT ![c] = "closing"]
  /\ UNCHANGED <<fault, app, acceptor, accept, phase, sessions_, active>>

\* Its on_close_: Server::remove_session under session_mutex_
RemoveSession(c) ==
  /\ Up
  /\ session[c] = "closing"
  /\ session' = [session EXCEPT ![c] = "closed"]
  /\ sessions_' = sessions_ \ {c}
  /\ UNCHANGED <<fault, app, acceptor, accept, phase, active>>

\* The Packet of a handler throws; stop() and remove_session() do not.
SessionThrows(c) ==
  /\ CanRunHandler
  /\ session[c] = "running"
  /\ fault' = "session"
  /\ UNCHANGED <<app, acceptor, accept, phase, session, sessions_, active>>
-----------------------------------------------------------------------------
(* Application::stop, the handler of SIGTERM, SIGINT and SIGQUIT           *)

\* server_->stop(): closing the acceptor fails a pending accept, and the
\* kernel resets what is left in the backlog.
StopServer ==
  /\ CanRunHandler
  /\ app = "running"
  /\ app' = "stopping"
  /\ acceptor' = "closed"
  /\ accept' = IF accept = "pending" THEN "failed" ELSE accept
  /\ phase' = [c \in Conns |-> IF phase[c] = "backlog" THEN "dropped"
                                                       ELSE phase[c]]
  /\ UNCHANGED <<fault, session, sessions_, active>>

\* Seeded fault: stop() releases the work guard only, so that the workers
\* run until the last session is gone.
StopContextForgotten ==
  /\ Up
  /\ app = "stopping"
  /\ accept = "ended" /\ \A c \in Conns : session[c] \in {"none", "closed"}
  /\ app' = "stopped"
  /\ UNCHANGED <<fault, acceptor, accept, phase, session, sessions_, active>>

\* work_guard_.reset() and io_context_.stop()
StopContext ==
  /\ Up
  /\ app = "stopping"
  /\ app' = "stopped"
  /\ UNCHANGED <<fault, acceptor, accept, phase, session, sessions_, active>>
-----------------------------------------------------------------------------
Kernel == AcceptFails \/ \E c \in Conns : ClientConnects(c) \/ AcceptCompletes(c)

AcceptHandler ==
  \/ AcceptAfterClose
  \/ AcceptError
  \/ \E c \in Conns : \/ AddConnection(c)
                      \/ RejectConnection(c)
                      \/ AcceptThrows(c)
                      \/ StartSession(c)
                      \/ InsertSession(c)

SessionHandler ==
  \E c \in Conns : StopSession(c) \/ RemoveSession(c) \/ SessionThrows(c)

Next == Kernel \/ AcceptHandler \/ SessionHandler \/ StopServer \/ StopContext

Spec == Init /\ [][Next]_vars

(***************************************************************************)
(* Worker threads keep running what is ready.  Accepting may fail for a    *)
(* while, but not every time: descriptors come back.  No client has to     *)
(* connect, no session has to stop and no signal has to come.              *)
(***************************************************************************)
Fairness ==
  /\ SF_vars(\E c \in Conns : AcceptCompletes(c))
  /\ WF_vars(AcceptHandler)
  /\ WF_vars(\E c \in Conns : RemoveSession(c))
  /\ WF_vars(StopContext)

FairSpec == Spec /\ Fairness
-----------------------------------------------------------------------------
(* Safety                                                                  *)

Admitted == {c \in Conns : phase[c] \in {"admitted", "starting", "inserted"}}

Live == {c \in Conns : session[c] \in {"running", "closing"}}

\* There are never more than max_sessions sessions, and the counter is the
\* number of connections ever admitted, whatever way their accept handlers and
\* sessions ended.
CapacityRespected ==
  /\ Cardinality(Live) <= active
  /\ active = Cardinality(Admitted)
  /\ active <= MaxSessions

\* With any number of threads, a session that runs after its accept handler
\* is done is in sessions_, and sessions_ holds nothing else but sessions
\* that were inserted.
SessionsTracked ==
  /\ sessions_ \subseteq {c \in Conns : phase[c] = "inserted"}
  /\ \A c \in Conns :
        phase[c] = "inserted" /\ session[c] = "running" => c \in sessions_

\* Whatever happens to clients and sessions, the accept chain has a next step
\* until stop() closes the acceptor: an async_accept is outstanding, or its
\* handler is queued or busy with exactly one connection.
AcceptChainUnbroken ==
  /\ acceptor = "open" => accept # "ended"
  /\ accept = "ready" <=> \E c \in Conns : phase[c] = "accepted"
  /\ accept = "running" <=> \E c \in Conns : phase[c] \in {"admitted", "starting"}
  /\ \A c, d \in Conns : /\ phase[c] \in {"accepted", "admitted", "starting"}
                        /\ phase[d] \in {"accepted", "admitted", "starting"}
                        => c = d

-----------------------------------------------------------------------------
(* Liveness                                                                *)

\* Rejections, errors and other sessions never end the accept chain: while
\* the server runs, it deals with every client that connects.
BacklogServed ==
  \A c \in Conns :
    phase[c] = "backlog" ~>
      (phase[c] \in {"inserted", "rejected"} \/ acceptor = "closed" \/ ~Up)

\* After a stop signal every worker returns from io_context::run(), whatever
\* the sessions do, so start_workers() can join them.
ShutdownCompletes ==
  app = "stopping" ~> (~Up \/ (app = "stopped" /\ Busy = 0))
-----------------------------------------------------------------------------
(* Every connection keeps the contract that Connection implements.         *)

Life(c) == INSTANCE ConnectionLife WITH
  phase      <- IF phase[c] \in {"starting", "inserted"} THEN phase[c]
                                                         ELSE "accepted",
  session    <- session[c],
  registered <- c \in sessions_,
  down       <- ~Up

ConnectionsLive ==
  /\ \A c \in Conns : Life(c)!LifeInit
  /\ [][\A c \in Conns : [Life(c)!LifeNext]_(Life(c)!lifeVars)]_vars
=============================================================================
