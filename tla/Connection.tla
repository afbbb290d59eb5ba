----------------------------- MODULE Connection -----------------------------
(***************************************************************************)
(* One accepted connection: the part of Server's accept handler that       *)
(* constructs, starts and registers a Session, and the Session with its    *)
(* Reader, whose handlers all run on the strand of the socket.             *)
(*                                                                         *)
(* The accept handler runs on a worker thread but NOT on that strand, so   *)
(* with several worker threads its steps interleave with the handlers that *)
(* start() itself has set off.  Handlers of one strand never overlap; two  *)
(* completed operations of one strand run in either order, because worker  *)
(* threads race to hand them to the strand.                                *)
(*                                                                         *)
(* Session::write_packet has no caller in the program, so nothing but      *)
(* read_packet sets the idle timer here; module Writer models the Writer.  *)
(***************************************************************************)
EXTENDS SteadyTimer

CONSTANTS
  ReadSeconds,     \* timeouts.read_timeout_seconds
  IdleSeconds,     \* timeouts.idle_timeout_seconds
  ThreadCount,     \* thread_pool.thread_count
  CtorOutcomes     \* what shared_from_this() in a constructor may do: under
                   \* the C++17 rule it "throws" bad_weak_ptr; "returns" is
                   \* the same code with the constructor calls of check_*()
                   \* working as they were meant to

ASSUME ConnectionAssumption ==
  /\ ReadSeconds \in Nat
  /\ IdleSeconds \in Nat
  /\ ThreadCount \in Nat \ {0}
  /\ CtorOutcomes \subseteq {"throws", "returns"}

VARIABLES
  fault,       \* what ended the process: the uncaught exception, or none
  handler,     \* next step of the accept handler for this connection
  registered,  \* Server::sessions_ holds the Session
  stopped,     \* Session::stopped_
  open,        \* Session::socket_.is_open()
  strand,      \* free, or closing: in stop(), before on_close_ returned
  idle,        \* Session::idle_timer_
  readTimer,   \* Reader::read_timer
  read,        \* the outstanding async_read of the Reader
  dangling     \* a handler used socket_ after the Session was destroyed

vars == <<fault, handler, registered, stopped, open, strand,
          idle, readTimer, read, dangling>>

StartSteps == {"cancel_idle", "arm_idle", "cancel_read", "arm_read",
               "start_read", "insert", "release"}

Faults == {"none", "bad_weak_ptr", "not_connected", "invalid_argument", "segv"}

NoRead == [op |-> "none", ec |-> "none"]

ReadOp == {NoRead} \cup [op : {"length", "body"},
                         ec : {"pending", "success", "error", "aborted"}]

TypeOK ==
  /\ fault \in Faults
  /\ handler \in {"accepted", "done"} \cup StartSteps
  /\ registered \in BOOLEAN
  /\ stopped \in BOOLEAN
  /\ open \in BOOLEAN
  /\ strand \in {"free", "closing"}
  /\ idle \in Timer(IdleSeconds)
  /\ readTimer \in Timer(ReadSeconds)
  /\ read \in ReadOp
  /\ dangling \in BOOLEAN

Up == fault = "none"

Constructed == handler # "accepted"

(***************************************************************************)
(* The owners of the Session, that is, the shared_ptrs to it: the local    *)
(* variable of the accept handler, sessions_, the handler of the pending   *)
(* idle wait, and the handler that is executing stop().                    *)
(***************************************************************************)
SessionAlive ==
  \/ handler \in StartSteps
  \/ registered
  \/ idle.wait # "none"
  \/ strand = "closing"

Busy == (IF handler \in StartSteps THEN 1 ELSE 0)
        + (IF strand = "closing" THEN 1 ELSE 0)

FreeThread == Busy < ThreadCount

Init ==
  /\ fault = "none"
  /\ handler = "accepted"
  /\ registered = FALSE
  /\ stopped = FALSE
  /\ open = TRUE
  /\ strand = "free"
  /\ idle = Ended(NewTimer)
  /\ readTimer = Ended(NewTimer)
  /\ read = NoRead
  /\ dangling = FALSE

-----------------------------------------------------------------------------
(* The accept handler                                                      *)

HandlerStep(from, to) ==
  /\ Up
  /\ handler = from
  /\ handler' = to

\* remote_endpoint() throws if the peer has reset the connection already.
PeerAlreadyGone ==
  /\ Up /\ FreeThread
  /\ handler = "accepted"
  /\ fault' = "not_connected"
  /\ UNCHANGED <<handler, registered, stopped, open, strand, idle,
                 readTimer, read, dangling>>

\* make_shared<Session>, and start() up to read_packet(): both timers wait
\* for an expiry that never comes, and no handler can run yet.
ConstructSession ==
  /\ FreeThread
  /\ "returns" \in CtorOutcomes
  /\ HandlerStep("accepted", "cancel_idle")
  /\ idle' = NewTimer
  /\ readTimer' = NewTimer
  /\ UNCHANGED <<fault, registered, stopped, open, strand, read, dangling>>

\* The constructor of Session calls check_idle_timer(), which calls
\* shared_from_this() while no shared_ptr owns the object.
ConstructorThrows ==
  /\ Up /\ FreeThread
  /\ "throws" \in CtorOutcomes
  /\ handler = "accepted"
  /\ fault' = "bad_weak_ptr"
  /\ UNCHANGED <<handler, registered, stopped, open, strand, idle,
                 readTimer, read, dangling>>

\* read_packet(): idle_timer_.expires_after cancels the wait, which makes
\* its handler ready to run on another thread, and then stores the expiry.
StartCancelIdle ==
  /\ HandlerStep("cancel_idle", "arm_idle")
  /\ idle' = Cancel(idle)
  /\ UNCHANGED <<fault, registered, stopped, open, strand, readTimer, read, dangling>>

\* Seeded fault: the seconds of the configuration taken as milliseconds.
StartArmIdleInMs ==
  /\ HandlerStep("arm_idle", "cancel_read")
  /\ idle' = SetExpiry(idle, 1000 * IdleSeconds)
  /\ UNCHANGED <<fault, registered, stopped, open, strand, readTimer, read, dangling>>

StartArmIdle ==
  /\ HandlerStep("arm_idle", "cancel_read")
  /\ idle' = SetExpiry(idle, IdleSeconds)
  /\ UNCHANGED <<fault, registered, stopped, open, strand, readTimer, read, dangling>>

\* reader_->read_length(): the same two steps on read_timer, then async_read.
StartCancelRead ==
  /\ HandlerStep("cancel_read", "arm_read")
  /\ readTimer' = Cancel(readTimer)
  /\ UNCHANGED <<fault, registered, stopped, open, strand, idle, read, dangling>>

\* Seeded fault: read_length() does not set the read deadline.
StartArmReadForgotten ==
  /\ HandlerStep("arm_read", "start_read")
  /\ UNCHANGED <<fault, registered, stopped, open, strand, idle, readTimer,
                 read, dangling>>

StartArmRead ==
  /\ HandlerStep("arm_read", "start_read")
  /\ readTimer' = SetExpiry(readTimer, ReadSeconds)
  /\ UNCHANGED <<fault, registered, stopped, open, strand, idle, read, dangling>>

\* async_read on a socket that was closed meanwhile fails at once.
AsyncRead(part) == [op |-> part, ec |-> IF open THEN "pending" ELSE "error"]

StartRead ==
  /\ HandlerStep("start_read", "insert")
  /\ read' = AsyncRead("length")
  /\ UNCHANGED <<fault, registered, stopped, open, strand, idle, readTimer, dangling>>

\* sessions_.insert(session) under session_mutex_
InsertSession ==
  /\ HandlerStep("insert", "release")
  /\ registered' = TRUE
  /\ UNCHANGED <<fault, stopped, open, strand, idle, readTimer, read, dangling>>

\* The local shared_ptr goes out of scope and do_accept() waits again.
ReleaseSession ==
  /\ HandlerStep("release", "done")
  /\ UNCHANGED <<fault, registered, stopped, open, strand, idle, readTimer,
                 read, dangling>>
-----------------------------------------------------------------------------
(* Session::stop and the handlers of the strand                            *)

CanRunHandler == Up /\ strand = "free" /\ FreeThread

\* Seeded fault: stop() leaves the pending read outstanding.
AbortReadForgotten(r) == r

AbortRead(r) == IF r.ec = "pending" THEN [r EXCEPT !.ec = "aborted"] ELSE r

\* Seeded fault: stop() without its stopped_ guard.
StopAgain(t, r) ==
  /\ stopped' = TRUE
  /\ open' = FALSE
  /\ read' = AbortRead(r)
  /\ idle' = Cancel(t)
  /\ strand' = "closing"

\* Session::stop(), called by a handler that leaves the idle timer as t and
\* the read operation as r: close the socket, which aborts a pending read,
\* and cancel the idle timer.  on_close_ follows in RemoveSession.
Stop(t, r) ==
  \/ /\ stopped
     /\ idle' = t
     /\ read' = r
     /\ UNCHANGED <<stopped, open, strand>>
  \/ /\ ~stopped
     /\ stopped' = TRUE
     /\ open' = FALSE
     /\ read' = AbortRead(r)
     /\ idle' = Cancel(t)
     /\ strand' = "closing"

\* Seeded fault: remove_session() does not erase the session.
RemoveSessionKeepsIt ==
  /\ Up
  /\ strand = "closing"
  /\ strand' = "free"
  /\ UNCHANGED <<fault, handler, registered, stopped, open, idle, readTimer,
                 read, dangling>>

\* on_close_(shared_from_this()): Server::remove_session under session_mutex_
RemoveSession ==
  /\ Up
  /\ strand = "closing"
  /\ registered' = FALSE
  /\ strand' = "free"
  /\ UNCHANGED <<fault, handler, stopped, open, idle, readTimer, read, dangling>>

\* Seeded fault: a cancelled idle wait is not started again.
CheckIdleTimerOnce ==
  /\ CanRunHandler
  /\ \/ /\ idle.wait = "aborted"
        /\ idle' = Ended(idle)
        /\ UNCHANGED <<stopped, open, strand, read>>
     \/ /\ idle.wait = "expired"
        /\ Stop(Ended(idle), read)
  /\ UNCHANGED <<fault, handler, registered, readTimer, dangling>>

\* The handler of check_idle_timer: wait again after a cancellation, even
\* one by stop(); stop the session otherwise.
CheckIdleTimer ==
  /\ CanRunHandler
  /\ \/ /\ idle.wait = "aborted"
        /\ idle' = AsyncWait(idle)
        /\ UNCHANGED <<stopped, open, strand, read>>
     \/ /\ idle.wait = "expired"
        /\ Stop(Ended(idle), read)
  /\ UNCHANGED <<fault, handler, registered, readTimer, dangling>>

\* The handler of check_read_deadline, which owns the Reader only: it stops
\* the session if the weak_ptr still finds it.
CheckReadDeadline ==
  /\ CanRunHandler
  /\ \/ /\ readTimer.wait = "aborted"
        /\ readTimer' = AsyncWait(readTimer)
        /\ UNCHANGED <<stopped, open, strand, idle, read>>
     \/ /\ readTimer.wait = "expired"
        /\ readTimer' = Ended(readTimer)
        /\ \/ SessionAlive /\ Stop(idle, read)
           \/ ~SessionAlive /\ UNCHANGED <<stopped, open, strand, idle, read>>
  /\ UNCHANGED <<fault, handler, registered, dangling>>

ReadDone(part) ==
  /\ CanRunHandler
  /\ read.op = part
  /\ read.ec # "pending"

\* Both read handlers first ask socket_.is_open(), through a reference into
\* the Session, which the Reader does not own.  Of a destroyed Session the
\* answer is either false or starts an operation on freed memory.
ReadDoneAfterDestroy ==
  /\ \E part \in {"length", "body"} : ReadDone(part)
  /\ ~SessionAlive
  /\ dangling' = TRUE
  /\ fault' \in {"none", "segv"}
  /\ read' = NoRead
  /\ UNCHANGED <<handler, registered, stopped, open, strand, idle, readTimer>>

\* The socket was closed: the handler returns, whatever the read brought.
ReadDoneAfterClose ==
  /\ \E part \in {"length", "body"} : ReadDone(part)
  /\ SessionAlive
  /\ ~open
  /\ read' = NoRead
  /\ UNCHANGED <<fault, handler, registered, stopped, open, strand, idle,
                 readTimer, dangling>>

\* read_length() and read_body() when called on the strand
NextRead(part) ==
  /\ readTimer' = ExpiresAfter(readTimer, ReadSeconds)
  /\ read' = AsyncRead(part)

\* A length has arrived: over MAX_PACKET_SIZE it ends the session,
\* otherwise the body is read.
LengthRead ==
  /\ ReadDone("length")
  /\ SessionAlive /\ open
  /\ read.ec = "success"
  /\ \/ /\ NextRead("body")
        /\ UNCHANGED <<stopped, open, strand, idle>>
     \/ /\ Stop(idle, NoRead)
        /\ UNCHANGED readTimer
  /\ UNCHANGED <<fault, handler, registered, dangling>>

\* A body has arrived: on_packet either routes a valid packet, which no
\* handler answers, or its Packet constructor throws out of the worker.
BodyRead ==
  /\ ReadDone("body")
  /\ SessionAlive /\ open
  /\ read.ec = "success"
  /\ \/ NextRead("length") /\ UNCHANGED fault
     \/ fault' = "invalid_argument" /\ UNCHANGED <<readTimer, read>>
  /\ UNCHANGED <<handler, registered, stopped, open, strand, idle, dangling>>

\* End of file or another error of the socket, the session still open
ReadFailed ==
  /\ \E part \in {"length", "body"} : ReadDone(part)
  /\ SessionAlive /\ open
  /\ read.ec = "error"
  /\ Stop(idle, NoRead)
  /\ UNCHANGED <<fault, handler, registered, readTimer, dangling>>
-----------------------------------------------------------------------------
(* The peer, the reactor and time                                          *)

\* The kernel completes the pending read: all of it arrived, or it failed.
ReadCompletes ==
  /\ Up
  /\ read.ec = "pending"
  /\ \E ec \in {"success", "error"} : read' = [read EXCEPT !.ec = ec]
  /\ UNCHANGED <<fault, handler, registered, stopped, open, strand, idle,
                 readTimer, dangling>>

IdleTimerFires ==
  /\ Up
  /\ IsDue(idle)
  /\ idle' = Fire(idle)
  /\ UNCHANGED <<fault, handler, registered, stopped, open, strand,
                 readTimer, read, dangling>>

ReadTimerFires ==
  /\ Up
  /\ IsDue(readTimer)
  /\ readTimer' = Fire(readTimer)
  /\ UNCHANGED <<fault, handler, registered, stopped, open, strand,
                 idle, read, dangling>>

\* One second passes.
Tick ==
  /\ Up
  /\ idle' = Elapse(idle)
  /\ readTimer' = Elapse(readTimer)
  /\ UNCHANGED <<fault, handler, registered, stopped, open, strand, read, dangling>>
-----------------------------------------------------------------------------
AcceptHandler ==
  \/ ConstructSession
  \/ ConstructorThrows
  \/ StartCancelIdle
  \/ StartArmIdle
  \/ StartCancelRead
  \/ StartArmRead
  \/ StartRead
  \/ InsertSession
  \/ ReleaseSession

ReadHandler ==
  \/ ReadDoneAfterDestroy
  \/ ReadDoneAfterClose
  \/ LengthRead
  \/ BodyRead
  \/ ReadFailed

Next ==
  \/ PeerAlreadyGone
  \/ AcceptHandler
  \/ CheckIdleTimer
  \/ CheckReadDeadline
  \/ ReadHandler
  \/ RemoveSession
  \/ ReadCompletes
  \/ IdleTimerFires
  \/ ReadTimerFires
  \/ Tick

Spec == Init /\ [][Next]_vars

(***************************************************************************)
(* Worker threads keep running handlers that are ready, due timers are     *)
(* collected, and time passes; the peer may stay silent for ever.          *)
(***************************************************************************)
Fairness ==
  /\ WF_vars(AcceptHandler)
  /\ WF_vars(CheckIdleTimer)
  /\ WF_vars(CheckReadDeadline)
  /\ WF_vars(ReadHandler)
  /\ WF_vars(RemoveSession)
  /\ WF_vars(IdleTimerFires)
  /\ WF_vars(ReadTimerFires)
  /\ WF_vars(Tick)

FairSpec == Spec /\ Fairness
-----------------------------------------------------------------------------
(* Safety                                                                  *)

Started == handler \in {"release", "done"}

\* A session that stop() has taken out of sessions_ is not in it: nothing
\* would ever remove it again, and it would never be destroyed.  It needs
\* insert() to come before remove_session(), though start() comes first.
NoGhostSession ==
  Started /\ stopped /\ strand = "free" => ~registered

\* While a read of a started session is pending, a read deadline is running
\* or its handler is ready to run: no peer keeps a silent connection.
PendingReadHasDeadline ==
  Started /\ read.ec = "pending" =>
    /\ readTimer.wait # "none"
    /\ readTimer.wait = "pending" => readTimer.due # Never

\* The kernel never reads on behalf of a Session that is destroyed: its
\* last owner goes only after stop() has closed the socket.
NoPendingReadWithoutSession ==
  Constructed /\ ~SessionAlive => stopped /\ read.ec # "pending"

-----------------------------------------------------------------------------
(* Liveness                                                                *)

\* Every session that is started is stopped in the end, even if its peer
\* keeps sending for ever: packets do not set the idle timer back.
StartedSessionStops == Started ~> (stopped \/ ~Up)

\* After stop() the Session is destroyed, although its idle wait was started
\* again, and no operation holds its Reader any more.  The Writer is another
\* matter: nothing cancels the timer whose wait holds it.
StoppedSessionReleased ==
  stopped ~> \/ ~Up
             \/ ~SessionAlive /\ readTimer.wait = "none" /\ read = NoRead

-----------------------------------------------------------------------------
(* The contract the server relies on                                       *)

Life == INSTANCE ConnectionLife WITH
  phase   <- IF handler = "accepted" THEN "accepted"
             ELSE IF Started THEN "inserted"
             ELSE "starting",
  session <- IF handler = "accepted" THEN "none"
             ELSE IF ~stopped THEN "running"
             ELSE IF strand = "closing" THEN "closing"
             ELSE "closed",
  down    <- ~Up

\* With any number of worker threads the connection is a ConnectionLife:
\* one start, one insertion, at most one stop and one removal after it.
LifeContract == Life!LifeSpec
=============================================================================
