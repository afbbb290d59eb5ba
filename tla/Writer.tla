------------------------------- MODULE Writer -------------------------------
(***************************************************************************)
(* The Writer of a session: a queue of packets of which the first is being *)
(* written, and the deadline of that write.                                *)
(*                                                                         *)
(* add_packet() may be called by any thread; it posts a function to the    *)
(* strand of the socket, and a strand runs posted functions in the order   *)
(* in which they were posted.  Everything else of the Writer runs on the   *)
(* strand.  The Session is here only what the Writer needs to know of it:  *)
(* stop() closes the socket, after which the Session may be destroyed at   *)
(* any time, and the Writer's reference to the socket dangles.             *)
(*                                                                         *)
(* Nothing under src/ calls Session::write_packet yet, so the callers of   *)
(* add_packet() are arbitrary.                                             *)
(***************************************************************************)
EXTENDS SteadyTimer, Sequences

CONSTANTS
  Packets,        \* the packets that may be written
  MaxPackets,     \* bound on the number of calls of add_packet()
  WriteSeconds    \* timeouts.write_timeout_seconds

ASSUME WriterAssumption ==
  /\ MaxPackets \in Nat
  /\ WriteSeconds \in Nat

VARIABLES
  fault,       \* none, or segv: freed memory was used and it showed
  session,     \* the Session: running, stopped or destroyed
  posts,       \* functions add_packet() has posted, each with its packet
  queue,       \* Writer::queue_buffer_
  write,       \* the outstanding async_write of Head(queue)
  writeTimer,  \* Writer::write_timer_
  submitted,   \* history: every packet given to add_packet()
  wire,        \* history: every packet written completely
  dangling     \* socket_ was used after the Session was destroyed

vars == <<fault, session, posts, queue, write, writeTimer, submitted, wire,
          dangling>>

TypeOK ==
  /\ fault \in {"none", "segv"}
  /\ session \in {"running", "stopped", "destroyed"}
  /\ posts \in Seq(Packets)
  /\ queue \in Seq(Packets)
  /\ write \in {"none", "pending", "success", "error", "aborted"}
  /\ writeTimer \in Timer(WriteSeconds)
  /\ submitted \in Seq(Packets)
  /\ wire \in Seq(Packets)
  /\ dangling \in BOOLEAN

Up == fault = "none"

\* socket_.is_open(), for as long as there is a socket_
Open == session = "running"

Init ==
  /\ fault = "none"
  /\ session = "running"
  /\ posts = <<>>
  /\ queue = <<>>
  /\ write = "none"
  /\ writeTimer = NewTimer
  /\ submitted = <<>>
  /\ wire = <<>>
  /\ dangling = FALSE
-----------------------------------------------------------------------------
\* Session::write_packet, while somebody has the Session
AddPacket ==
  /\ Up
  /\ session # "destroyed"
  /\ Len(submitted) < MaxPackets
  /\ \E p \in Packets :
        /\ posts' = Append(posts, p)
        /\ submitted' = Append(submitted, p)
  /\ UNCHANGED <<fault, session, queue, write, writeTimer, wire, dangling>>

\* Seeded fault: the seconds of the configuration taken as milliseconds.
StartWriteInMs ==
  /\ writeTimer' = ExpiresAfter(writeTimer, 1000 * WriteSeconds)
  /\ write' = IF Open THEN "pending" ELSE "error"

\* write(): set the deadline and start to write the front of the queue.
\* On a closed socket async_write fails at once.
StartWrite ==
  /\ writeTimer' = ExpiresAfter(writeTimer, WriteSeconds)
  /\ write' = IF Open THEN "pending" ELSE "error"

\* socket_ is a reference into the Session.  Using it after the Session was
\* destroyed is undefined: the process may crash or find a closed socket.
TouchSocket ==
  \/ /\ session # "destroyed"
     /\ UNCHANGED <<fault, dangling>>
  \/ /\ session = "destroyed"
     /\ dangling' = TRUE
     /\ fault' \in {"none", "segv"}

\* The posted function: only the packet that finds the queue empty starts
\* to write; the others wait for the handler of the write before them.
RunPost ==
  /\ Up
  /\ posts # <<>>
  /\ posts' = Tail(posts)
  /\ queue' = Append(queue, Head(posts))
  /\ \/ /\ queue # <<>>
        /\ UNCHANGED <<fault, write, writeTimer, dangling>>
     \/ /\ queue = <<>>
        /\ TouchSocket
        /\ StartWrite
  /\ UNCHANGED <<session, submitted, wire>>

\* The kernel takes the rest of the packet, or the connection fails.
WriteCompletes ==
  /\ Up
  /\ write = "pending"
  /\ \/ /\ write' = "success"
        /\ wire' = Append(wire, Head(queue))
     \/ /\ write' = "error"
        /\ UNCHANGED wire
  /\ UNCHANGED <<fault, session, posts, queue, writeTimer, submitted, dangling>>

-----------------------------------------------------------------------------
\* The effect of Session::stop() on the socket, when the write is left as w.
Stop(w) ==
  /\ session' = IF session = "running" THEN "stopped" ELSE session
  /\ write' = IF w = "pending" THEN "aborted" ELSE w

\* A handler of the Reader or of the idle timer stops the session.
SessionStops ==
  /\ Up
  /\ session = "running"
  /\ Stop(write)
  /\ UNCHANGED <<fault, posts, queue, writeTimer, submitted, wire, dangling>>

\* The last shared_ptr to the Session goes, which needs nothing of the Writer.
SessionDestroyed ==
  /\ Up
  /\ session = "stopped"
  /\ session' = "destroyed"
  /\ UNCHANGED <<fault, posts, queue, write, writeTimer, submitted, wire, dangling>>
-----------------------------------------------------------------------------
(* The handler of async_write                                              *)

WriteDone == Up /\ write \notin {"none", "pending"}

\* The socket was closed meanwhile, or is no longer there: the handler
\* returns and the queue stays as it is.
WriteDoneAfterClose ==
  /\ WriteDone
  /\ ~Open
  /\ TouchSocket
  /\ write' = "none"
  /\ UNCHANGED <<session, posts, queue, writeTimer, submitted, wire>>

\* Seeded fault: the deadline of the last packet is not taken back.
PacketWrittenKeepsDeadline ==
  /\ WriteDone /\ Open
  /\ write = "success"
  /\ queue' = Tail(queue)
  /\ \/ /\ Tail(queue) # <<>>
        /\ StartWrite
     \/ /\ Tail(queue) = <<>>
        /\ write' = "none"
        /\ UNCHANGED writeTimer
  /\ UNCHANGED <<fault, session, posts, submitted, wire, dangling>>

\* Seeded fault: after a packet the next one is left to the next add_packet().
PacketWrittenWaits ==
  /\ WriteDone /\ Open
  /\ write = "success"
  /\ queue' = Tail(queue)
  /\ write' = "none"
  /\ writeTimer' = ExpiresAfter(writeTimer, Never)
  /\ UNCHANGED <<fault, session, posts, submitted, wire, dangling>>

\* Seeded fault: pop_back() for pop_front().
PacketWrittenPopsBack ==
  /\ WriteDone /\ Open
  /\ write = "success"
  /\ queue' = SubSeq(queue, 1, Len(queue) - 1)
  /\ \/ /\ Len(queue) > 1
        /\ StartWrite
     \/ /\ Len(queue) = 1
        /\ write' = "none"
        /\ writeTimer' = ExpiresAfter(writeTimer, Never)
  /\ UNCHANGED <<fault, session, posts, submitted, wire, dangling>>

\* pop_front(), and the next packet or no deadline
PacketWritten ==
  /\ WriteDone /\ Open
  /\ write = "success"
  /\ queue' = Tail(queue)
  /\ \/ /\ Tail(queue) # <<>>
        /\ StartWrite
     \/ /\ Tail(queue) = <<>>
        /\ write' = "none"
        /\ writeTimer' = ExpiresAfter(writeTimer, Never)
  /\ UNCHANGED <<fault, session, posts, submitted, wire, dangling>>

WriteFailed ==
  /\ WriteDone /\ Open
  /\ write = "error"
  /\ Stop("none")
  /\ UNCHANGED <<fault, posts, queue, writeTimer, submitted, wire, dangling>>
-----------------------------------------------------------------------------
\* The handler of check_write_deadline, which reaches the Session only
\* through its weak_ptr
CheckWriteDeadline ==
  /\ Up
  /\ \/ /\ writeTimer.wait = "aborted"
        /\ writeTimer' = AsyncWait(writeTimer)
        /\ UNCHANGED <<session, write>>
     \/ /\ writeTimer.wait = "expired"
        /\ writeTimer' = Ended(writeTimer)
        /\ Stop(write)
  /\ UNCHANGED <<fault, posts, queue, submitted, wire, dangling>>

WriteTimerFires ==
  /\ Up
  /\ IsDue(writeTimer)
  /\ writeTimer' = Fire(writeTimer)
  /\ UNCHANGED <<fault, session, posts, queue, write, submitted, wire, dangling>>

\* One second passes.
Tick ==
  /\ Up
  /\ writeTimer' = Elapse(writeTimer)
  /\ UNCHANGED <<fault, session, posts, queue, write, submitted, wire, dangling>>
-----------------------------------------------------------------------------
WriteHandler == WriteDoneAfterClose \/ PacketWritten \/ WriteFailed

Next ==
  \/ AddPacket
  \/ RunPost
  \/ WriteCompletes
  \/ WriteHandler
  \/ CheckWriteDeadline
  \/ SessionStops
  \/ SessionDestroyed
  \/ WriteTimerFires
  \/ Tick

Spec == Init /\ [][Next]_vars

(***************************************************************************)
(* Workers keep running what is ready, due timers are collected and time   *)
(* passes.  The peer need not read: WriteCompletes is not fair.            *)
(***************************************************************************)
WriterFairness ==
  /\ WF_vars(RunPost)
  /\ WF_vars(WriteHandler)
  /\ WF_vars(CheckWriteDeadline)
  /\ WF_vars(WriteTimerFires)
  /\ WF_vars(Tick)

-----------------------------------------------------------------------------
(* Safety                                                                  *)

\* The packets that are still to be written: the first of the queue is on
\* the wire already while the handler of its write has not popped it.
Unsent == IF write = "success" THEN Tail(queue) ELSE queue

\* While the socket is open no packet is lost, doubled or overtaken between
\* add_packet(), the strand, the queue and the wire.
NothingLost == Open => submitted = wire \o Unsent \o posts

\* A queue that is not empty is being written: otherwise add_packet() would
\* add to it for ever without starting a write.
QueueIsWritten == Open => (queue # <<>> <=> write # "none")

\* While a write is pending its deadline runs, and while nothing is to be
\* written none does.  A wait that had expired before its deadline was moved
\* is not covered: its handler is queued already and may stop the session.
DeadlineFollowsWrite ==
  Open /\ writeTimer.wait = "pending" =>
    /\ write = "pending" => writeTimer.due # Never
    /\ queue = <<>> => writeTimer.due = Never
-----------------------------------------------------------------------------
(* The contract of the Writer                                              *)

Channel == INSTANCE FifoChannel WITH
  sent      <- submitted,
  delivered <- wire,
  open      <- Open

FifoContract == Channel!ChannelSpec

\* A packet is on the wire in the end unless the connection ends: a peer
\* that does not read runs into the write deadline.
PacketsDelivered ==
  \A n \in 1 .. MaxPackets :
    Len(submitted) >= n ~> (Len(wire) >= n \/ ~Open \/ ~Up)
=============================================================================
